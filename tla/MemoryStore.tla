---------------------------- MODULE MemoryStore ----------------------------
(***************************************************************************)
(* The memory service: requests take turns (withMemoryLock), wait for the  *)
(* embedder and the language model, and write two tables in one database   *)
(* transaction: the row of a memory, its metadata in it, and its vector.   *)
(* The memories are those of one user; searching reads the rows.           *)
(***************************************************************************)
EXTENDS Integers, Sequences, FiniteSets, Functions

CONSTANTS
  Reqs,
  Ids,         \* ids of memories; a language model may make one up
  MaxOps,      \* bound: how many operations it decides on in one request
  MaxKills     \* bound: how often the process is killed

ASSUME MemoryAssumption == Ids # {} /\ MaxOps \in Nat /\ MaxKills \in Nat

Kinds == {"add", "infer", "put", "feedback", "delete", "deleteAll"}

VARIABLES
  rows,    \* the metadata table: id |-> feedback counted in its metadata
  vectors, \* the ids in the vector table
  issued,  \* the ids generated so far
  chain,   \* _memoryQueue: the requests in it, the first has its turn
  req,     \* per request, [kind, target, at, seen, found, ops]
  kills,   \* how often the process was killed (bounded)
  given,   \* per id, the feedback acknowledged since its metadata was set (history)
  strays   \* ids a model updated that had no row (history)

tableVars == <<rows, vectors, issued>>
memoryVars == <<tableVars, chain, req, kills, given, strays>>

Places == {"new", "queued", "embedding", "asking", "deciding", "deleting", "done", "failed"}

MemoryTypeOK ==
  /\ rows \in [DOMAIN rows -> Nat] /\ DOMAIN rows \subseteq Ids
  /\ vectors \subseteq Ids /\ issued \subseteq Ids /\ strays \subseteq Ids
  /\ chain \in Seq(Reqs)
  /\ req \in [Reqs -> [kind : Kinds, target : Ids, at : Places, seen : Nat, found : SUBSET Ids, ops : 0..MaxOps]]
  /\ kills \in 0..MaxKills
  /\ given \in [Ids -> Nat]

\* The database may hold memories from before.
MemoryInit ==
  /\ issued \in SUBSET Ids /\ vectors = issued /\ rows = [i \in issued |-> 0]
  /\ chain = <<>>
  /\ req = [r \in Reqs |-> [kind |-> "add", target |-> CHOOSE i \in Ids : TRUE, at |-> "new",
                            seen |-> 0, found |-> {}, ops |-> 0]]
  /\ kills = 0
  /\ given = [i \in Ids |-> 0]
  /\ strays = {}

-----------------------------------------------------------------------------
(* withMemoryLock.                                                          *)

\* A bug: an operation is started as it comes.
HasTurn_Any(r) == \E i \in DOMAIN chain : chain[i] = r

HasTurn(r) == chain # <<>> /\ Head(chain) = r

\* A bug: only an operation that succeeds lets the next one start.
Released_OnSuccess(how) == IF how = "failed" THEN chain ELSE Tail(chain)

\* The chain goes on after an operation, and after one that throws: it was the first's
\* turn.
Released(how) == Tail(chain)

Arrive(r) ==
  /\ req[r].at = "new"
  /\ \E k \in Kinds, i \in Ids :
       req' = [req EXCEPT ![r] = [@ EXCEPT !.kind = k, !.target = i, !.at = "queued"]]
  /\ chain' = Append(chain, r)
  /\ UNCHANGED <<tableVars, kills, given, strays>>

MovesTo(r, place) == req' = [req EXCEPT ![r].at = place]
Finishes(r, how) == MovesTo(r, how) /\ chain' = Released(how)

-----------------------------------------------------------------------------
(* The vector store, each operation one transaction.                        *)

Insert(i, feedback) ==
  /\ rows' = [j \in DOMAIN rows \cup {i} |-> IF j = i THEN feedback ELSE rows[j]]
  /\ vectors' = vectors \cup {i}

\* The row is updated if there is one; the vector is deleted and inserted.
Update(i, feedback) ==
  /\ rows' = [j \in DOMAIN rows |-> IF j = i THEN feedback ELSE rows[j]]
  /\ vectors' = vectors \cup {i}

Delete(ids) ==
  /\ rows' = Restrict(rows, DOMAIN rows \ ids)
  /\ vectors' = vectors \ ids

Fresh == Ids \ (issued \cup vectors)

-----------------------------------------------------------------------------
(* The requests, from wait to wait.                                         *)

\* put and feedback read the memory they are about and answer if there is none.
Begin(r) ==
  /\ req[r].at = "queued" /\ HasTurn(r)
  /\ \/ req[r].kind = "add" /\ MovesTo(r, "embedding") /\ UNCHANGED <<tableVars, chain>>
     \/ req[r].kind = "infer" /\ MovesTo(r, "asking") /\ UNCHANGED <<tableVars, chain>>
     \/ /\ req[r].kind \in {"put", "feedback"}
        /\ IF req[r].target \in DOMAIN rows
           THEN /\ req' = [req EXCEPT ![r] = [@ EXCEPT !.at = "embedding", !.seen = rows[req[r].target]]]
                /\ UNCHANGED chain
           ELSE Finishes(r, "failed")
        /\ UNCHANGED tableVars
     \/ /\ req[r].kind = "delete" /\ Delete({req[r].target})
        /\ Finishes(r, "done") /\ UNCHANGED issued
     \/ req[r].kind = "deleteAll" /\ MovesTo(r, "deleting") /\ UNCHANGED <<tableVars, chain>>
  /\ UNCHANGED <<kills, given, strays>>

\* Memory.deleteAll: one row after another, until none is listed.
DeleteNext(r) ==
  /\ req[r].at = "deleting"
  /\ IF DOMAIN rows = {}
     THEN Finishes(r, "done") /\ UNCHANGED tableVars
     ELSE (\E i \in DOMAIN rows : Delete({i})) /\ UNCHANGED <<req, chain, issued>>
  /\ UNCHANGED <<kills, given, strays>>

\* Memory.add without inference, Memory.update: the vector is there.
Embedded(r) ==
  /\ req[r].at = "embedding" /\ Finishes(r, "done")
  /\ \/ /\ req[r].kind = "add"
        /\ \E i \in Fresh :
             /\ Insert(i, 0)
             /\ issued' = issued \cup {i}
             /\ given' = [given EXCEPT ![i] = 0]
     \/ /\ req[r].kind = "put"
        /\ Update(req[r].target, req[r].seen)
        /\ UNCHANGED <<issued, given>>
     \/ /\ req[r].kind = "feedback"
        /\ Update(req[r].target, req[r].seen + 1)
        /\ given' = [given EXCEPT ![req[r].target] = @ + 1]
        /\ UNCHANGED issued
  /\ UNCHANGED <<kills, strays>>

\* Memory.add with inference: facts and their vectors are there, and what is
\* related to them is looked up.
Related(r) ==
  /\ req[r].at = "asking"
  /\ \E S \in SUBSET DOMAIN rows : req' = [req EXCEPT ![r] = [@ EXCEPT !.at = "deciding", !.found = S]]
  /\ UNCHANGED <<tableVars, chain, kills, given, strays>>

\* An operation the model decided on, about what was found or an id it made up.
\* It replaces the metadata of what it updates.
Decided(r) ==
  /\ req[r].at = "deciding" /\ req[r].ops < MaxOps
  /\ req' = [req EXCEPT ![r].ops = @ + 1]
  /\ \/ \E i \in Fresh :
          /\ Insert(i, 0) /\ issued' = issued \cup {i}
          /\ given' = [given EXCEPT ![i] = 0] /\ UNCHANGED strays
     \/ \E i \in req[r].found \cup Fresh :
          /\ Update(i, 0) /\ UNCHANGED issued
          /\ given' = [given EXCEPT ![i] = 0]
          /\ strays' = IF i \in DOMAIN rows THEN strays ELSE strays \cup {i}
     \/ \E i \in req[r].found \cup Fresh :
          Delete({i}) /\ UNCHANGED <<issued, given, strays>>
  /\ UNCHANGED <<chain, kills>>

\* No facts, nothing left to do; an operation that fails is skipped.
Inferred(r) ==
  /\ req[r].at \in {"asking", "deciding"}
  /\ Finishes(r, "done")
  /\ UNCHANGED <<tableVars, kills, given, strays>>

\* The embedder or the model fails, and the request with it.
RequestFails(r) ==
  /\ req[r].at \in {"embedding", "asking"}
  /\ Finishes(r, "failed")
  /\ UNCHANGED <<tableVars, kills, given, strays>>

\* The process is killed and started again: the database is all there is.
MemoryKilled ==
  /\ kills < MaxKills /\ kills' = kills + 1
  /\ chain' = <<>>
  /\ req' = [r \in Reqs |-> IF req[r].at \in {"new", "done"} THEN req[r] ELSE [req[r] EXCEPT !.at = "failed"]]
  /\ UNCHANGED <<tableVars, given, strays>>

-----------------------------------------------------------------------------
Serves(r) == Begin(r) \/ DeleteNext(r) \/ Embedded(r) \/ Related(r) \/ Inferred(r) \/ RequestFails(r)

MemoryNext ==
  \/ \E r \in Reqs : Arrive(r) \/ Serves(r) \/ Decided(r)
  \/ MemoryKilled

MemorySpec == MemoryInit /\ [][MemoryNext]_memoryVars

\* The embedder and the model answer or fail; the service sets no limit of its own.
MemoryFairness == \A r \in Reqs : WF_memoryVars(Serves(r))

LiveMemorySpec == MemorySpec /\ MemoryFairness

(***************************************************************************)
(* Properties.                                                             *)
(***************************************************************************)
\* Every row has its vector, which a search needs to find it; a vector without a
\* row stems from a model that updated what was not there (any more).
TablesAgree ==
  /\ DOMAIN rows \subseteq vectors
  /\ vectors \subseteq DOMAIN rows \cup strays

\* The metadata of a memory tells the feedback acknowledged since it was last set.
FeedbackCounted == \A i \in DOMAIN rows : rows[i] = given[i]

\* Though a request reads the memory it is about before it waits for the embedder
\* and writes it after, nothing that was deleted comes back by half, and no
\* feedback is lost or counted twice.
MemoriesWhole == TablesAgree /\ FeedbackCounted

\* Every request is answered, whatever the ones before it come to.
RequestEnds == \A r \in Reqs : req[r].at = "queued" ~> req[r].at \in {"done", "failed"}
=============================================================================
