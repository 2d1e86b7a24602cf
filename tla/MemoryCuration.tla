--------------------------- MODULE MemoryCuration ---------------------------
(***************************************************************************)
(* How the assistant's memory plugin adds to the memories and weeds them.  *)
(* The hooks of a session look whether something is known and add it if it *)
(* is not, in two requests; once a day the hook of a new session lists the *)
(* memories and deletes duplicates and stale ones, in two more.  Meanwhile *)
(* other sessions do the same and tools add, rate and delete.  A request   *)
(* the plugin no longer waits for is still carried out.                    *)
(***************************************************************************)
EXTENDS Integers, FiniteSets, Functions, TLC

CONSTANTS
  Adders,        \* calls of addMemoryIfNovel, by the hooks of any session
  Contents,     \* what may be said: a category and a normalised text
  MaxMemories,  \* bound: the memories ever stored
  MaxUses,   \* bound: how often the tools are used
  MaxRestarts,  \* bound: how often the assistant is restarted
  ScanSize,     \* MAX_SCAN_SIZE: how many are listed, the youngest first
  DeleteBatch   \* MAX_DELETE_BATCH

ASSUME CurationAssumption ==
  /\ {ScanSize, DeleteBatch} \subseteq Nat \ {0}
  /\ {MaxMemories, MaxUses, MaxRestarts} \subseteq Nat
  /\ Contents # {}

VARIABLES
  memories,  \* id |-> [content, kind, score, age]; a larger id is younger
  issued,    \* the number of memories ever stored
  call,      \* per call, [at, content]
  hygiene,   \* [at, duplicates, stale]: the run of the day and what it has still to delete
  due,       \* is lastHygieneRunAt a day ago?
  late,      \* requests carried out without anybody waiting for them
  uses, restarts,  \* (bounded)
  doubled,   \* contents whose second copy has an excuse (history)
  spared     \* memories the last listing chose to keep (history)

stepVars == <<call, hygiene, due, late>>
curationVars == <<memories, issued, stepVars, uses, restarts, doubled, spared>>

Ids == 1..MaxMemories
Memories == [content : Contents, kind : {"weak", "usual", "pinned"}, score : -1..1, age : 0..2]
Unused == [at |-> "unused", content |-> CHOOSE c \in Contents : TRUE]
NoHygiene == [at |-> "none", duplicates |-> {}, stale |-> {}]

CurationTypeOK ==
  /\ memories \in [DOMAIN memories -> Memories] /\ DOMAIN memories \subseteq 1..issued
  /\ issued \in 0..MaxMemories
  /\ call \in [Adders -> [at : {"unused", "searching", "adding", "over"}, content : Contents]]
  /\ hygiene \in [at : {"none", "listing", "deduplicating", "pruning"},
                  duplicates : SUBSET Ids, stale : SUBSET Ids]
  /\ hygiene.duplicates \cap hygiene.stale = {}
  /\ due \in BOOLEAN /\ uses \in 0..MaxUses /\ restarts \in 0..MaxRestarts
  /\ late \subseteq [ids : SUBSET Ids, content : Contents]
  /\ doubled \subseteq Contents /\ spared \subseteq Ids

Copies(c) == {i \in DOMAIN memories : memories[i].content = c}

\* Memories of earlier sessions.  Only a tool stores one that is weak or pinned.
CurationInit ==
  /\ issued \in 0..2 /\ MaxMemories >= 2
  /\ memories \in [1..issued -> {m \in Memories : m.score = 0}]
  /\ \A i, j \in 1..issued : i < j => memories[i].age >= memories[j].age
  /\ call = [a \in Adders |-> Unused]
  /\ hygiene = NoHygiene /\ due = TRUE
  /\ late = {}
  /\ uses = 0 /\ restarts = 0
  /\ doubled = {c \in Contents : Cardinality(Copies(c)) > 1} /\ spared = {}

-----------------------------------------------------------------------------
(* The memory service.                                                      *)

Fresh(c, k) == [content |-> c, kind |-> k, score |-> 0, age |-> 0]

Stored(c, k) ==
  /\ issued < MaxMemories /\ issued' = issued + 1
  /\ memories' = [i \in DOMAIN memories \cup {issued + 1} |->
                    IF i = issued + 1 THEN Fresh(c, k) ELSE memories[i]]

\* The text is added with inference: the model takes it over, drops it, or has it
\* replace a memory that it found, with its metadata.
Inferred(c, k) ==
  \/ Stored(c, k) /\ UNCHANGED spared
  \/ UNCHANGED <<memories, issued, spared>>
  \/ \E i \in DOMAIN memories :
       /\ memories' = [memories EXCEPT ![i] = Fresh(c, k)] /\ UNCHANGED issued
       /\ spared' = spared \ {i}

Removed(ids) == memories' = Restrict(memories, DOMAIN memories \ ids)

-----------------------------------------------------------------------------
(* addMemoryIfNovel.                                                        *)

\* Is an add of it under way?
Racing(c) ==
  \/ \E a \in Adders : call[a].at = "adding" /\ call[a].content = c
  \/ \E q \in late : q.ids = {} /\ q.content = c

\* command.executed has read a preference; session.idle, for the second time and after
\* its cooldown, or session.deleted has outcomes enough, or an episode; session.created
\* has found what sessions have in common.
Learns(a) ==
  /\ call[a].at = "unused"
  /\ \E c \in Contents : call' = [call EXCEPT ![a] = [at |-> "searching", content |-> c]]
  /\ UNCHANGED <<memories, issued, hygiene, due, late, uses, restarts, doubled, spared>>

MovesTo(a, place) == call' = [call EXCEPT ![a].at = place]

\* A bug: the answer is not looked at.
Novel_Always(c) == TRUE

Novel(c) == Copies(c) = {}

\* The search is answered: what is known is not added again.
Searched(a) ==
  LET c == call[a].content IN
  /\ call[a].at = "searching"
  /\ MovesTo(a, IF Novel(c) THEN "adding" ELSE "over")
  /\ doubled' = IF Novel(c) /\ Racing(c) THEN doubled \cup {c} ELSE doubled
  /\ UNCHANGED <<memories, issued, hygiene, due, late, uses, restarts, spared>>

\* Neither search answers in time: an empty answer, and so a novelty.
SearchFails(a) ==
  /\ call[a].at = "searching" /\ MovesTo(a, "adding")
  /\ doubled' = doubled \cup {call[a].content}
  /\ UNCHANGED <<memories, issued, hygiene, due, late, uses, restarts, spared>>

Added(a) ==
  /\ call[a].at = "adding" /\ MovesTo(a, "over")
  /\ Inferred(call[a].content, "usual")
  /\ UNCHANGED <<hygiene, due, late, uses, restarts, doubled>>

AddTimesOut(a) ==
  /\ call[a].at = "adding" /\ MovesTo(a, "over")
  /\ late' = late \cup {[ids |-> {}, content |-> call[a].content]}
  /\ UNCHANGED <<memories, issued, hygiene, due, uses, restarts, doubled, spared>>

-----------------------------------------------------------------------------
(* runAutomatedHygiene.                                                     *)

\* session.created, with the memory service available: once a day.
SessionCreated ==
  /\ due /\ due' = FALSE
  /\ hygiene = NoHygiene /\ hygiene' = [NoHygiene EXCEPT !.at = "listing"]
  /\ UNCHANGED <<memories, issued, call, late, uses, restarts, doubled, spared>>

Scanned == {i \in DOMAIN memories : Cardinality({j \in DOMAIN memories : j > i}) < ScanSize}

Protected(i) == memories[i].kind = "pinned"

\* Ten times memoryQualityScore, of a confidence of 0.2 and of 0.7.
Quality(i) ==
  10 * memories[i].score
    + (CASE memories[i].kind = "weak" -> 2 [] memories[i].kind = "usual" -> 7 [] OTHER -> 107)

\* compareMemoryPriority.
Better(i, j) == Quality(i) > Quality(j) \/ (Quality(i) = Quality(j) /\ i > j)

\* A bug: the first of a group in the list is kept, whatever it is worth.
DuplicateCandidates_ByAge ==
  {i \in Scanned : ~Protected(i) /\ \E j \in Scanned \cap Copies(memories[i].content) : j > i}

DuplicateCandidates ==
  {i \in Scanned : ~Protected(i) /\ \E j \in Scanned \cap Copies(memories[i].content) : Better(j, i)}

\* 45 days, weak and not praised, or 120 days.
Stale(i) ==
  \/ memories[i].age = 2
  \/ memories[i].age = 1 /\ memories[i].kind = "weak" /\ memories[i].score <= 0

\* A bug: what is selected as a duplicate is not left out, and what is pinned is not.
StaleCandidates_All == {i \in Scanned : Stale(i)}

StaleCandidates == {i \in Scanned \ DuplicateCandidates : ~Protected(i) /\ Stale(i)}

\* slice(0, MAX_DELETE_BATCH): which of them come first is left open.
Batches(ids) ==
  {B \in SUBSET ids : Cardinality(B) = DeleteBatch \/ (B = ids /\ Cardinality(ids) < DeleteBatch)}

\* What is left to delete, duplicates first; with nothing left the hook goes on.
Deletes(duplicates, stale) ==
  hygiene' = CASE duplicates # {} -> [at |-> "deduplicating", duplicates |-> duplicates, stale |-> stale]
               [] duplicates = {} /\ stale # {} -> [at |-> "pruning", duplicates |-> {}, stale |-> stale]
               [] OTHER -> NoHygiene

\* The best of the copies, and what has none, is spared unless it is stale; the pinned
\* are spared.
Listed ==
  /\ hygiene.at = "listing"
  /\ \E D \in Batches(DuplicateCandidates), P \in Batches(StaleCandidates) : Deletes(D, P)
  /\ spared' = {i \in Scanned : \/ memories[i].kind = "pinned"
                              \/ (~Stale(i) /\ \A j \in Scanned \cap Copies(memories[i].content) : ~Better(j, i))}
  /\ UNCHANGED <<memories, issued, call, due, late, uses, restarts, doubled>>

\* An empty answer, or none: nothing is done until the next day.
ListFails ==
  /\ hygiene.at = "listing" /\ hygiene' = NoHygiene
  /\ UNCHANGED <<memories, issued, call, due, late, uses, restarts, doubled, spared>>

Batch == IF hygiene.at = "deduplicating" THEN hygiene.duplicates ELSE hygiene.stale
CarriesOn == IF hygiene.at = "deduplicating" THEN Deletes({}, hygiene.stale) ELSE Deletes({}, {})

Weeded ==
  /\ hygiene.at \in {"deduplicating", "pruning"}
  /\ Removed(Batch) /\ CarriesOn
  /\ UNCHANGED <<issued, call, due, late, uses, restarts, doubled, spared>>

WeedTimesOut ==
  /\ hygiene.at \in {"deduplicating", "pruning"}
  /\ late' = late \cup {[ids |-> Batch, content |-> Unused.content]}
  /\ CarriesOn
  /\ UNCHANGED <<memories, issued, call, due, uses, restarts, doubled, spared>>

\* The service comes to a request that was given up, or never does.  What an older
\* run deletes is not what this one spared.
ServedLate ==
  \E q \in late :
    /\ late' = late \ {q}
    /\ \/ q.ids # {} /\ Removed(q.ids) /\ spared' = spared \ q.ids /\ UNCHANGED issued
       \/ q.ids = {} /\ Inferred(q.content, "usual")
       \/ UNCHANGED <<memories, issued, spared>>
    /\ UNCHANGED <<call, hygiene, due, uses, restarts, doubled>>

-----------------------------------------------------------------------------
(* Beside the hooks.                                                        *)

\* The tools, and the plugin's feedback.
Uses == uses < MaxUses /\ uses' = uses + 1

\* memory-add asks nobody whether it is new, and its user sets the metadata.
ToolAdds ==
  /\ Uses
  /\ \E c \in Contents, k \in {"weak", "usual", "pinned"} :
       Inferred(c, k) /\ doubled' = doubled \cup {c}
  /\ UNCHANGED <<stepVars, restarts>>

ToolDeletes ==
  /\ Uses
  /\ \E i \in DOMAIN memories : Removed({i}) /\ spared' = spared \ {i}
  /\ UNCHANGED <<issued, stepVars, restarts, doubled>>

Rated ==
  /\ Uses
  /\ \E i \in DOMAIN memories, v \in {-1, 1} :
       memories[i].score + v \in -1..1 /\ memories' = [memories EXCEPT ![i].score = @ + v]
  /\ UNCHANGED <<issued, stepVars, restarts, doubled, spared>>

\* Days go by, far longer than any request takes: hygiene is due and memories age.
TimePasses ==
  /\ hygiene = NoHygiene /\ late = {} /\ \A a \in Adders : call[a].at \in {"unused", "over"}
  /\ due' = TRUE
  /\ \/ UNCHANGED memories
     \/ memories' = [i \in DOMAIN memories |-> [memories[i] EXCEPT !.age = IF @ < 2 THEN @ + 1 ELSE 2]]
  /\ UNCHANGED <<issued, call, hygiene, late, uses, restarts, doubled, spared>>

\* The assistant is restarted: the plugin has forgotten its sessions and the day of
\* its last hygiene; what it sent may still be carried out.
Restarted ==
  /\ restarts < MaxRestarts /\ restarts' = restarts + 1
  /\ call' = [a \in Adders |-> IF call[a].at = "unused" THEN Unused ELSE [call[a] EXCEPT !.at = "over"]]
  /\ hygiene' = NoHygiene /\ due' = TRUE
  /\ late' = late \cup {[ids |-> {}, content |-> call[a].content] : a \in {b \in Adders : call[b].at = "adding"}}
                  \cup (IF Batch = {} THEN {} ELSE {[ids |-> Batch, content |-> Unused.content]})
  /\ UNCHANGED <<memories, issued, uses, doubled, spared>>

-----------------------------------------------------------------------------
CurationNext ==
  \/ \E a \in Adders : Learns(a) \/ Searched(a) \/ SearchFails(a) \/ Added(a) \/ AddTimesOut(a)
  \/ SessionCreated \/ Listed \/ ListFails \/ Weeded \/ WeedTimesOut \/ ServedLate
  \/ ToolAdds \/ ToolDeletes \/ Rated \/ TimePasses \/ Restarted

CurationSpec == CurationInit /\ [][CurationNext]_curationVars

(***************************************************************************)
(* Properties.                                                             *)
(***************************************************************************)
\* "Uses novelty checks to avoid duplicate low-value writes": a second copy of a
\* memory has an excuse; a search that was not answered, a novelty that another
\* hook was just adding, a tool, or copies from before.
CopiesHaveExcuse == \A c \in Contents : Cardinality(Copies(c)) > 1 => c \in doubled

\* "With conservative safety rules", "with pinned/immutable protection": what hygiene
\* has to keep, because it is pinned, or the best or only copy and not stale, is there
\* until a tool, a model or a request from before takes it.
SparedStays == spared \subseteq DOMAIN memories

\* The states are well-typed, and the two hold.
CurationHolds == CurationTypeOK /\ CopiesHaveExcuse /\ SparedStays
=============================================================================
