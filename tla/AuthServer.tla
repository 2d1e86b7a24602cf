----------------------------- MODULE AuthServer -----------------------------
(***************************************************************************)
(* The admin server's own OpenCode process for OAuth flows: spawned when a *)
(* request first needs it and shared by those that follow.  An attempt to  *)
(* start one waits for a port, spawns, and polls until the process serves  *)
(* or the time is up; requests, other attempts and the end of a process    *)
(* come between, and all of them keep their state in one record.           *)
(***************************************************************************)
EXTENDS Naturals

CONSTANTS
  Callers,     \* requests, each calls ensureAuthServer once
  MaxStarts  \* bound: the calls of startServer; each has a process, a url and a home directory

ASSUME AttemptsAssumption == MaxStarts \in Nat

Attempts == 1..MaxStarts
NoAttempt == 0

VARIABLES
  attempt,   \* per attempt, where it is
  polled,    \* per attempt, whose url it is waiting for
  proc,      \* per attempt, its process: "none", "booting", "serving" or "exited"
  killed,    \* the attempts whose process was sent SIGTERM
  homes,     \* the attempts whose home directory exists
  auth,      \* the state: baseUrl, process, homeDir and ready, each of some attempt
  caller,    \* per caller, where it is
  awaits,    \* per caller, the attempt whose promise it awaits
  usurped    \* an attempt cleared what a later one had set (history)

authVars == <<attempt, polled, proc, killed, homes, auth, caller, awaits, usurped>>

MaybeAttempt == 0..MaxStarts

AuthTypeOK ==
  /\ attempt \in [Attempts -> {"unused", "port", "polling", "fetching", "answered", "ready", "failed"}]
  /\ polled \in [Attempts -> MaybeAttempt]
  /\ proc \in [Attempts -> {"none", "booting", "serving", "exited"}]
  /\ killed \subseteq Attempts /\ homes \subseteq Attempts
  /\ auth \in [baseUrl : MaybeAttempt, process : MaybeAttempt, homeDir : MaybeAttempt, ready : MaybeAttempt]
  /\ caller \in [Callers -> {"new", "waiting", "served", "refused"}]
  /\ awaits \in [Callers -> MaybeAttempt]
  /\ usurped \in BOOLEAN

Cleared == [baseUrl |-> NoAttempt, process |-> NoAttempt, homeDir |-> NoAttempt, ready |-> NoAttempt]

AuthInit ==
  /\ attempt = [a \in Attempts |-> "unused"] /\ polled = [a \in Attempts |-> NoAttempt]
  /\ proc = [a \in Attempts |-> "none"] /\ killed = {} /\ homes = {}
  /\ auth = Cleared
  /\ caller = [c \in Callers |-> "new"] /\ awaits = [c \in Callers |-> NoAttempt]
  /\ usurped = FALSE

Alive(a) == a \in Attempts /\ proc[a] \in {"booting", "serving"}

To(a, from, place) == attempt[a] = from /\ attempt' = [attempt EXCEPT ![a] = place]

-----------------------------------------------------------------------------
(* ensureAuthServer: an url whose process lives is given out, serving or not; *)
(* an attempt that is under way, or failed before it spawned, is awaited;    *)
(* else there is a new one.                                                  *)

\* A bug: the promise of the attempt under way is not looked at.
Shared_Never == NoAttempt

Shared == auth.ready

Ensure(c) ==
  /\ caller[c] = "new"
  /\ IF auth.baseUrl # NoAttempt /\ Alive(auth.process)
     THEN /\ caller' = [caller EXCEPT ![c] = "served"]
          /\ UNCHANGED <<attempt, auth, awaits>>
     ELSE /\ caller' = [caller EXCEPT ![c] = "waiting"]
          /\ IF Shared # NoAttempt
             THEN awaits' = [awaits EXCEPT ![c] = Shared] /\ UNCHANGED <<attempt, auth>>
             ELSE \E a \in Attempts :
                    /\ To(a, "unused", "port")
                    /\ \A b \in 1..(a - 1) : attempt[b] # "unused"
                    /\ auth' = [auth EXCEPT !.ready = a]
                    /\ awaits' = [awaits EXCEPT ![c] = a]
  /\ UNCHANGED <<polled, proc, killed, homes, usurped>>

\* The promise a caller awaits has settled.
Settle(c) ==
  /\ caller[c] = "waiting"
  /\ attempt[awaits[c]] \in {"ready", "failed"}
  /\ caller' = [caller EXCEPT ![c] = IF attempt[awaits[c]] = "ready" THEN "served" ELSE "refused"]
  /\ UNCHANGED <<attempt, polled, proc, killed, homes, auth, awaits, usurped>>

-----------------------------------------------------------------------------
(* startServer.                                                             *)

\* There is a port: the home directory is made, the process spawned, the state set.
Spawn(a) ==
  /\ To(a, "port", "polling")
  /\ homes' = homes \cup {a}
  /\ proc' = [proc EXCEPT ![a] = "booting"]
  /\ auth' = [auth EXCEPT !.process = a, !.baseUrl = a, !.homeDir = a]
  /\ UNCHANGED <<polled, killed, caller, awaits, usurped>>

\* There is no port, or the home directory cannot be made: what was made of it
\* and the rejected promise stay.
NoSpawn(a) ==
  /\ To(a, "port", "failed")
  /\ homes' \in {homes, homes \cup {a}}
  /\ UNCHANGED <<polled, proc, killed, auth, caller, awaits, usurped>>

\* A round asks the url the state has by now, which may be that of another attempt.
Fetch(a) ==
  /\ To(a, "polling", "fetching")
  /\ polled' = [polled EXCEPT ![a] = auth.baseUrl]
  /\ UNCHANGED <<proc, killed, homes, auth, caller, awaits, usurped>>

Answers(a) ==
  /\ polled[a] # NoAttempt /\ proc[polled[a]] = "serving"
  /\ To(a, "fetching", "answered")
  /\ polled' = [polled EXCEPT ![a] = NoAttempt]
  /\ UNCHANGED <<proc, killed, homes, auth, caller, awaits, usurped>>

\* No answer, or one that is not ok.
NoAnswer(a) ==
  /\ To(a, "fetching", "polling")
  /\ polled' = [polled EXCEPT ![a] = NoAttempt]
  /\ UNCHANGED <<proc, killed, homes, auth, caller, awaits, usurped>>

Ready(a) ==
  /\ To(a, "answered", "ready")
  /\ auth' = [auth EXCEPT !.ready = NoAttempt]
  /\ usurped' = (usurped \/ auth.ready \notin {a, NoAttempt})
  /\ UNCHANGED <<polled, proc, killed, homes, caller, awaits>>

\* The deadline may have passed whenever a round begins.  The attempt kills its own
\* process, and clears the state whosever it is.
TimesOut(a) ==
  /\ To(a, "polling", "failed")
  /\ killed' = IF Alive(a) THEN killed \cup {a} ELSE killed
  /\ homes' = homes \ {auth.homeDir}
  /\ auth' = Cleared
  /\ usurped' = (usurped \/ auth.process \notin {a, NoAttempt} \/ auth.ready \notin {a, NoAttempt})
  /\ UNCHANGED <<polled, proc, caller, awaits>>

-----------------------------------------------------------------------------
(* A process comes up, and ends of its own or when it is told to.           *)

Boots(a) ==
  /\ proc[a] = "booting" /\ proc' = [proc EXCEPT ![a] = "serving"]
  /\ UNCHANGED <<attempt, polled, killed, homes, auth, caller, awaits, usurped>>

Owned(a) == auth.process = a

\* The exit listener.
Exits(a) ==
  /\ Alive(a) /\ proc' = [proc EXCEPT ![a] = "exited"]
  /\ IF Owned(a)
     THEN homes' = homes \ {auth.homeDir} /\ auth' = Cleared
     ELSE UNCHANGED <<homes, auth>>
  /\ UNCHANGED <<attempt, polled, killed, caller, awaits, usurped>>

-----------------------------------------------------------------------------
Runs(a) == Spawn(a) \/ NoSpawn(a) \/ Fetch(a) \/ Answers(a) \/ NoAnswer(a) \/ Ready(a)

AuthNext ==
  \/ \E c \in Callers : Ensure(c) \/ Settle(c)
  \/ \E a \in Attempts : Runs(a) \/ TimesOut(a) \/ Boots(a) \/ Exits(a)

AuthSpec == AuthInit /\ [][AuthNext]_authVars

(***************************************************************************)
(* Properties.                                                             *)
(***************************************************************************)
\* The module "spawns one lazily and reuses it": among the processes nobody told
\* to end there is one, the one the state names, and no home directory outlives
\* its process, as long as no attempt that outlived its own process came to its
\* end and cleared what a later attempt had set.
OneServerUnlessUsurped ==
  ~usurped => \A a \in Attempts :
    /\ Alive(a) /\ a \notin killed => auth.process = a /\ auth.baseUrl = a
    /\ a \in homes /\ proc[a] # "none" => auth.homeDir = a
=============================================================================
