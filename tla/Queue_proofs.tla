--------------------------- MODULE Queue_proofs ---------------------------
(***************************************************************************)
(* The conversation queue and the way of its tasks through the guardian,   *)
(* for any number of conversations, tasks and /clears. The queue serves    *)
(* one task at a time, in the order of arrival, and keeps no session that  *)
(* nothing waits in; and the guardian is asked in that order too, although *)
(* a request that was given up may still be in its line.                   *)
(***************************************************************************)
EXTENDS GuardianLine, FiniteSetTheorems, SequenceTheorems, TLAPS

(**************************************************************************)
(* The conversation queue.                                                *)
(**************************************************************************)
\* The tasks waiting in session k of the map s.
WaitsIn(s, k) == IF k \in DOMAIN s THEN s[k].queue ELSE <<>>

\* What waits is typed, is queued for its session, and came in this order; and
\* what is queued waits.
Typed(s) == \A k \in Keys : WaitsIn(s, k) \in Seq(Tasks)
Queued(s, ph, ky) ==
  \A k \in Keys : \A i \in 1..Len(WaitsIn(s, k)) :
    ph[WaitsIn(s, k)[i]] = "queued" /\ ky[WaitsIn(s, k)[i]] = k
Ordered(s, tk) ==
  \A k \in Keys : \A i, j \in 1..Len(WaitsIn(s, k)) :
    i < j => tk[WaitsIn(s, k)[i]] < tk[WaitsIn(s, k)[j]]
Found(s, ph, ky) ==
  \A t \in Tasks : ph[t] = "queued" =>
    \E i \in 1..Len(WaitsIn(s, ky[t])) : WaitsIn(s, ky[t])[i] = t

QueuesInv == Typed(states) /\ Queued(states, phase, key) /\ Ordered(states, ticket) /\ Found(states, phase, key)

\* The sessions in the map are those with a running task, and have only one.
BusyInv ==
  /\ \A k \in DOMAIN states : states[k].processing
  /\ \A k \in Keys : k \in DOMAIN states <=> \E t \in Tasks : phase[t] = "running" /\ key[t] = k
  /\ \A t, u \in Tasks : phase[t] = "running" /\ phase[u] = "running" /\ key[t] = key[u] => t = u

\* Whoever is not served yet came after those who are.
TurnInv ==
  /\ \A t \in Tasks : phase[t] # "new" => ticket[t] <= arrivals
  /\ \A t, u \in Tasks :
       /\ key[t] = key[u] /\ t # u
       /\ phase[t] \in {"queued", "running"} /\ phase[u] \in {"running", "done"}
       => ticket[u] < ticket[t]

QueueInv == QueueTypeOK /\ QueuesInv /\ BusyInv /\ TurnInv

(***************************************************************************)
(* Lemmas on the map.                                                      *)
(***************************************************************************)
\* Setting the state of one session.
LEMMA PutState ==
  ASSUME QueueTypeOK, NEW k \in Keys, NEW q \in Seq(Tasks),
         states' = Put(k, [processing |-> TRUE, queue |-> q])
  PROVE  /\ DOMAIN states' = DOMAIN states \cup {k}
         /\ WaitsIn(states', k) = q
         /\ \A x \in Keys \ {k} : WaitsIn(states', x) = WaitsIn(states, x)
         /\ \A x \in DOMAIN states' : states'[x] \in [processing : BOOLEAN, queue : Seq(Tasks)]
         /\ (\A x \in DOMAIN states : states[x].processing) => \A x \in DOMAIN states' : states'[x].processing
<1>1. DOMAIN states' = DOMAIN states \cup {k}
  BY DEF Put
<1>2. states'[k] = [processing |-> TRUE, queue |-> q]
  BY DEF Put
<1>3. \A x \in DOMAIN states' : x # k => x \in DOMAIN states /\ states'[x] = states[x]
  BY DEF Put
<1>4. WaitsIn(states', k) = q
  BY <1>1, <1>2 DEF WaitsIn
<1>5. \A x \in Keys \ {k} : WaitsIn(states', x) = WaitsIn(states, x)
  BY <1>1, <1>3 DEF WaitsIn
<1>6. ASSUME NEW x \in DOMAIN states'
      PROVE  states'[x] \in [processing : BOOLEAN, queue : Seq(Tasks)]
  <2>1. CASE x = k
    <3>1. [processing |-> TRUE, queue |-> q] \in [processing : BOOLEAN, queue : Seq(Tasks)]
      OBVIOUS
    <3> QED BY <2>1, <3>1, <1>2
  <2>2. CASE x # k
    BY <2>2, <1>3 DEF QueueTypeOK
  <2> QED BY <2>1, <2>2
<1>7. ASSUME \A x \in DOMAIN states : states[x].processing, NEW x \in DOMAIN states'
      PROVE  states'[x].processing
  <2>1. CASE x = k
    BY <2>1, <1>2
  <2>2. CASE x # k
    BY <2>2, <1>3, <1>7
  <2> QED BY <2>1, <2>2
<1> QED BY <1>1, <1>4, <1>5, <1>6, <1>7

\* Deleting it.
LEMMA DropState ==
  ASSUME QueueTypeOK, NEW k \in Keys, states' = Drop(k)
  PROVE  /\ DOMAIN states' = DOMAIN states \ {k}
         /\ WaitsIn(states', k) = <<>>
         /\ \A x \in Keys \ {k} : WaitsIn(states', x) = WaitsIn(states, x)
         /\ \A x \in DOMAIN states' : states'[x] = states[x]
<1>1. DOMAIN states' = DOMAIN states \ {k} /\ \A x \in DOMAIN states' : states'[x] = states[x]
  BY DEF Drop, Restrict
<1> QED BY <1>1 DEF WaitsIn

\* Waiting is a sequence of tasks by the types alone.
LEMMA WaitingType == ASSUME QueueTypeOK, NEW k \in Keys PROVE WaitsIn(states, k) \in Seq(Tasks)
  BY DEF QueueTypeOK, WaitsIn

(***************************************************************************)
(* Steps.                                                                  *)
(***************************************************************************)
LEMMA InitInv == ASSUME QueueInit PROVE QueueInv
<1>1. DOMAIN states = {} /\ \A k \in Keys : WaitsIn(states, k) = <<>>
  BY DEF QueueInit, WaitsIn
<1>2. QueueTypeOK
  BY <1>1 DEF QueueInit, QueueTypeOK, Phases
<1>3. QueuesInv
  <2>1. Typed(states)
    <3>1. <<>> \in Seq(Tasks)
      OBVIOUS
    <3> QED BY <1>1, <3>1 DEF Typed
  <2>2. Queued(states, phase, key) /\ Ordered(states, ticket)
    <3>1. \A k \in Keys : Len(WaitsIn(states, k)) = 0
      BY <1>1
    <3> QED BY <3>1 DEF Queued, Ordered
  <2>3. Found(states, phase, key)
    BY DEF QueueInit, Found
  <2> QED BY <2>1, <2>2, <2>3 DEF QueuesInv
<1> QED BY <1>1, <1>2, <1>3 DEF QueueInit, QueueInv, BusyInv, TurnInv

LEMMA QueueKeeps == ASSUME QueueInv, NEW t \in Tasks, Queue(t) PROVE QueueInv'
<1> DEFINE k == key[t]
           q == WaitsIn(states, k)
<1> USE DEF QueueInv
<1>1. /\ phase[t] = "new" /\ arrivals' = arrivals + 1 /\ key' = key
      /\ ticket' = [ticket EXCEPT ![t] = arrivals + 1]
      /\ phase' = [phase EXCEPT ![t] = "queued"]
      /\ k \in DOMAIN states
      /\ states' = Put(k, [processing |-> TRUE, queue |-> Append(q, t)])
  BY DEF Queue, Comes, isProcessing, Pushed, Waiting, WaitsIn
<1>2. k \in Keys /\ phase \in [Tasks -> Phases] /\ ticket \in [Tasks -> Nat] /\ key \in [Tasks -> Keys] /\ arrivals \in Nat
  BY DEF QueueTypeOK
<1>3. q \in Seq(Tasks) /\ Append(q, t) \in Seq(Tasks)
  BY <1>2, WaitingType
<1>4. /\ DOMAIN states' = DOMAIN states \cup {k}
      /\ WaitsIn(states', k) = Append(q, t)
      /\ \A x \in Keys \ {k} : WaitsIn(states', x) = WaitsIn(states, x)
      /\ \A x \in DOMAIN states' : states'[x] \in [processing : BOOLEAN, queue : Seq(Tasks)]
      /\ (\A x \in DOMAIN states : states[x].processing) => \A x \in DOMAIN states' : states'[x].processing
  BY <1>1, <1>2, <1>3, PutState
<1>5. \A u \in Tasks : u # t => phase'[u] = phase[u] /\ ticket'[u] = ticket[u]
  BY <1>1, <1>2
<1>6. phase'[t] = "queued" /\ ticket'[t] = arrivals + 1
  BY <1>1, <1>2
<1>7. QueueTypeOK'
  <2>1. phase' \in [Tasks -> Phases] /\ ticket' \in [Tasks -> Nat] /\ arrivals' \in Nat /\ key' \in [Tasks -> Keys]
    BY <1>1, <1>2 DEF Phases
  <2>2. DOMAIN states' \subseteq Keys
    BY <1>2, <1>4 DEF QueueTypeOK
  <2> QED BY <2>1, <2>2, <1>4 DEF QueueTypeOK
<1>8. BusyInv'
  <2>1. \A u \in Tasks : phase'[u] = "running" <=> phase[u] = "running"
    BY <1>1, <1>5, <1>6
  <2>2. DOMAIN states' = DOMAIN states
    BY <1>1, <1>4
  <2>3. \A x \in DOMAIN states' : states'[x].processing
    BY <1>4 DEF BusyInv
  <2> QED BY <2>1, <2>2, <2>3, <1>1 DEF BusyInv
<1>9. TurnInv'
  <2>1. ASSUME NEW u \in Tasks, phase'[u] # "new" PROVE ticket'[u] <= arrivals'
    BY <2>1, <1>1, <1>2, <1>5, <1>6 DEF TurnInv
  <2>2. ASSUME NEW v \in Tasks, NEW u \in Tasks, key[v] = key[u], v # u,
               phase'[v] \in {"queued", "running"}, phase'[u] \in {"running", "done"}
        PROVE  ticket'[u] < ticket'[v]
    <3>1. u # t /\ phase[u] \in {"running", "done"} /\ ticket'[u] = ticket[u] /\ ticket[u] <= arrivals
      BY <2>2, <1>5, <1>6 DEF TurnInv
    <3>2. CASE v = t
      BY <3>1, <3>2, <1>2, <1>6
    <3>3. CASE v # t
      BY <3>1, <3>3, <2>2, <1>5 DEF TurnInv
    <3> QED BY <3>2, <3>3
  <2> QED BY <2>1, <2>2, <1>1 DEF TurnInv
<1>10. QueuesInv'
  <2>1. Len(Append(q, t)) = Len(q) + 1 /\ Append(q, t)[Len(q) + 1] = t
        /\ \A i \in 1..Len(q) : Append(q, t)[i] = q[i]
    BY <1>3
  <2>2. Len(q) \in Nat /\ \A i \in 1..Len(q) : q[i] \in Tasks /\ q[i] # t /\ ticket[q[i]] <= arrivals
    BY <1>1, <1>2, <1>3 DEF QueuesInv, Queued, TurnInv
  <2>3. ASSUME NEW x \in Keys, x # k
        PROVE  \A i \in 1..Len(WaitsIn(states, x)) : WaitsIn(states, x)[i] \in Tasks /\ WaitsIn(states, x)[i] # t
    <3>1. WaitsIn(states, x) \in Seq(Tasks)
      BY WaitingType
    <3> QED BY <3>1, <1>1 DEF QueuesInv, Queued
  <2>4. \A x \in Keys : WaitsIn(states', x) \in Seq(Tasks)
    BY <1>3, <1>4 DEF QueuesInv, Typed
  <2>5. ASSUME NEW x \in Keys, NEW i \in 1..Len(WaitsIn(states', x))
        PROVE  phase'[WaitsIn(states', x)[i]] = "queued" /\ key[WaitsIn(states', x)[i]] = x
    <3>1. CASE x = k
      <4>1. CASE i = Len(q) + 1
        BY <3>1, <4>1, <1>4, <1>6, <2>1
      <4>2. CASE i # Len(q) + 1
        <5>1. i \in 1..Len(q)
          BY <3>1, <4>2, <1>4, <2>1, <2>2
        <5> QED BY <3>1, <5>1, <1>2, <1>4, <1>5, <2>1, <2>2 DEF QueuesInv, Queued
      <4> QED BY <4>1, <4>2
    <3>2. CASE x # k
      BY <3>2, <1>4, <1>5, <2>3 DEF QueuesInv, Queued
    <3> QED BY <3>1, <3>2
  <2>6. ASSUME NEW x \in Keys, NEW i \in 1..Len(WaitsIn(states', x)), NEW j \in 1..Len(WaitsIn(states', x)), i < j
        PROVE  ticket'[WaitsIn(states', x)[i]] < ticket'[WaitsIn(states', x)[j]]
    <3>1. CASE x = k
      <4>1. i \in 1..Len(q) /\ WaitsIn(states', x)[i] = q[i] /\ ticket'[q[i]] = ticket[q[i]]
        BY <3>1, <2>6, <1>4, <1>5, <2>1, <2>2
      <4>2. CASE j = Len(q) + 1
        <5>1. ticket'[WaitsIn(states', x)[j]] = arrivals + 1
          BY <3>1, <4>2, <1>4, <1>6, <2>1
        <5> QED BY <4>1, <5>1, <1>2, <2>2
      <4>3. CASE j # Len(q) + 1
        <5>1. j \in 1..Len(q) /\ WaitsIn(states', x)[j] = q[j] /\ ticket'[q[j]] = ticket[q[j]]
          BY <3>1, <4>3, <1>4, <1>5, <2>1, <2>2
        <5> QED BY <4>1, <5>1, <2>6, <1>2 DEF QueuesInv, Ordered
      <4> QED BY <4>2, <4>3
    <3>2. CASE x # k
      BY <3>2, <2>6, <1>4, <1>5, <2>3 DEF QueuesInv, Ordered
    <3> QED BY <3>1, <3>2
  <2>7. ASSUME NEW u \in Tasks, phase'[u] = "queued"
        PROVE  \E i \in 1..Len(WaitsIn(states', key[u])) : WaitsIn(states', key[u])[i] = u
    <3>1. CASE u = t
      BY <3>1, <1>4, <2>1, <2>2
    <3>2. CASE u # t
      <4>1. PICK i \in 1..Len(WaitsIn(states, key[u])) : WaitsIn(states, key[u])[i] = u
        BY <3>2, <2>7, <1>5 DEF QueuesInv, Found
      <4>2. CASE key[u] = k
        BY <4>1, <4>2, <1>4, <2>1, <2>2
      <4>3. CASE key[u] # k
        BY <4>1, <4>3, <1>2, <1>4
      <4> QED BY <4>2, <4>3
    <3> QED BY <3>1, <3>2
  <2>8. Typed(states') /\ Queued(states', phase', key) /\ Ordered(states', ticket') /\ Found(states', phase', key)
    BY <2>4, <2>5, <2>6, <2>7 DEF Typed, Queued, Ordered, Found
  <2> QED BY <2>8, <1>1 DEF QueuesInv
<1> QED BY <1>7, <1>8, <1>9, <1>10

LEMMA StartKeeps == ASSUME QueueInv, NEW t \in Tasks, Start(t) PROVE QueueInv'
<1> DEFINE k == key[t]
           q == WaitsIn(states, k)
<1> USE DEF QueueInv
<1>1. /\ phase[t] = "new" /\ arrivals' = arrivals + 1 /\ key' = key
      /\ ticket' = [ticket EXCEPT ![t] = arrivals + 1]
      /\ phase' = [phase EXCEPT ![t] = "running"]
      /\ states' = Put(k, [processing |-> TRUE, queue |-> q])
  BY DEF Start, Comes, Waiting, WaitsIn
<1>2. k \in Keys /\ phase \in [Tasks -> Phases] /\ ticket \in [Tasks -> Nat] /\ key \in [Tasks -> Keys] /\ arrivals \in Nat
  BY DEF QueueTypeOK
<1>3. k \notin DOMAIN states
  BY DEF Start, isProcessing, BusyInv
<1>4. q = <<>> /\ q \in Seq(Tasks)
  <2>1. <<>> \in Seq(Tasks)
    OBVIOUS
  <2> QED BY <2>1, <1>3 DEF WaitsIn
<1>5. /\ DOMAIN states' = DOMAIN states \cup {k}
      /\ WaitsIn(states', k) = q
      /\ \A x \in Keys \ {k} : WaitsIn(states', x) = WaitsIn(states, x)
      /\ \A x \in DOMAIN states' : states'[x] \in [processing : BOOLEAN, queue : Seq(Tasks)]
      /\ (\A x \in DOMAIN states : states[x].processing) => \A x \in DOMAIN states' : states'[x].processing
  BY <1>1, <1>2, <1>4, PutState
<1>6. \A x \in Keys : WaitsIn(states', x) = WaitsIn(states, x)
  BY <1>5
<1>7. phase'[t] = "running" /\ ticket'[t] = arrivals + 1
      /\ \A u \in Tasks : u # t => phase'[u] = phase[u] /\ ticket'[u] = ticket[u]
  BY <1>1, <1>2
<1>8. QueueTypeOK'
  <2>1. phase' \in [Tasks -> Phases] /\ ticket' \in [Tasks -> Nat] /\ arrivals' \in Nat /\ key' \in [Tasks -> Keys]
    BY <1>1, <1>2 DEF Phases
  <2>2. DOMAIN states' \subseteq Keys
    BY <1>2, <1>5 DEF QueueTypeOK
  <2> QED BY <2>1, <2>2, <1>5 DEF QueueTypeOK
<1>9. \A u \in Tasks : key[u] = k => phase[u] \notin {"running", "queued"}
  <2>1. ASSUME NEW u \in Tasks, key[u] = k, phase[u] = "running" PROVE FALSE
    BY <2>1, <1>2, <1>3 DEF BusyInv
  <2>2. ASSUME NEW u \in Tasks, key[u] = k, phase[u] = "queued" PROVE FALSE
    <3>1. \E i \in 1..Len(q) : q[i] = u
      BY <2>2 DEF QueuesInv, Found
    <3> QED BY <3>1, <1>4
  <2> QED BY <2>1, <2>2
<1>10. BusyInv'
  <2>1. \A u \in Tasks : phase'[u] = "running" <=> phase[u] = "running" \/ u = t
    BY <1>7
  <2>2. \A x \in DOMAIN states' : states'[x].processing
    BY <1>5 DEF BusyInv
  <2>3. \A x \in Keys : x \in DOMAIN states' <=> \E u \in Tasks : phase'[u] = "running" /\ key[u] = x
    BY <2>1, <1>5 DEF BusyInv
  <2>4. \A u, v \in Tasks : phase'[u] = "running" /\ phase'[v] = "running" /\ key[u] = key[v] => u = v
    BY <2>1, <1>9 DEF BusyInv
  <2> QED BY <2>2, <2>3, <2>4, <1>1 DEF BusyInv
<1>11. TurnInv'
  <2>1. ASSUME NEW u \in Tasks, phase'[u] # "new" PROVE ticket'[u] <= arrivals'
    BY <2>1, <1>1, <1>2, <1>7 DEF TurnInv
  <2>2. ASSUME NEW v \in Tasks, NEW u \in Tasks, key[v] = key[u], v # u,
               phase'[v] \in {"queued", "running"}, phase'[u] \in {"running", "done"}
        PROVE  ticket'[u] < ticket'[v]
    <3>1. CASE v = t
      <4>1. ticket'[u] = ticket[u] /\ ticket[u] <= arrivals /\ ticket[u] \in Nat
        BY <3>1, <2>2, <1>2, <1>7 DEF TurnInv
      <4> QED BY <3>1, <4>1, <1>2, <1>7
    <3>2. CASE u = t
      BY <3>2, <2>2, <1>7, <1>9
    <3>3. CASE u # t /\ v # t
      BY <3>3, <2>2, <1>7 DEF TurnInv
    <3> QED BY <3>1, <3>2, <3>3
  <2> QED BY <2>1, <2>2, <1>1 DEF TurnInv
<1>12. QueuesInv'
  <2>1. \A x \in Keys : \A i \in 1..Len(WaitsIn(states, x)) :
          /\ WaitsIn(states, x)[i] \in Tasks
          /\ WaitsIn(states, x)[i] # t
    <3>1. ASSUME NEW x \in Keys, NEW i \in 1..Len(WaitsIn(states, x))
          PROVE  WaitsIn(states, x)[i] \in Tasks /\ WaitsIn(states, x)[i] # t
      <4>1. WaitsIn(states, x) \in Seq(Tasks)
        BY DEF QueuesInv, Typed
      <4> QED BY <4>1, <1>1 DEF QueuesInv, Queued
    <3> QED BY <3>1
  <2>2. Typed(states')
    BY <1>6 DEF QueuesInv, Typed
  <2>3. Queued(states', phase', key)
    BY <2>1, <1>6, <1>7 DEF QueuesInv, Queued
  <2>4. Ordered(states', ticket')
    BY <2>1, <1>6, <1>7 DEF QueuesInv, Ordered
  <2>5. Found(states', phase', key)
    BY <1>2, <1>6, <1>7 DEF QueuesInv, Found
  <2> QED BY <2>2, <2>3, <2>4, <2>5, <1>1 DEF QueuesInv
<1> QED BY <1>8, <1>10, <1>11, <1>12

\* The running task hands over to the head of its queue.
LEMMA DrainKeeps ==
  ASSUME QueueInv, NEW t \in Tasks, phase[t] = "running", WaitsIn(states, key[t]) # <<>>,
         states' = Put(key[t], [processing |-> TRUE, queue |-> Tail(WaitsIn(states, key[t]))]),
         phase' = [phase EXCEPT ![t] = "done", ![Head(WaitsIn(states, key[t]))] = "running"],
         UNCHANGED <<key, arrivals, ticket>>
  PROVE  QueueInv'
<1> DEFINE k == key[t]
           q == WaitsIn(states, k)
           h == Head(q)
<1> USE DEF QueueInv
<1>1. k \in Keys /\ phase \in [Tasks -> Phases] /\ ticket \in [Tasks -> Nat] /\ key \in [Tasks -> Keys] /\ arrivals \in Nat
  BY DEF QueueTypeOK
<1>2. q \in Seq(Tasks) /\ q # <<>>
  BY <1>1 DEF QueuesInv, Typed
<1>3. /\ Len(q) \in Nat /\ Len(q) > 0 /\ h = q[1] /\ h \in Tasks
      /\ Tail(q) \in Seq(Tasks) /\ Len(Tail(q)) = Len(q) - 1
      /\ \A i \in 1..Len(Tail(q)) : Tail(q)[i] = q[i + 1] /\ i + 1 \in 1..Len(q)
  BY <1>2
<1>4. /\ DOMAIN states' = DOMAIN states \cup {k}
      /\ WaitsIn(states', k) = Tail(q)
      /\ \A x \in Keys \ {k} : WaitsIn(states', x) = WaitsIn(states, x)
      /\ \A x \in DOMAIN states' : states'[x] \in [processing : BOOLEAN, queue : Seq(Tasks)]
      /\ (\A x \in DOMAIN states : states[x].processing) => \A x \in DOMAIN states' : states'[x].processing
  BY <1>1, <1>3, PutState
<1>5. phase[h] = "queued" /\ key[h] = k /\ h # t
  <2>1. 1 \in 1..Len(q)
    BY <1>3
  <2> QED BY <1>1, <1>3, <2>1 DEF QueuesInv, Queued
<1>6. phase'[t] = "done" /\ phase'[h] = "running"
      /\ \A u \in Tasks : u # t /\ u # h => phase'[u] = phase[u]
  BY <1>1, <1>3, <1>5
<1>7. k \in DOMAIN states
  BY <1>1 DEF BusyInv
<1>8. \A i \in 1..Len(q) : i # 1 => ticket[h] < ticket[q[i]] /\ q[i] # h
  <2>1. ASSUME NEW i \in 1..Len(q), i # 1 PROVE ticket[h] < ticket[q[i]]
    <3>1. 1 \in 1..Len(q) /\ 1 < i
      BY <2>1, <1>3
    <3> QED BY <3>1, <1>1, <1>3 DEF QueuesInv, Ordered
  <2> QED BY <2>1, <1>1, <1>3
<1>9. QueueTypeOK'
  <2>1. phase' \in [Tasks -> Phases]
    BY <1>1 DEF Phases
  <2>2. DOMAIN states' \subseteq Keys
    BY <1>1, <1>4 DEF QueueTypeOK
  <2> QED BY <2>1, <2>2, <1>1, <1>4 DEF QueueTypeOK
<1>10. BusyInv'
  <2>1. \A u \in Tasks : phase'[u] = "running" <=> u = h \/ (phase[u] = "running" /\ u # t)
    BY <1>5, <1>6
  <2>2. \A u \in Tasks : phase[u] = "running" /\ key[u] = k => u = t
    BY DEF BusyInv
  <2>3. \A x \in DOMAIN states' : states'[x].processing
    BY <1>4 DEF BusyInv
  <2>4. \A x \in Keys : x \in DOMAIN states' <=> \E u \in Tasks : phase'[u] = "running" /\ key[u] = x
    <3>1. ASSUME NEW x \in Keys, x = k
          PROVE  x \in DOMAIN states' /\ phase'[h] = "running" /\ key[h] = x
      BY <3>1, <1>4, <1>5, <1>6
    <3>2. ASSUME NEW x \in Keys, x # k
          PROVE  x \in DOMAIN states' <=> \E u \in Tasks : phase'[u] = "running" /\ key[u] = x
      <4>1. x \in DOMAIN states' <=> x \in DOMAIN states
        BY <3>2, <1>4
      <4>2. \A u \in Tasks : key[u] = x => (phase'[u] = "running" <=> phase[u] = "running")
        BY <3>2, <2>1, <1>5
      <4> QED BY <4>1, <4>2 DEF BusyInv
    <3> QED BY <3>1, <3>2, <1>3
  <2>5. \A u, v \in Tasks : phase'[u] = "running" /\ phase'[v] = "running" /\ key[u] = key[v] => u = v
    BY <2>1, <2>2, <1>5 DEF BusyInv
  <2> QED BY <2>3, <2>4, <2>5 DEF BusyInv
<1>11. TurnInv'
  <2>1. ASSUME NEW u \in Tasks, phase'[u] # "new" PROVE ticket'[u] <= arrivals'
    BY <2>1, <1>5, <1>6 DEF TurnInv
  <2>2. ASSUME NEW v \in Tasks, NEW u \in Tasks, key[v] = key[u], v # u,
               phase'[v] \in {"queued", "running"}, phase'[u] \in {"running", "done"}
        PROVE  ticket[u] < ticket[v]
    <3>1. phase[v] \in {"queued", "running"} /\ v # t
      BY <2>2, <1>5, <1>6
    <3>2. CASE u = h
      <4>1. v # h /\ phase'[v] = phase[v] /\ key[v] = k
        BY <3>1, <3>2, <2>2, <1>5, <1>6
      <4>2. phase[v] = "queued"
        BY <3>1, <4>1 DEF BusyInv
      <4>3. PICK i \in 1..Len(q) : q[i] = v
        BY <4>1, <4>2 DEF QueuesInv, Found
      <4>4. i # 1
        BY <4>1, <4>3, <1>3
      <4> QED BY <3>2, <4>3, <4>4, <1>8
    <3>3. CASE u # h
      <4>1. phase[u] \in {"running", "done"}
        BY <3>3, <2>2, <1>5, <1>6
      <4> QED BY <4>1, <3>1, <2>2 DEF TurnInv
    <3> QED BY <3>2, <3>3
  <2> QED BY <2>1, <2>2 DEF TurnInv
<1>12. QueuesInv'
  <2>1. ASSUME NEW x \in Keys, x # k
        PROVE  \A i \in 1..Len(WaitsIn(states, x)) :
                 WaitsIn(states, x)[i] \in Tasks /\ WaitsIn(states, x)[i] # t /\ WaitsIn(states, x)[i] # h
    <3>1. WaitsIn(states, x) \in Seq(Tasks)
      BY DEF QueuesInv, Typed
    <3> QED BY <3>1, <2>1, <1>5 DEF QueuesInv, Queued
  <2>2. \A i \in 1..Len(q) : q[i] \in Tasks /\ q[i] # t
    BY <1>1, <1>2 DEF QueuesInv, Queued
  <2>3. Typed(states')
    BY <1>3, <1>4 DEF QueuesInv, Typed
  <2>4. \A i \in 1..Len(WaitsIn(states', k)) :
          i \in Int /\ i + 1 \in 1..Len(q) /\ i + 1 # 1 /\ WaitsIn(states', k)[i] = q[i + 1]
    <3>1. \A i \in 1..Len(Tail(q)) : i \in Int /\ i + 1 \in 1..Len(q) /\ i + 1 # 1 /\ Tail(q)[i] = q[i + 1]
      BY <1>3
    <3> QED BY <3>1, <1>4
  <2>5. ASSUME NEW x \in Keys, NEW i \in 1..Len(WaitsIn(states', x))
        PROVE  phase'[WaitsIn(states', x)[i]] = "queued" /\ key[WaitsIn(states', x)[i]] = x
    <3>1. CASE x = k
      <4>1. i + 1 \in 1..Len(q) /\ WaitsIn(states', x)[i] = q[i + 1] /\ i + 1 # 1
        BY <3>1, <2>4
      <4>2. q[i + 1] \in Tasks /\ q[i + 1] # t /\ q[i + 1] # h
        BY <4>1, <2>2, <1>8
      <4> QED BY <3>1, <4>1, <4>2, <1>1, <1>6 DEF QueuesInv, Queued
    <3>2. CASE x # k
      <4>1. WaitsIn(states', x) = WaitsIn(states, x)
        BY <3>2, <1>4
      <4>2. /\ WaitsIn(states, x)[i] \in Tasks
            /\ phase'[WaitsIn(states, x)[i]] = phase[WaitsIn(states, x)[i]]
        BY <3>2, <4>1, <2>1, <1>6
      <4> QED BY <4>1, <4>2 DEF QueuesInv, Queued
    <3> QED BY <3>1, <3>2
  <2>6. ASSUME NEW x \in Keys, NEW i \in 1..Len(WaitsIn(states', x)), NEW j \in 1..Len(WaitsIn(states', x)), i < j
        PROVE  ticket[WaitsIn(states', x)[i]] < ticket[WaitsIn(states', x)[j]]
    <3>1. CASE x = k
      <4>1. /\ i + 1 \in 1..Len(q) /\ WaitsIn(states', x)[i] = q[i + 1]
            /\ j + 1 \in 1..Len(q) /\ WaitsIn(states', x)[j] = q[j + 1]
            /\ i + 1 < j + 1
        <5>1. i + 1 \in 1..Len(q) /\ WaitsIn(states', x)[i] = q[i + 1] /\ i \in Int
          BY <3>1, <2>4
        <5>2. j + 1 \in 1..Len(q) /\ WaitsIn(states', x)[j] = q[j + 1] /\ j \in Int
          BY <3>1, <2>4
        <5> QED BY <5>1, <5>2, <2>6
      <4> QED BY <4>1, <1>1 DEF QueuesInv, Ordered
    <3>2. CASE x # k
      BY <3>2, <2>6, <1>4 DEF QueuesInv, Ordered
    <3> QED BY <3>1, <3>2
  <2>7. ASSUME NEW u \in Tasks, phase'[u] = "queued"
        PROVE  \E i \in 1..Len(WaitsIn(states', key[u])) : WaitsIn(states', key[u])[i] = u
    <3>1. u # t /\ u # h /\ phase[u] = "queued"
      BY <2>7, <1>6
    <3>2. PICK i \in 1..Len(WaitsIn(states, key[u])) : WaitsIn(states, key[u])[i] = u
      BY <3>1 DEF QueuesInv, Found
    <3>3. CASE key[u] = k
      <4>1. i \in 1..Len(q) /\ q[i] = u /\ i # 1
        BY <3>1, <3>2, <3>3, <1>3
      <4>2. i - 1 \in 1..Len(Tail(q)) /\ Tail(q)[i - 1] = q[(i - 1) + 1]
        BY <4>1, <1>3
      <4>3. (i - 1) + 1 = i
        BY <4>1
      <4>4. Tail(q)[i - 1] = u
        BY <4>1, <4>2, <4>3
      <4>5. WaitsIn(states', key[u]) = Tail(q)
        BY <3>3, <1>4
      <4> QED BY <4>2, <4>4, <4>5
    <3>4. CASE key[u] # k
      BY <3>2, <3>4, <1>1, <1>4
    <3> QED BY <3>3, <3>4
  <2>8. Queued(states', phase', key) /\ Ordered(states', ticket) /\ Found(states', phase', key)
    BY <2>5, <2>6, <2>7 DEF Queued, Ordered, Found
  <2> QED BY <2>3, <2>8 DEF QueuesInv
<1> QED BY <1>9, <1>10, <1>11, <1>12

\* The running task ends and nothing waits: the session leaves the map.
LEMMA IdleKeeps ==
  ASSUME QueueInv, NEW t \in Tasks, phase[t] = "running", WaitsIn(states, key[t]) = <<>>,
         states' = Drop(key[t]), phase' = [phase EXCEPT ![t] = "done"],
         UNCHANGED <<key, arrivals, ticket>>
  PROVE  QueueInv'
<1> DEFINE k == key[t]
<1> USE DEF QueueInv
<1>1. k \in Keys /\ phase \in [Tasks -> Phases] /\ ticket \in [Tasks -> Nat] /\ key \in [Tasks -> Keys] /\ arrivals \in Nat
  BY DEF QueueTypeOK
<1>2. /\ DOMAIN states' = DOMAIN states \ {k}
      /\ WaitsIn(states', k) = <<>>
      /\ \A x \in Keys \ {k} : WaitsIn(states', x) = WaitsIn(states, x)
      /\ \A x \in DOMAIN states' : states'[x] = states[x]
  BY <1>1, DropState
<1>3. \A x \in Keys : WaitsIn(states', x) = WaitsIn(states, x)
  BY <1>2
<1>4. phase'[t] = "done" /\ \A u \in Tasks : u # t => phase'[u] = phase[u]
  BY <1>1
<1>5. QueueTypeOK'
  <2>1. phase' \in [Tasks -> Phases]
    BY <1>1 DEF Phases
  <2>2. DOMAIN states' \subseteq Keys /\ \A x \in DOMAIN states' : states'[x] \in [processing : BOOLEAN, queue : Seq(Tasks)]
    BY <1>2 DEF QueueTypeOK
  <2> QED BY <2>1, <2>2, <1>1 DEF QueueTypeOK
<1>6. BusyInv'
  <2>1. \A u \in Tasks : phase'[u] = "running" <=> phase[u] = "running" /\ u # t
    BY <1>4
  <2>2. \A u \in Tasks : phase[u] = "running" /\ key[u] = k => u = t
    BY DEF BusyInv
  <2>3. \A x \in Keys : x \in DOMAIN states' <=> \E u \in Tasks : phase'[u] = "running" /\ key[u] = x
    BY <2>1, <2>2, <1>2 DEF BusyInv
  <2>4. \A x \in DOMAIN states' : states'[x].processing
    BY <1>2 DEF BusyInv
  <2>5. \A u, v \in Tasks : phase'[u] = "running" /\ phase'[v] = "running" /\ key[u] = key[v] => u = v
    BY <2>1 DEF BusyInv
  <2> QED BY <2>3, <2>4, <2>5 DEF BusyInv
<1>7. TurnInv'
  <2>1. ASSUME NEW u \in Tasks, phase'[u] # "new" PROVE ticket[u] <= arrivals
    BY <2>1, <1>4 DEF TurnInv
  <2>2. ASSUME NEW v \in Tasks, NEW u \in Tasks, key[v] = key[u], v # u,
               phase'[v] \in {"queued", "running"}, phase'[u] \in {"running", "done"}
        PROVE  ticket[u] < ticket[v]
    BY <2>2, <1>4 DEF TurnInv
  <2> QED BY <2>1, <2>2 DEF TurnInv
<1>8. QueuesInv'
  <2>1. ASSUME NEW x \in Keys, NEW i \in 1..Len(WaitsIn(states, x))
        PROVE  WaitsIn(states, x)[i] \in Tasks /\ WaitsIn(states, x)[i] # t
    <3>1. WaitsIn(states, x) \in Seq(Tasks)
      BY WaitingType
    <3> QED BY <3>1 DEF QueuesInv, Queued
  <2>2. Typed(states') /\ Ordered(states', ticket)
    BY <1>3 DEF QueuesInv, Typed, Ordered
  <2>3. Queued(states', phase', key)
    BY <2>1, <1>3, <1>4 DEF QueuesInv, Queued
  <2>4. Found(states', phase', key)
    BY <1>1, <1>3, <1>4 DEF QueuesInv, Found
  <2> QED BY <2>2, <2>3, <2>4 DEF QueuesInv
<1> QED BY <1>5, <1>6, <1>7, <1>8

\* A task ends, well or not.
LEMMA EndKeeps == ASSUME QueueInv, NEW t \in Tasks, NEW failed \in BOOLEAN, End(t, failed) PROVE QueueInv'
<1>1. phase[t] = "running" /\ UNCHANGED <<key, arrivals, ticket>> /\ Waiting(key[t]) = WaitsIn(states, key[t])
  BY DEF End, Waiting, WaitsIn
<1>2. CASE Drains(key[t], failed)
  <2>1. WaitsIn(states, key[t]) # <<>>
    BY <1>1, <1>2 DEF Drains
  <2>2. /\ states' = Put(key[t], [processing |-> TRUE, queue |-> Tail(WaitsIn(states, key[t]))])
        /\ phase' = [phase EXCEPT ![t] = "done", ![Head(WaitsIn(states, key[t]))] = "running"]
    BY <1>1, <1>2 DEF End
  <2> QED BY <1>1, <2>1, <2>2, DrainKeeps
<1>3. CASE ~Drains(key[t], failed)
  <2>1. WaitsIn(states, key[t]) = <<>>
    BY <1>1, <1>3 DEF Drains
  <2>2. states' = Drop(key[t]) /\ phase' = [phase EXCEPT ![t] = "done"]
    BY <1>3 DEF End, Idle
  <2> QED BY <1>1, <2>1, <2>2, IdleKeeps
<1> QED BY <1>2, <1>3

\* A clear drops what waits, and nothing else.
LEMMA ClearKeeps == ASSUME QueueInv, NEW k \in Keys, clear(k) PROVE QueueInv'
<1> DEFINE q == WaitsIn(states, k)
<1> USE DEF QueueInv
<1>1. phase \in [Tasks -> Phases] /\ ticket \in [Tasks -> Nat] /\ key \in [Tasks -> Keys] /\ arrivals \in Nat
  BY DEF QueueTypeOK
<1>2. q \in Seq(Tasks) /\ <<>> \in Seq(Tasks) /\ Len(<<>>) = 0
  <2>1. <<>> \in Seq(Tasks) /\ Len(<<>>) = 0
    OBVIOUS
  <2> QED BY <2>1, WaitingType
<1>3. /\ k \in DOMAIN states
      /\ states' = Put(k, [processing |-> TRUE, queue |-> <<>>])
      /\ UNCHANGED <<key, arrivals, ticket>>
  <2>1. k \in DOMAIN states /\ UNCHANGED <<key, arrivals, ticket>> /\ states' = Cleared(k)
    BY DEF clear
  <2>2. states[k].processing
    BY <2>1 DEF BusyInv
  <2> QED BY <2>1, <2>2 DEF Cleared
<1>4. \A u \in Tasks : phase'[u] = IF \E i \in 1..Len(q) : q[i] = u THEN "dropped" ELSE phase[u]
  <2>1. Waiting(k) = q /\ DOMAIN q = 1..Len(q)
    BY <1>2 DEF Waiting, WaitsIn
  <2> QED BY <2>1 DEF clear
<1>5. \A i \in 1..Len(q) : q[i] \in Tasks /\ phase[q[i]] = "queued" /\ key[q[i]] = k
  BY <1>2 DEF QueuesInv, Queued
<1>6. \A u \in Tasks : phase'[u] = IF phase[u] = "queued" /\ key[u] = k THEN "dropped" ELSE phase[u]
  <2>1. ASSUME NEW u \in Tasks
        PROVE  (\E i \in 1..Len(q) : q[i] = u) <=> (phase[u] = "queued" /\ key[u] = k)
    <3>1. phase[u] = "queued" => \E i \in 1..Len(WaitsIn(states, key[u])) : WaitsIn(states, key[u])[i] = u
      BY DEF QueuesInv, Found
    <3>2. phase[u] = "queued" /\ key[u] = k => \E i \in 1..Len(q) : q[i] = u
      BY <3>1
    <3> QED BY <3>2, <1>5
  <2> QED BY <2>1, <1>4
<1>7. /\ DOMAIN states' = DOMAIN states \cup {k}
      /\ WaitsIn(states', k) = <<>>
      /\ \A x \in Keys \ {k} : WaitsIn(states', x) = WaitsIn(states, x)
      /\ \A x \in DOMAIN states' : states'[x] \in [processing : BOOLEAN, queue : Seq(Tasks)]
      /\ (\A x \in DOMAIN states : states[x].processing) => \A x \in DOMAIN states' : states'[x].processing
  BY <1>2, <1>3, PutState
<1>8. \A i \in 1..Len(WaitsIn(states', k)) : FALSE
  BY <1>2, <1>7
<1>9. QueueTypeOK'
  <2>1. phase' \in [Tasks -> Phases]
    <3>1. phase' = [u \in Tasks |-> phase'[u]]
      BY DEF clear
    <3>2. \A u \in Tasks : phase'[u] \in Phases
      BY <1>1, <1>6 DEF Phases
    <3> QED BY <3>1, <3>2
  <2>2. DOMAIN states' \subseteq Keys
    BY <1>7 DEF QueueTypeOK
  <2> QED BY <2>1, <2>2, <1>1, <1>3, <1>7 DEF QueueTypeOK
<1>10. BusyInv'
  <2>1. \A u \in Tasks : phase'[u] = "running" <=> phase[u] = "running"
    BY <1>6
  <2>2. \A x \in DOMAIN states' : states'[x].processing
    BY <1>7 DEF BusyInv
  <2>3. DOMAIN states' = DOMAIN states
    BY <1>3, <1>7
  <2>4. \A x \in Keys : x \in DOMAIN states' <=> \E u \in Tasks : phase'[u] = "running" /\ key[u] = x
    BY <2>1, <2>3 DEF BusyInv
  <2>5. \A u, v \in Tasks : phase'[u] = "running" /\ phase'[v] = "running" /\ key[u] = key[v] => u = v
    BY <2>1 DEF BusyInv
  <2> QED BY <2>2, <2>4, <2>5, <1>3 DEF BusyInv
<1>11. TurnInv'
  <2>1. ASSUME NEW u \in Tasks, phase'[u] # "new" PROVE ticket[u] <= arrivals
    BY <2>1, <1>6 DEF TurnInv
  <2>2. ASSUME NEW v \in Tasks, NEW u \in Tasks, key[v] = key[u], v # u,
               phase'[v] \in {"queued", "running"}, phase'[u] \in {"running", "done"}
        PROVE  ticket[u] < ticket[v]
    <3>1. phase'[v] = phase[v] /\ phase'[u] = phase[u]
      BY <2>2, <1>6
    <3> QED BY <3>1, <2>2 DEF TurnInv
  <2> QED BY <2>1, <2>2, <1>3 DEF TurnInv
<1>12. QueuesInv'
  <2>1. Typed(states')
    BY <1>2, <1>7 DEF QueuesInv, Typed
  <2>2. ASSUME NEW x \in Keys, NEW i \in 1..Len(WaitsIn(states', x))
        PROVE  phase'[WaitsIn(states', x)[i]] = "queued" /\ key[WaitsIn(states', x)[i]] = x
    <3>1. x # k
      BY <1>8
    <3>2. WaitsIn(states', x) = WaitsIn(states, x) /\ WaitsIn(states, x) \in Seq(Tasks)
      BY <3>1, <1>7, WaitingType
    <3>3. WaitsIn(states, x)[i] \in Tasks /\ phase[WaitsIn(states, x)[i]] = "queued" /\ key[WaitsIn(states, x)[i]] = x
      BY <3>2 DEF QueuesInv, Queued
    <3>4. phase'[WaitsIn(states, x)[i]] = "queued"
      BY <3>1, <3>3, <1>6
    <3> QED BY <3>2, <3>3, <3>4
  <2>3. ASSUME NEW x \in Keys, NEW i \in 1..Len(WaitsIn(states', x)), NEW j \in 1..Len(WaitsIn(states', x)), i < j
        PROVE  ticket[WaitsIn(states', x)[i]] < ticket[WaitsIn(states', x)[j]]
    <3>1. x # k
      BY <1>8
    <3>2. WaitsIn(states', x) = WaitsIn(states, x)
      BY <3>1, <1>7
    <3> QED BY <3>2, <2>3 DEF QueuesInv, Ordered
  <2>4. ASSUME NEW u \in Tasks, phase'[u] = "queued"
        PROVE  \E i \in 1..Len(WaitsIn(states', key[u])) : WaitsIn(states', key[u])[i] = u
    <3>1. phase[u] = "queued" /\ key[u] # k
      BY <2>4, <1>6
    <3>2. WaitsIn(states', key[u]) = WaitsIn(states, key[u])
      BY <3>1, <1>1, <1>7
    <3> QED BY <3>1, <3>2 DEF QueuesInv, Found
  <2>5. Queued(states', phase', key) /\ Ordered(states', ticket) /\ Found(states', phase', key)
    BY <2>2, <2>3, <2>4 DEF Queued, Ordered, Found
  <2> QED BY <2>1, <2>5, <1>3 DEF QueuesInv
<1> QED BY <1>9, <1>10, <1>11, <1>12

\* Each task is served in its turn.
LEMMA ServesInTurn == ASSUME QueueInv PROVE ServedInTurn
<1> SUFFICES ASSUME NEW t \in Tasks, NEW u \in Tasks, key[t] = key[u],
                    phase[t] # "new", phase[u] \in {"running", "done"}, ticket[t] < ticket[u]
             PROVE  phase[t] \in {"done", "dropped"}
  BY DEF ServedInTurn
<1>1. ticket[t] \in Nat /\ ticket[u] \in Nat /\ phase[t] \in Phases
  BY DEF QueueInv, QueueTypeOK
<1>2. phase[t] \notin {"queued", "running"}
  BY <1>1 DEF QueueInv, TurnInv
<1> QED BY <1>1, <1>2 DEF Phases

\* The map has a session for each running task, with those that wait for it.
LEMMA MapIsExact == ASSUME QueueInv PROVE MapExact
<1>1. \A k \in Keys : k \in DOMAIN states <=> Running(k) # {}
  BY DEF QueueInv, BusyInv, Running
<1>2. \A k \in DOMAIN states : states[k].processing
  BY DEF QueueInv, BusyInv
<1>3. ASSUME NEW t \in Tasks
      PROVE  phase[t] = "queued" <=> \E i \in DOMAIN Waiting(key[t]) : Waiting(key[t])[i] = t
  <2>1. key[t] \in Keys
    BY DEF QueueInv, QueueTypeOK
  <2>2. WaitsIn(states, key[t]) \in Seq(Tasks) /\ Waiting(key[t]) = WaitsIn(states, key[t])
    BY <2>1, WaitingType DEF QueueInv, Waiting, WaitsIn
  <2>3. DOMAIN Waiting(key[t]) = 1..Len(WaitsIn(states, key[t]))
    BY <2>2
  <2>4. phase[t] = "queued" <=> \E i \in 1..Len(WaitsIn(states, key[t])) : WaitsIn(states, key[t])[i] = t
    BY <2>1 DEF QueueInv, QueuesInv, Queued, Found
  <2> QED BY <2>2, <2>3, <2>4
<1> QED BY <1>1, <1>2, <1>3 DEF MapExact

(***************************************************************************)
(* The theorems.                                                           *)
(***************************************************************************)
\* The inductive invariant: what waits in the map is what is queued, in order
\* of arrival, and a session is in the map just while its one task runs.
THEOREM QueueInvariant == QueueSpec => []QueueInv
<1>1. QueueInv /\ [QueueNext]_queueVars => QueueInv'
  <2> SUFFICES ASSUME QueueInv, [QueueNext]_queueVars PROVE QueueInv'
    OBVIOUS
  <2>1. ASSUME NEW t \in Tasks, Queue(t) PROVE QueueInv'
    BY <2>1, QueueKeeps
  <2>2. ASSUME NEW t \in Tasks, Start(t) PROVE QueueInv'
    BY <2>2, StartKeeps
  <2>3. ASSUME NEW t \in Tasks, NEW failed \in BOOLEAN, End(t, failed) PROVE QueueInv'
    BY <2>3, EndKeeps
  <2>4. ASSUME NEW k \in Keys, clear(k) PROVE QueueInv'
    BY <2>4, ClearKeeps
  <2>5. CASE UNCHANGED queueVars
    BY <2>5 DEF queueVars, QueueInv, QueueTypeOK, QueuesInv, BusyInv, TurnInv
  <2> QED BY <2>1, <2>2, <2>3, <2>4, <2>5 DEF QueueNext
<1> QED BY InitInv, <1>1, PTL DEF QueueSpec

\* The states of the queue are well-typed: in particular what waits stays a
\* flat sequence of tasks.
THEOREM QueueTypeCorrect == QueueSpec => []QueueTypeOK
<1>1. QueueInv => QueueTypeOK
  BY DEF QueueInv
<1> QED BY <1>1, QueueInvariant, PTL

\* Tasks of one session are served one at a time and in the order they came.
THEOREM QueueServesInTurn == QueueSpec => []ServedInTurn
<1>1. QueueInv => ServedInTurn
  BY ServesInTurn
<1> QED BY <1>1, QueueInvariant, PTL

\* The map holds the busy sessions, all of them, and the tasks that wait.
THEOREM QueueMapExact == QueueSpec => []MapExact
<1>1. QueueInv => MapExact
  BY MapIsExact
<1> QED BY <1>1, QueueInvariant, PTL

(***************************************************************************)
(* The line of the guardian.                                               *)
(***************************************************************************)
\* The tasks of a conversation that wait in its line, and where.
Lined(k, t) == \E i \in 1..Len(line[k]) : line[k][i] = t

\* A request on its way is that of a running task; one that reached the guardian is
\* of a task that ran, and waits in the line of its conversation until it is handled.
Ran == {"running", "done"}
OnTheWay ==
  /\ \A t \in Tasks : at[t] \in {"sent", "line"} => phase[t] = "running"
  /\ \A k \in Keys : \A t \in Tasks : Lined(k, t) => key[t] = k /\ at[t] \in {"line", "aborted"} /\ phase[t] \in Ran
  /\ \A i \in 1..Len(handled) : at[handled[i]] \in {"replied", "aborted"} /\ phase[handled[i]] \in Ran

\* Who waits behind another came after it, and after all that was handled.
LineInOrder ==
  /\ \A k \in Keys : \A i, j \in 1..Len(line[k]) :
       i < j /\ line[k][i] \in Tasks /\ line[k][j] \in Tasks => ticket[line[k][i]] < ticket[line[k][j]]
  /\ \A k \in Keys : \A t \in Tasks : \A i \in 1..Len(handled) :
       Lined(k, t) /\ key[handled[i]] = k => ticket[handled[i]] < ticket[t]

LineInv == LineTypeOK /\ OnTheWay /\ LineInOrder /\ AskedInOrder

\* What the queue does leaves requests where they are: whoever ran keeps its ticket,
\* and whoever waits for the guardian goes on running.
LEMMA QueueStepsFit ==
  ASSUME QueueInv, [QueueNext]_queueVars
  PROVE  /\ key' = key /\ key \in [Tasks -> Keys]
         /\ \A t \in Tasks : phase[t] \in Ran => phase'[t] \in Ran /\ ticket'[t] = ticket[t]
<1> USE DEF QueueInv, QueueTypeOK, Phases, Ran
<1>1. ASSUME NEW u \in Tasks, Queue(u) \/ Start(u)
      PROVE  /\ key' = key
             /\ \A t \in Tasks : phase[t] \in Ran => phase'[t] \in Ran /\ ticket'[t] = ticket[t]
  BY <1>1 DEF Queue, Start, Comes
<1>2. ASSUME NEW u \in Tasks, NEW failed \in BOOLEAN, End(u, failed)
      PROVE  /\ key' = key
             /\ \A t \in Tasks : phase[t] \in Ran => phase'[t] \in Ran /\ ticket'[t] = ticket[t]
  <2>1. CASE Drains(key[u], failed)
    BY <1>2, <2>1 DEF End
  <2>2. CASE ~Drains(key[u], failed)
    BY <1>2, <2>2 DEF End
  <2> QED BY <2>1, <2>2
<1>3. ASSUME NEW k \in Keys, clear(k)
      PROVE  /\ key' = key
             /\ \A t \in Tasks : phase[t] \in Ran => phase'[t] \in Ran /\ ticket'[t] = ticket[t]
  <2>1. Waiting(k) = WaitsIn(states, k) /\ WaitsIn(states, k) \in Seq(Tasks)
    BY WaitingType DEF Waiting, WaitsIn
  <2>2. \A i \in DOMAIN Waiting(k) : phase[Waiting(k)[i]] = "queued"
    BY <2>1 DEF QueuesInv, Queued
  <2> QED BY <1>3, <2>2 DEF clear
<1>4. CASE UNCHANGED queueVars
  BY <1>4 DEF queueVars
<1> QED BY <1>1, <1>2, <1>3, <1>4 DEF QueueNext

\* An end of a task that does not wait for the guardian, and any other step of the queue.
LEMMA RunnersStay ==
  ASSUME QueueInv, NEW k \in Keys, NEW u \in Tasks, NEW failed \in BOOLEAN,
         \/ UNCHANGED queueVars \/ Queue(u) \/ Start(u) \/ clear(k)
         \/ End(u, failed) /\ at[u] \notin {"sent", "line"}
  PROVE  \A t \in Tasks : phase[t] = "running" /\ at[t] \in {"sent", "line"} => phase'[t] = "running"
<1> USE DEF QueueInv, QueueTypeOK, Phases
<1>1. CASE UNCHANGED queueVars
  BY <1>1 DEF queueVars
<1>2. CASE Queue(u) \/ Start(u)
  BY <1>2 DEF Queue, Start, Comes
<1>3. CASE End(u, failed) /\ at[u] \notin {"sent", "line"}
  <2>1. CASE Drains(key[u], failed)
    BY <1>3, <2>1 DEF End
  <2>2. CASE ~Drains(key[u], failed)
    BY <1>3, <2>2 DEF End
  <2> QED BY <2>1, <2>2
<1>4. CASE clear(k)
  <2>1. Waiting(k) = WaitsIn(states, k) /\ WaitsIn(states, k) \in Seq(Tasks)
    BY WaitingType DEF Waiting, WaitsIn
  <2>2. \A i \in DOMAIN Waiting(k) : phase[Waiting(k)[i]] = "queued"
    BY <2>1 DEF QueuesInv, Queued
  <2> QED BY <1>4, <2>2 DEF clear
<1> QED BY <1>1, <1>2, <1>3, <1>4

\* So the line stays as it was.
LEMMA LineUntouched ==
  ASSUME QueueInv, LineInv, [QueueNext]_queueVars,
         \A t \in Tasks : phase[t] = "running" /\ at[t] \in {"sent", "line"} => phase'[t] = "running",
         UNCHANGED <<at, line, handled>>,
         context' \in [Keys -> SUBSET Tasks],
         clearing' \in [Clears -> {"new", "sent", "line", "ok", "refused", "done"}],
         behind' \in [Clears -> SUBSET Tasks]
  PROVE  LineInv'
<1>1. /\ key' = key
      /\ \A t \in Tasks : phase[t] \in Ran => phase'[t] \in Ran /\ ticket'[t] = ticket[t]
  BY QueueStepsFit
<1>2. handled \in Seq(Tasks) /\ \A i \in 1..Len(handled) : handled[i] \in Tasks
  BY DEF LineInv, LineTypeOK
<1>3. LineTypeOK'
  BY DEF LineInv, LineTypeOK
<1>4. \A k \in Keys, t \in Tasks : Lined(k, t)' <=> Lined(k, t)
  BY DEF Lined
<1>5. OnTheWay'
  BY <1>1, <1>2, <1>4 DEF LineInv, OnTheWay
<1>6. \A k \in Keys : \A i \in 1..Len(line[k]) : line[k][i] \in Tasks => ticket'[line[k][i]] = ticket[line[k][i]]
  BY <1>1 DEF LineInv, OnTheWay, Lined
<1>7. \A i \in 1..Len(handled) : ticket'[handled[i]] = ticket[handled[i]]
  BY <1>1, <1>2 DEF LineInv, OnTheWay
<1>8. LineInOrder'
  <2>1. \A k \in Keys : \A i, j \in 1..Len(line'[k]) :
       i < j /\ line'[k][i] \in Tasks /\ line'[k][j] \in Tasks => ticket'[line'[k][i]] < ticket'[line'[k][j]]
    BY <1>6 DEF LineInv, LineInOrder
  <2>2. \A k \in Keys : \A t \in Tasks : \A i \in 1..Len(handled') :
       Lined(k, t)' /\ key'[handled'[i]] = k => ticket'[handled'[i]] < ticket'[t]
    BY <1>1, <1>2, <1>4, <1>7 DEF LineInv, LineInOrder, OnTheWay
  <2> QED BY <2>1, <2>2 DEF LineInOrder
<1>9. AskedInOrder'
  BY <1>1, <1>2, <1>7 DEF LineInv, AskedInOrder
<1> QED BY <1>3, <1>5, <1>8, <1>9 DEF LineInv

\* A request is sent, or given up: nothing in the line moves.
LEMMA SendFits ==
  ASSUME LineInv, NEW t \in Tasks, Send(t) \/ Aborts(t)
  PROVE  LineInv'
<1>1. /\ at' \in [Tasks -> {"none", "sent", "line", "replied", "aborted"}]
      /\ \A u \in Tasks \ {t} : at'[u] = at[u]
      /\ \/ at[t] = "none" /\ at'[t] = "sent" /\ phase[t] = "running"
         \/ at[t] = "line" /\ at'[t] = "aborted"
  BY DEF Send, Aborts, At, LineInv, LineTypeOK
<1>2. UNCHANGED <<phase, key, ticket, line, context, handled, clearVars>>
  BY DEF Send, Aborts, queueVars
<1>3. LineTypeOK'
  BY <1>1, <1>2 DEF LineInv, LineTypeOK, clearVars
<1>4. \A k \in Keys, u \in Tasks : Lined(k, u)' <=> Lined(k, u)
  BY <1>2 DEF Lined
<1>5. \A i \in 1..Len(handled) : handled[i] \in Tasks
  BY DEF LineInv, LineTypeOK
<1>6. OnTheWay'
  BY <1>1, <1>2, <1>4, <1>5 DEF LineInv, OnTheWay
<1>7. LineInOrder' /\ AskedInOrder'
  BY <1>2, <1>4 DEF LineInv, LineInOrder, AskedInOrder
<1> QED BY <1>3, <1>6, <1>7 DEF LineInv

\* Joining a line: the end of it is new, the rest is as it was.
LEMMA JoinsFits ==
  ASSUME line \in [Keys -> Seq(Requests)], NEW k \in Keys, NEW r \in Requests, line' = Joins(k, r)
  PROVE  /\ line' \in [Keys -> Seq(Requests)]
         /\ \A x \in Keys \ {k} : line'[x] = line[x]
         /\ Len(line'[k]) = Len(line[k]) + 1 /\ Len(line[k]) \in Nat /\ line'[k][Len(line[k]) + 1] = r
         /\ \A i \in 1..Len(line[k]) : line'[k][i] = line[k][i]
<1>1. line[k] \in Seq(Requests) /\ line'[k] = Append(line[k], r) /\ \A x \in Keys \ {k} : line'[x] = line[x]
  BY DEF Joins
<1>2. Append(line[k], r) \in Seq(Requests)
  BY <1>1
<1> QED BY <1>1, <1>2 DEF Joins

\* Nobody of its conversation who ran came later than the one that runs.
LEMMA RunnerIsLast ==
  ASSUME QueueInv, NEW t \in Tasks, phase[t] = "running", NEW u \in Tasks, u # t, key[u] = key[t], phase[u] \in Ran
  PROVE  ticket[u] < ticket[t]
BY DEF QueueInv, TurnInv, Ran

LEMMA ArrivesFits ==
  ASSUME QueueInv, LineInv, NEW t \in Tasks, NEW k \in Keys, k = key[t], Arrives(t)
  PROVE  LineInv'
<1>0. t \in Requests
  BY DEF Requests
<1>1. /\ at[t] = "sent" /\ at'[t] \in {"line", "replied"}
      /\ at' \in [Tasks -> {"none", "sent", "line", "replied", "aborted"}]
      /\ \A u \in Tasks \ {t} : at'[u] = at[u]
      /\ phase[t] = "running"
  <2>1. /\ at[t] = "sent"
        /\ at' = [at EXCEPT ![t] = "line"] \/ at' = [at EXCEPT ![t] = "replied"]
    BY DEF Arrives, At
  <2>2. at \in [Tasks -> {"none", "sent", "line", "replied", "aborted"}]
    BY DEF LineInv, LineTypeOK
  <2>3. phase[t] = "running"
    BY <2>1 DEF LineInv, OnTheWay
  <2> QED BY <2>1, <2>2, <2>3
<1>2. UNCHANGED <<phase, key, ticket, context, handled, clearVars>>
  BY DEF Arrives, queueVars
<1>5. \A i \in 1..Len(handled) : handled[i] \in Tasks /\ handled[i] # t
  BY <1>1 DEF LineInv, LineTypeOK, OnTheWay
<1>6. \A x \in Keys : \A u \in Tasks : Lined(x, u) => u # t
  BY <1>1 DEF LineInv, OnTheWay
<1>7. CASE UNCHANGED line
  <2>1. LineTypeOK'
    BY <1>1, <1>2, <1>7 DEF LineInv, LineTypeOK, clearVars
  <2>2. \A x \in Keys, u \in Tasks : Lined(x, u)' <=> Lined(x, u)
    BY <1>7 DEF Lined
  <2>3. OnTheWay'
    <3>1. \A u \in Tasks : at'[u] \in {"sent", "line"} => phase'[u] = "running"
      BY <1>1, <1>2 DEF LineInv, OnTheWay
    <3>2. \A x \in Keys : \A u \in Tasks : Lined(x, u)' => key'[u] = x /\ at'[u] \in {"line", "aborted"} /\ phase'[u] \in Ran
      BY <1>1, <1>2, <1>6, <2>2 DEF LineInv, OnTheWay
    <3>3. \A i \in 1..Len(handled') : at'[handled'[i]] \in {"replied", "aborted"} /\ phase'[handled'[i]] \in Ran
      BY <1>1, <1>2, <1>5 DEF LineInv, OnTheWay
    <3> QED BY <3>1, <3>2, <3>3 DEF OnTheWay
  <2>4. LineInOrder' /\ AskedInOrder'
    BY <1>2, <1>7, <2>2 DEF LineInv, LineInOrder, AskedInOrder
  <2> QED BY <2>1, <2>3, <2>4 DEF LineInv
<1>8. CASE line' = Joins(k, t) /\ at'[t] = "line"
  <2>0. /\ line' \in [Keys -> Seq(Requests)]
        /\ \A x \in Keys \ {k} : line'[x] = line[x]
        /\ Len(line'[k]) = Len(line[k]) + 1 /\ Len(line[k]) \in Nat /\ line'[k][Len(line[k]) + 1] = t
        /\ \A i \in 1..Len(line[k]) : line'[k][i] = line[k][i]
    BY <1>0, <1>8, JoinsFits DEF LineInv, LineTypeOK
  <2>1. LineTypeOK'
    BY <1>1, <1>2, <2>0 DEF LineInv, LineTypeOK, clearVars
  <2>2. \A x \in Keys, u \in Tasks : Lined(x, u)' <=> (Lined(x, u) \/ (x = k /\ u = t))
    <3>1. ASSUME NEW u \in Tasks PROVE Lined(k, u)' <=> (Lined(k, u) \/ u = t)
      <4>1. Lined(k, u)' <=> \E i \in 1..Len(line'[k]) : line'[k][i] = u
        BY DEF Lined
      <4>2. ASSUME Lined(k, u) PROVE Lined(k, u)'
        <5>1. PICK i \in 1..Len(line[k]) : line[k][i] = u
          BY <4>2 DEF Lined
        <5>2. i \in 1..Len(line'[k]) /\ line'[k][i] = u
          BY <5>1, <2>0
        <5> QED BY <5>2, <4>1
      <4>3. ASSUME u = t PROVE Lined(k, u)'
        <5>1. Len(line[k]) + 1 \in 1..Len(line'[k])
          BY <2>0
        <5> QED BY <4>1, <4>3, <5>1, <2>0
      <4>4. ASSUME Lined(k, u)', u # t PROVE Lined(k, u)
        <5>1. PICK i \in 1..Len(line'[k]) : line'[k][i] = u
          BY <4>1, <4>4
        <5>2. i \in 1..Len(line[k])
          BY <5>1, <4>4, <2>0
        <5> QED BY <5>1, <5>2, <2>0 DEF Lined
      <4> QED BY <4>2, <4>3, <4>4
    <3>2. ASSUME NEW x \in Keys, x # k, NEW u \in Tasks PROVE Lined(x, u)' <=> Lined(x, u)
      BY <3>2, <2>0 DEF Lined
    <3> QED BY <3>1, <3>2
  <2>3. OnTheWay'
    <3>1. \A u \in Tasks : at'[u] \in {"sent", "line"} => phase'[u] = "running"
      BY <1>1, <1>2 DEF LineInv, OnTheWay
    <3>2. \A x \in Keys : \A u \in Tasks : Lined(x, u)' => key'[u] = x /\ at'[u] \in {"line", "aborted"} /\ phase'[u] \in Ran
      BY <1>1, <1>2, <1>6, <1>8, <2>2 DEF LineInv, OnTheWay, Ran
    <3>3. \A i \in 1..Len(handled') : at'[handled'[i]] \in {"replied", "aborted"} /\ phase'[handled'[i]] \in Ran
      BY <1>1, <1>2, <1>5 DEF LineInv, OnTheWay
    <3> QED BY <3>1, <3>2, <3>3 DEF OnTheWay
  <2>4. \A i \in 1..Len(line[k]) : line[k][i] \in Tasks => ticket[line[k][i]] < ticket[t]
    <3>1. ASSUME NEW i \in 1..Len(line[k]), line[k][i] \in Tasks PROVE ticket[line[k][i]] < ticket[t]
      <4>1. Lined(k, line[k][i])
        BY DEF Lined
      <4>2. key[line[k][i]] = k /\ phase[line[k][i]] \in Ran /\ line[k][i] # t
        BY <1>0, <1>6, <3>1, <4>1 DEF LineInv, OnTheWay
      <4> QED BY <1>1, <3>1, <4>2, RunnerIsLast
    <3> QED BY <3>1
  <2>5. LineInOrder'
    <3>1. ASSUME NEW x \in Keys, NEW i \in 1..Len(line'[x]), NEW j \in 1..Len(line'[x]),
                 i < j, line'[x][i] \in Tasks, line'[x][j] \in Tasks
          PROVE  ticket[line'[x][i]] < ticket[line'[x][j]]
      <4>1. CASE x # k
        BY <2>0, <3>1, <4>1 DEF LineInv, LineInOrder
      <4>2. CASE x = k /\ j = Len(line[k]) + 1
        <5>1. i \in 1..Len(line[k]) /\ line'[k][i] = line[k][i] /\ line'[x][j] = t
          BY <2>0, <3>1, <4>2
        <5>2. line[k][i] \in Tasks
          BY <3>1, <4>2, <5>1
        <5> QED BY <2>4, <4>2, <5>1, <5>2
      <4>3. CASE x = k /\ j # Len(line[k]) + 1
        <5>1. i \in 1..Len(line[k]) /\ j \in 1..Len(line[k])
          BY <2>0, <3>1, <4>3
        <5> QED BY <1>0, <2>0, <3>1, <4>3, <5>1 DEF LineInv, LineInOrder
      <4> QED BY <4>1, <4>2, <4>3
    <3>2. ASSUME NEW x \in Keys, NEW u \in Tasks, NEW i \in 1..Len(handled), Lined(x, u)', key[handled[i]] = x
          PROVE  ticket[handled[i]] < ticket[u]
      <4>1. CASE Lined(x, u)
        BY <3>2, <4>1 DEF LineInv, LineInOrder
      <4>2. CASE x = k /\ u = t
        <5>1. phase[handled[i]] \in Ran
          BY DEF LineInv, OnTheWay
        <5> QED BY <1>1, <1>5, <3>2, <4>2, <5>1, RunnerIsLast
      <4> QED BY <2>2, <3>2, <4>1, <4>2
    <3>3. \A x \in Keys : \A u \in Tasks : \A i \in 1..Len(handled') :
            Lined(x, u)' /\ key'[handled'[i]] = x => ticket'[handled'[i]] < ticket'[u]
      BY <1>2, <3>2
    <3>4. \A x \in Keys : \A i, j \in 1..Len(line'[x]) :
            i < j /\ line'[x][i] \in Tasks /\ line'[x][j] \in Tasks => ticket'[line'[x][i]] < ticket'[line'[x][j]]
      BY <1>2, <3>1
    <3> QED BY <3>3, <3>4 DEF LineInOrder
  <2>6. AskedInOrder'
    BY <1>2 DEF LineInv, AskedInOrder
  <2> QED BY <2>1, <2>3, <2>5, <2>6 DEF LineInv
<1> QED BY <1>7, <1>8, <1>1 DEF Arrives, At, LineInv, LineTypeOK

\* Leaving a line: the others move up.
LEMMA LeavesFits ==
  ASSUME LineInv, NEW k \in Keys, line[k] # <<>>, line' = [line EXCEPT ![k] = Tail(@)],
         UNCHANGED <<phase, key, ticket>>
  PROVE  /\ line' \in [Keys -> Seq(Requests)]
         /\ Len(line[k]) \in Nat \ {0} /\ Head(line[k]) = line[k][1] /\ Head(line[k]) \in Requests
         /\ \A x \in Keys \ {k} : line'[x] = line[x]
         /\ Len(line'[k]) = Len(line[k]) - 1
         /\ \A i \in 1..Len(line'[k]) : line'[k][i] = line[k][i + 1]
         /\ \A x \in Keys, u \in Tasks : Lined(x, u)' => Lined(x, u)
         /\ \A u \in Tasks : Head(line[k]) \in Tasks /\ Lined(k, u)' => ticket[Head(line[k])] < ticket[u]
         /\ \A x \in Keys : \A i, j \in 1..Len(line'[x]) :
              i < j /\ line'[x][i] \in Tasks /\ line'[x][j] \in Tasks => ticket'[line'[x][i]] < ticket'[line'[x][j]]
<1>1. line \in [Keys -> Seq(Requests)] /\ line[k] \in Seq(Requests) /\ line[k] # <<>>
  BY DEF LineInv, LineTypeOK
<1>2. /\ Len(line[k]) \in Nat \ {0} /\ Head(line[k]) = line[k][1] /\ Head(line[k]) \in Requests
      /\ Tail(line[k]) \in Seq(Requests) /\ Len(Tail(line[k])) = Len(line[k]) - 1
      /\ \A i \in 1..Len(Tail(line[k])) : Tail(line[k])[i] = line[k][i + 1]
  BY <1>1
<1>3. line'[k] = Tail(line[k]) /\ \A x \in Keys \ {k} : line'[x] = line[x]
  BY <1>1
<1>4. /\ line' \in [Keys -> Seq(Requests)]
      /\ Len(line'[k]) = Len(line[k]) - 1
      /\ \A i \in 1..Len(line'[k]) : line'[k][i] = line[k][i + 1]
  BY <1>1, <1>2
<1>0. \A n \in Nat \ {0} : \A i, j \in 1..(n - 1) : i + 1 \in 1..n /\ 1 \in 1..n /\ 1 < i + 1 /\ (i < j => i + 1 < j + 1)
  OBVIOUS
<1>5. ASSUME NEW u \in Tasks, Lined(k, u)'
      PROVE  Lined(k, u) /\ (Head(line[k]) \in Tasks => ticket[Head(line[k])] < ticket[u])
  <2>1. PICK i \in 1..Len(line'[k]) : line'[k][i] = u
    BY <1>5 DEF Lined
  <2>2. i + 1 \in 1..Len(line[k]) /\ line[k][i + 1] = u /\ 1 \in 1..Len(line[k]) /\ 1 < i + 1
    BY <1>0, <1>2, <1>4, <2>1
  <2> QED BY <1>2, <2>2 DEF Lined, LineInv, LineInOrder
<1>6. \A x \in Keys, u \in Tasks : x # k => (Lined(x, u)' <=> Lined(x, u))
  BY <1>3 DEF Lined
<1>7. ASSUME NEW x \in Keys, NEW i \in 1..Len(line'[x]), NEW j \in 1..Len(line'[x]),
             i < j, line'[x][i] \in Tasks, line'[x][j] \in Tasks
      PROVE  ticket[line'[x][i]] < ticket[line'[x][j]]
  <2>1. CASE x # k
    BY <1>3, <1>7, <2>1 DEF LineInv, LineInOrder
  <2>2. CASE x = k
    <3>1. /\ i + 1 \in 1..Len(line[k]) /\ j + 1 \in 1..Len(line[k]) /\ i + 1 < j + 1
          /\ line'[k][i] = line[k][i + 1] /\ line'[k][j] = line[k][j + 1]
      BY <1>0, <1>2, <1>4, <1>7, <2>2
    <3> QED BY <1>7, <2>2, <3>1 DEF LineInv, LineInOrder
  <2> QED BY <2>1, <2>2
<1> QED BY <1>2, <1>3, <1>4, <1>5, <1>6, <1>7

LEMMA ServesAskFits ==
  ASSUME QueueTypeOK, LineInv, NEW k \in Keys, ServesAsk(k)
  PROVE  LineInv'
<1>1. PICK t \in Tasks :
  /\ t = Head(line[k]) /\ line[k] # <<>> /\ line' = [line EXCEPT ![k] = Tail(@)]
  /\ at' = [at EXCEPT ![t] = IF @ = "line" THEN "replied" ELSE @]
  /\ handled' = Append(handled, t)
  /\ context' = [context EXCEPT ![k] = @ \cup {t}] \/ UNCHANGED context
  /\ UNCHANGED <<queueVars, clearVars>>
  BY DEF ServesAsk
<1>2. UNCHANGED <<phase, key, ticket>>
  BY <1>1 DEF queueVars
<1>3. /\ line' \in [Keys -> Seq(Requests)]
      /\ Len(line[k]) \in Nat \ {0} /\ t = line[k][1]
      /\ \A x \in Keys, u \in Tasks : Lined(x, u)' => Lined(x, u)
      /\ \A u \in Tasks : Lined(k, u)' => ticket[t] < ticket[u]
      /\ \A x \in Keys : \A i, j \in 1..Len(line'[x]) :
              i < j /\ line'[x][i] \in Tasks /\ line'[x][j] \in Tasks => ticket'[line'[x][i]] < ticket'[line'[x][j]]
  BY <1>1, <1>2, LeavesFits
<1>4. Lined(k, t)
  <2>1. 1 \in 1..Len(line[k])
    BY <1>3
  <2> QED BY <1>3, <2>1 DEF Lined
<1>5. key[t] = k /\ phase[t] \in Ran /\ at[t] \in {"line", "aborted"}
  BY <1>4 DEF LineInv, OnTheWay
<1>6. /\ handled' \in Seq(Tasks) /\ handled \in Seq(Tasks)
      /\ Len(handled) \in Nat /\ Len(handled') = Len(handled) + 1 /\ handled'[Len(handled) + 1] = t
      /\ \A i \in 1..Len(handled) : handled'[i] = handled[i] /\ handled[i] \in Tasks
      /\ \A i \in 1..Len(handled') : i \in 1..Len(handled) \/ i = Len(handled) + 1
  <2>1. handled \in Seq(Tasks)
    BY DEF LineInv, LineTypeOK
  <2> QED BY <1>1, <2>1
<1>7. /\ at' \in [Tasks -> {"none", "sent", "line", "replied", "aborted"}]
      /\ at'[t] \in {"replied", "aborted"} /\ \A u \in Tasks \ {t} : at'[u] = at[u]
  BY <1>1, <1>5 DEF LineInv, LineTypeOK
<1>8. LineTypeOK'
  <2>1. context' \in [Keys -> SUBSET Tasks]
    <3>1. context \in [Keys -> SUBSET Tasks]
      BY DEF LineInv, LineTypeOK
    <3>2. CASE UNCHANGED context
      BY <3>1, <3>2
    <3>3. CASE context' = [context EXCEPT ![k] = @ \cup {t}]
      BY <3>1, <3>3
    <3> QED BY <1>1, <3>2, <3>3
  <2>2. UNCHANGED <<clearing, behind>>
    BY <1>1 DEF clearVars
  <2> QED BY <1>3, <1>6, <1>7, <2>1, <2>2 DEF LineInv, LineTypeOK
<1>9. \A u \in Tasks : Lined(k, u)' => u # t
  <2>1. ticket[t] \in Nat
    BY DEF QueueTypeOK
  <2> QED BY <1>3, <2>1
<1>10. \A x \in Keys, u \in Tasks : Lined(x, u)' => u # t
  BY <1>3, <1>5, <1>9 DEF LineInv, OnTheWay
<1>11. OnTheWay'
  <2>1. \A u \in Tasks : at'[u] \in {"sent", "line"} => phase'[u] = "running"
    BY <1>2, <1>7 DEF LineInv, OnTheWay
  <2>2. \A x \in Keys : \A u \in Tasks : Lined(x, u)' => key'[u] = x /\ at'[u] \in {"line", "aborted"} /\ phase'[u] \in Ran
    BY <1>2, <1>3, <1>7, <1>10 DEF LineInv, OnTheWay
  <2>3. \A i \in 1..Len(handled') : at'[handled'[i]] \in {"replied", "aborted"} /\ phase'[handled'[i]] \in Ran
    BY <1>2, <1>5, <1>6, <1>7 DEF LineInv, OnTheWay
  <2> QED BY <2>1, <2>2, <2>3 DEF OnTheWay
<1>12. \A i \in 1..Len(handled) : key[handled[i]] = k => ticket[handled[i]] < ticket[t]
  BY <1>4 DEF LineInv, LineInOrder
<1>13. LineInOrder'
  <2>1. ASSUME NEW x \in Keys, NEW u \in Tasks, NEW i \in 1..Len(handled'), Lined(x, u)', key[handled'[i]] = x
        PROVE  ticket[handled'[i]] < ticket[u]
    <3>1. CASE i \in 1..Len(handled)
      BY <1>3, <1>6, <2>1, <3>1 DEF LineInv, LineInOrder
    <3>2. CASE i = Len(handled) + 1
      BY <1>3, <1>5, <1>6, <2>1, <3>2
    <3> QED BY <1>6, <3>1, <3>2
  <2>2. \A x \in Keys : \A u \in Tasks : \A i \in 1..Len(handled') :
          Lined(x, u)' /\ key'[handled'[i]] = x => ticket'[handled'[i]] < ticket'[u]
    BY <1>2, <2>1
  <2> QED BY <1>3, <2>2 DEF LineInOrder
<1>14. AskedInOrder'
  <2>0. DOMAIN handled' = 1..Len(handled') /\ DOMAIN handled = 1..Len(handled)
    BY <1>6
  <2>1. ASSUME NEW i \in 1..Len(handled'), NEW j \in 1..Len(handled'), i < j, key[handled'[i]] = key[handled'[j]]
        PROVE  ticket[handled'[i]] < ticket[handled'[j]]
    <3>1. CASE j \in 1..Len(handled)
      <4>1. i \in 1..Len(handled)
        BY <1>6, <2>1, <3>1
      <4> QED BY <1>6, <2>0, <2>1, <3>1, <4>1 DEF LineInv, AskedInOrder
    <3>2. CASE j = Len(handled) + 1
      <4>1. i \in 1..Len(handled)
        BY <1>6, <2>1, <3>2
      <4> QED BY <1>5, <1>6, <1>12, <2>1, <3>2, <4>1
    <3> QED BY <1>6, <3>1, <3>2
  <2> QED BY <1>2, <2>0, <2>1 DEF AskedInOrder
<1> QED BY <1>8, <1>11, <1>13, <1>14 DEF LineInv

LEMMA ServesClearFits ==
  ASSUME LineInv, NEW k \in Keys, ServesClear(k)
  PROVE  LineInv'
<1>1. /\ line[k] # <<>> /\ line' = [line EXCEPT ![k] = Tail(@)]
      /\ UNCHANGED <<queueVars, at, handled, behind>>
      /\ context' \in {context, [context EXCEPT ![k] = {}]}
      /\ \E c \in Clears : ClearGoes(c, "line", "ok") \/ ClearGoes(c, "line", "refused")
  BY DEF ServesClear
<1>2. UNCHANGED <<phase, key, ticket, at, handled, behind>>
  BY <1>1 DEF queueVars
<1>3. /\ line' \in [Keys -> Seq(Requests)]
      /\ \A x \in Keys, u \in Tasks : Lined(x, u)' => Lined(x, u)
      /\ \A x \in Keys : \A i, j \in 1..Len(line'[x]) :
              i < j /\ line'[x][i] \in Tasks /\ line'[x][j] \in Tasks => ticket'[line'[x][i]] < ticket'[line'[x][j]]
  BY <1>1, <1>2, LeavesFits
<1>4. LineTypeOK'
  BY <1>1, <1>2, <1>3 DEF LineInv, LineTypeOK, ClearGoes
<1>5. OnTheWay'
  BY <1>2, <1>3 DEF LineInv, OnTheWay
<1>6. LineInOrder' /\ AskedInOrder'
  BY <1>2, <1>3 DEF LineInv, LineInOrder, AskedInOrder
<1> QED BY <1>4, <1>5, <1>6 DEF LineInv

LEMMA ClearArrivesFits ==
  ASSUME LineInv, ClearsAssumption, NEW c \in Clears, NEW k \in Keys, k = ScopeOf[c], ClearArrives(c)
  PROVE  LineInv'
<1>1. /\ UNCHANGED <<queueVars, at, context, handled, behind>>
      /\ ClearGoes(c, "sent", "line") \/ ClearGoes(c, "sent", "refused")
      /\ line' = Joins(k, c) \/ UNCHANGED line
  BY DEF ClearArrives
<1>2. UNCHANGED <<phase, key, ticket, at, context, handled, behind>>
  BY <1>1 DEF queueVars
<1>3. c \in Requests /\ c \notin Tasks
  BY DEF Requests, ClearsAssumption
<1>4. /\ line' \in [Keys -> Seq(Requests)]
      /\ \A x \in Keys, u \in Tasks : Lined(x, u)' => Lined(x, u)
      /\ \A x \in Keys : \A i, j \in 1..Len(line'[x]) :
              i < j /\ line'[x][i] \in Tasks /\ line'[x][j] \in Tasks => ticket[line'[x][i]] < ticket[line'[x][j]]
  <2>1. CASE UNCHANGED line
    BY <2>1 DEF LineInv, LineTypeOK, LineInOrder, Lined
  <2>2. CASE line' = Joins(k, c)
    <3>1. /\ line' \in [Keys -> Seq(Requests)]
          /\ \A x \in Keys \ {k} : line'[x] = line[x]
          /\ Len(line'[k]) = Len(line[k]) + 1 /\ Len(line[k]) \in Nat /\ line'[k][Len(line[k]) + 1] = c
          /\ \A i \in 1..Len(line[k]) : line'[k][i] = line[k][i]
      BY <1>3, <2>2, JoinsFits DEF LineInv, LineTypeOK
    <3>2. ASSUME NEW x \in Keys, NEW i \in 1..Len(line'[x]), line'[x][i] \in Tasks
          PROVE  i \in 1..Len(line[x]) /\ line'[x][i] = line[x][i]
      BY <1>3, <3>1, <3>2
    <3>3. ASSUME NEW x \in Keys, NEW u \in Tasks, Lined(x, u)' PROVE Lined(x, u)
      <4>1. PICK i \in 1..Len(line'[x]) : line'[x][i] = u
        BY <3>3 DEF Lined
      <4> QED BY <3>2, <4>1 DEF Lined
    <3>4. ASSUME NEW x \in Keys, NEW i \in 1..Len(line'[x]), NEW j \in 1..Len(line'[x]),
                 i < j, line'[x][i] \in Tasks, line'[x][j] \in Tasks
          PROVE  ticket[line'[x][i]] < ticket[line'[x][j]]
      <4>1. /\ i \in 1..Len(line[x]) /\ line'[x][i] = line[x][i]
            /\ j \in 1..Len(line[x]) /\ line'[x][j] = line[x][j]
        BY <3>2, <3>4
      <4> QED BY <3>4, <4>1 DEF LineInv, LineInOrder
    <3> QED BY <3>1, <3>3, <3>4
  <2> QED BY <1>1, <2>1, <2>2
<1>5. LineTypeOK'
  BY <1>1, <1>2, <1>4 DEF LineInv, LineTypeOK, ClearGoes
<1>6. OnTheWay'
  BY <1>2, <1>4 DEF LineInv, OnTheWay
<1>7. LineInOrder' /\ AskedInOrder'
  BY <1>2, <1>4 DEF LineInv, LineInOrder, AskedInOrder
<1> QED BY <1>5, <1>6, <1>7 DEF LineInv

\* A task that is answered, or a /clear that is given or confirmed: the queue moves and
\* the line does not.
LEMMA AnswerFits ==
  ASSUME QueueInv, LineInv, NEW t \in Tasks, NEW failed \in BOOLEAN,
         End(t, failed), at[t] \notin {"sent", "line"}, UNCHANGED <<guardianVars, clearVars>>
  PROVE  LineInv'
<1>1. [QueueNext]_queueVars
  BY DEF QueueNext
<1>2. \A u \in Tasks : phase[u] = "running" /\ at[u] \in {"sent", "line"} => phase'[u] = "running"
  <2>1. PICK k \in Keys : k = key[t]
    BY DEF QueueInv, QueueTypeOK
  <2> QED BY RunnersStay
<1> QED BY <1>1, <1>2, LineUntouched DEF guardianVars, clearVars, LineInv, LineTypeOK

LEMMA EnqueuedFits ==
  ASSUME QueueInv, LineInv, NEW t \in Tasks, Queue(t) \/ Start(t), UNCHANGED <<guardianVars, clearVars>>
  PROVE  LineInv'
<1>1. [QueueNext]_queueVars
  BY DEF QueueNext
<1>2. \A u \in Tasks : phase[u] = "running" /\ at[u] \in {"sent", "line"} => phase'[u] = "running"
  BY DEF QueueInv, QueueTypeOK, Queue, Start, Comes
<1> QED BY <1>1, <1>2, LineUntouched DEF guardianVars, clearVars, LineInv, LineTypeOK

LEMMA ClearsQueueFits ==
  ASSUME QueueInv, LineInv, ClearsAssumption, NEW c \in Clears, ClearAnswered(c)
  PROVE  LineInv' /\ [QueueNext]_queueVars
<1>1. PICK k \in Keys : k = ScopeOf[c]
  BY DEF ClearsAssumption
<1>2. clear(k) \/ UNCHANGED queueVars
  BY <1>1 DEF ClearAnswered, ClearsQueue
<1>3. [QueueNext]_queueVars
  BY <1>2 DEF QueueNext
<1>4. \A u \in Tasks : phase[u] = "running" /\ at[u] \in {"sent", "line"} => phase'[u] = "running"
  <2>1. CASE UNCHANGED queueVars
    BY <2>1 DEF queueVars
  <2>2. CASE clear(k)
    <3>1. Waiting(k) = WaitsIn(states, k) /\ WaitsIn(states, k) \in Seq(Tasks)
      BY WaitingType DEF Waiting, WaitsIn, QueueInv
    <3>2. \A i \in DOMAIN Waiting(k) : phase[Waiting(k)[i]] = "queued"
      BY <3>1 DEF QueueInv, QueuesInv, Queued
    <3> QED BY <2>2, <3>2 DEF clear
  <2> QED BY <1>2, <2>1, <2>2
<1>5. /\ UNCHANGED guardianVars /\ behind' = behind
      /\ clearing' \in [Clears -> {"new", "sent", "line", "ok", "refused", "done"}]
  BY DEF ClearAnswered, ClearGoes, LineInv, LineTypeOK
<1> QED BY <1>3, <1>4, <1>5, LineUntouched DEF guardianVars, LineInv, LineTypeOK

LEMMA ClearGivenFits ==
  ASSUME QueueInv, LineInv, NEW c \in Clears, ClearCommand(c)
  PROVE  LineInv'
<1>1. UNCHANGED queueVars /\ UNCHANGED guardianVars /\ ClearGoes(c, "new", "sent")
      /\ behind' = [behind EXCEPT ![c] = {t \in Tasks : phase[t] = "queued" /\ key[t] = ScopeOf[c]}]
  BY DEF ClearCommand
<1>2. /\ clearing' \in [Clears -> {"new", "sent", "line", "ok", "refused", "done"}]
      /\ behind' \in [Clears -> SUBSET Tasks]
  BY <1>1 DEF ClearGoes, LineInv, LineTypeOK
<1>3. \A u \in Tasks : phase[u] = "running" /\ at[u] \in {"sent", "line"} => phase'[u] = "running"
  BY <1>1 DEF queueVars
<1> QED BY <1>1, <1>2, <1>3, LineUntouched DEF guardianVars, LineInv, LineTypeOK

\* What a channel does with its tasks, the guardian and the /clears keeps both invariants.
LEMMA QueueStep ==
  ASSUME QueueInv, [QueueNext]_queueVars PROVE QueueInv'
<1>1. ASSUME NEW t \in Tasks, Queue(t) PROVE QueueInv'
  BY <1>1, QueueKeeps
<1>2. ASSUME NEW t \in Tasks, Start(t) PROVE QueueInv'
  BY <1>2, StartKeeps
<1>3. ASSUME NEW t \in Tasks, NEW failed \in BOOLEAN, End(t, failed) PROVE QueueInv'
  BY <1>3, EndKeeps
<1>4. ASSUME NEW k \in Keys, clear(k) PROVE QueueInv'
  BY <1>4, ClearKeeps
<1>5. CASE UNCHANGED queueVars
  BY <1>5 DEF queueVars, QueueInv, QueueTypeOK, QueuesInv, BusyInv, TurnInv
<1> QED BY <1>1, <1>2, <1>3, <1>4, <1>5 DEF QueueNext

LEMMA ProceedsFits ==
  ASSUME QueueInv, LineInv, NEW t \in Tasks, Proceeds(t) \/ Aborts(t)
  PROVE  QueueInv' /\ LineInv'
<1>1. CASE Send(t) \/ Aborts(t)
  <2>1. UNCHANGED queueVars
    BY <1>1 DEF Send, Aborts
  <2> QED BY <1>1, <2>1, SendFits, QueueStep
<1>2. CASE Arrives(t)
  <2>1. UNCHANGED queueVars
    BY <1>2 DEF Arrives
  <2>2. PICK k \in Keys : k = key[t]
    BY DEF QueueInv, QueueTypeOK
  <2> QED BY <1>2, <2>1, <2>2, ArrivesFits, QueueStep
<1>3. ASSUME NEW failed \in BOOLEAN, Answer(t, failed) PROVE QueueInv' /\ LineInv'
  <2>1. End(t, failed) /\ at[t] \notin {"sent", "line"} /\ UNCHANGED <<guardianVars, clearVars>>
    BY <1>3 DEF Answer, Settled
  <2> QED BY <2>1, AnswerFits, EndKeeps
<1> QED BY <1>1, <1>2, <1>3 DEF Proceeds

LEMMA ServesFits ==
  ASSUME QueueInv, LineInv, NEW k \in Keys, Serves(k)
  PROVE  QueueInv' /\ LineInv'
<1>1. UNCHANGED queueVars
  BY DEF Serves, ServesAsk, ServesClear
<1>2. LineInv'
  BY ServesAskFits, ServesClearFits DEF Serves, QueueInv
<1> QED BY <1>1, <1>2, QueueStep

LEMMA ClearsFit ==
  ASSUME QueueInv, LineInv, ClearsAssumption, NEW c \in Clears, ClearCommand(c) \/ ClearArrives(c) \/ ClearAnswered(c)
  PROVE  QueueInv' /\ LineInv'
<1>1. CASE ClearCommand(c)
  BY <1>1, ClearGivenFits, QueueStep DEF ClearCommand
<1>2. CASE ClearArrives(c)
  <2>1. PICK k \in Keys : k = ScopeOf[c]
    BY DEF ClearsAssumption
  <2>2. UNCHANGED queueVars
    BY <1>2 DEF ClearArrives
  <2> QED BY <1>2, <2>1, <2>2, ClearArrivesFits, QueueStep
<1>3. CASE ClearAnswered(c)
  BY <1>3, ClearsQueueFits, QueueStep
<1> QED BY <1>1, <1>2, <1>3

LEMMA LineInitially ==
  ASSUME QueueInit, LineInit PROVE QueueInv /\ LineInv
<1>1. QueueInv
  BY InitInv
<1>2. LineTypeOK
  BY DEF LineInit, LineTypeOK
<1>3. Len(handled) = 0 /\ DOMAIN handled = {} /\ \A k \in Keys : Len(line[k]) = 0
  BY DEF LineInit
<1>4. OnTheWay /\ LineInOrder /\ AskedInOrder
  BY <1>3 DEF LineInit, OnTheWay, LineInOrder, AskedInOrder, Lined
<1> QED BY <1>1, <1>2, <1>4 DEF LineInv

\* A confirmed /clear leaves the running task of its conversation and nobody behind it.
LEMMA ClearingLeavesOne ==
  ASSUME QueueInv, NEW c \in Clears, NEW k \in Keys, k = ScopeOf[c], ClearsQueue(k)
  PROVE  /\ IsFiniteSet({t \in Tasks : key[t] = k /\ phase'[t] \in {"queued", "running"}})
         /\ Cardinality({t \in Tasks : key[t] = k /\ phase'[t] \in {"queued", "running"}}) <= 1
<1> DEFINE Left == {t \in Tasks : key[t] = k /\ phase'[t] \in {"queued", "running"}}
<1>1. \A t \in Tasks : phase[t] = "queued" /\ key[t] = k => k \in DOMAIN states
  BY DEF QueueInv, QueuesInv, Found, WaitsIn
<1>2. \A t \in Left : phase[t] = "running"
  <2>1. CASE clear(k)
    <3>1. Waiting(k) = WaitsIn(states, k) /\ WaitsIn(states, k) \in Seq(Tasks)
      BY WaitingType DEF Waiting, WaitsIn, QueueInv
    <3>2. \A t \in Tasks : phase[t] = "queued" /\ key[t] = k => \E i \in DOMAIN Waiting(k) : Waiting(k)[i] = t
      BY <3>1 DEF QueueInv, QueuesInv, Found
    <3> QED BY <2>1, <3>2 DEF clear
  <2>2. CASE k \notin DOMAIN states /\ UNCHANGED queueVars
    BY <1>1, <2>2 DEF queueVars
  <2> QED BY <2>1, <2>2 DEF ClearsQueue
<1>3. \A t, u \in Left : t = u
  BY <1>2 DEF QueueInv, BusyInv
<1>4. CASE Left = {}
  BY <1>4, FS_EmptySet
<1>5. ASSUME NEW t \in Left PROVE IsFiniteSet(Left) /\ Cardinality(Left) <= 1
  <2>1. Left = {t}
    BY <1>3
  <2>2. IsFiniteSet({t}) /\ Cardinality({t}) = 1
    BY FS_Singleton
  <2> HIDE DEF Left
  <2> QED BY <2>1, <2>2
<1> HIDE DEF Left
<1>6. IsFiniteSet(Left) /\ Cardinality(Left) <= 1
  BY <1>4, <1>5, FS_EmptySet
<1> QED BY <1>6 DEF Left
===========================================================================
