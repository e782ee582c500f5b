----------------------------- MODULE Rocket_proofs -----------------------------
(***************************************************************************)
(* Proofs about Rocket, for any connections, workers, queue size and       *)
(* number of requests: types, that a connection has one owner, who may     *)
(* forget it, what stop leaves, and where it stays.                        *)
(***************************************************************************)
EXTENDS Rocket, FiniteSetTheorems, SequenceTheorems, TLAPS

(***************************************************************************)
(* Sequences as queues.                                                    *)
(***************************************************************************)

(* The elements of a queue after put and after get *)
LEMMA Put ==
    ASSUME NEW S, NEW q \in Seq(S), NEW c \in S
    PROVE  ToSet(Append(q, c)) = ToSet(q) \cup {c}
<1>1. /\ Append(q, c) \in Seq(S)
      /\ Len(Append(q, c)) = Len(q) + 1
      /\ \A i \in 1..Len(q) : Append(q, c)[i] = q[i]
      /\ Append(q, c)[Len(q) + 1] = c
  BY AppendProperties
<1>2. /\ DOMAIN q = 1..Len(q) /\ Len(q) \in Nat
      /\ DOMAIN Append(q, c) = 1..(Len(q) + 1)
  BY <1>1
<1> QED
  BY <1>1, <1>2 DEF ToSet

LEMMA Get ==
    ASSUME NEW S, NEW q \in Seq(S), q # <<>>
    PROVE  /\ Head(q) \in S /\ Tail(q) \in Seq(S)
           /\ Head(q) \in ToSet(q)
           /\ ToSet(Tail(q)) \subseteq ToSet(q)
<1>1. /\ Head(q) \in S /\ Tail(q) \in Seq(S)
      /\ Head(q) = q[1]
      /\ Len(Tail(q)) = Len(q) - 1
      /\ \A i \in 1..Len(Tail(q)) : Tail(q)[i] = q[i + 1]
  BY HeadTailProperties
<1>2. /\ DOMAIN q = 1..Len(q) /\ Len(q) \in Nat /\ Len(q) # 0
      /\ DOMAIN Tail(q) = 1..(Len(q) - 1)
  BY <1>1
<1> QED
  BY <1>1, <1>2 DEF ToSet

(* A connection that is not in a queue can be put there and is in it once. *)
LEMMA PutOnce ==
    ASSUME NEW S, NEW q \in Seq(S), NEW c \in S, Once(q), c \notin ToSet(q) \/ c = Nothing
    PROVE  Once(Append(q, c))
<1>1. /\ DOMAIN q = 1..Len(q) /\ Len(q) \in Nat
      /\ DOMAIN Append(q, c) = 1..(Len(q) + 1)
      /\ \A i \in 1..Len(q) : Append(q, c)[i] = q[i]
      /\ Append(q, c)[Len(q) + 1] = c
  BY AppendProperties
<1> QED
  BY <1>1 DEF Once, ToSet

(* What is taken from a queue is not in it any more. *)
LEMMA GetOnce ==
    ASSUME NEW S, NEW q \in Seq(S), q # <<>>, Once(q)
    PROVE  /\ Once(Tail(q))
           /\ Head(q) # Nothing => Head(q) \notin ToSet(Tail(q))
<1>1. /\ Head(q) = q[1]
      /\ Len(Tail(q)) = Len(q) - 1
      /\ Tail(q) \in Seq(S)
      /\ \A i \in 1..Len(Tail(q)) : Tail(q)[i] = q[i + 1]
  BY HeadTailProperties
<1>2. /\ DOMAIN q = 1..Len(q) /\ Len(q) \in Nat /\ Len(q) # 0
      /\ DOMAIN Tail(q) = 1..(Len(q) - 1)
  BY <1>1
<1> QED
  BY <1>1, <1>2 DEF Once, ToSet

LEMMA NoneElements == ToSet(<<>>) = {} /\ Once(<<>>)
  BY DEF ToSet, Once

(* The Nones of ThreadPool.stop behind a queue add no connection to it. *)
LEMMA NonesAdded ==
    ASSUME NEW q \in Seq(Conn \cup {Nothing})
    PROVE  /\ q \o Nones \in Seq(Conn \cup {Nothing})
           /\ ToSet(q \o Nones) \ {Nothing} \subseteq ToSet(q)
           /\ ToSet(q) \subseteq ToSet(q \o Nones)
           /\ Once(q) => Once(q \o Nones)
<1>1. Cardinality(Worker) \in Nat
  BY FiniteAssumption, FS_CardinalityType
<1>2. /\ Nones \in Seq(Conn \cup {Nothing}) /\ Len(Nones) = Cardinality(Worker)
      /\ \A i \in 1..Len(Nones) : Nones[i] = Nothing
  BY <1>1 DEF Nones
<1>3. /\ q \o Nones \in Seq(Conn \cup {Nothing})
      /\ Len(q \o Nones) = Len(q) + Len(Nones)
      /\ \A i \in 1..(Len(q) + Len(Nones)) :
            (q \o Nones)[i] = IF i <= Len(q) THEN q[i] ELSE Nones[i - Len(q)]
  BY <1>2, ConcatProperties
<1>4. /\ DOMAIN q = 1..Len(q) /\ Len(q) \in Nat /\ Len(Nones) \in Nat
      /\ DOMAIN (q \o Nones) = 1..(Len(q) + Len(Nones))
  BY <1>2, <1>3
<1>5. \A i \in DOMAIN (q \o Nones) :
          (q \o Nones)[i] = Nothing \/ (i \in DOMAIN q /\ (q \o Nones)[i] = q[i])
  BY <1>2, <1>3, <1>4
<1>6. \A i \in DOMAIN q : i \in DOMAIN (q \o Nones) /\ (q \o Nones)[i] = q[i]
  BY <1>3, <1>4
<1> QED
  BY <1>3, <1>5, <1>6 DEF ToSet, Once

(***************************************************************************)
(* Types.                                                                  *)
(***************************************************************************)

LEMMA InitType == Init => TypeOK
<1> SUFFICES ASSUME Init PROVE TypeOK
  OBVIOUS
<1>1. sent \in [Conn -> Nat] /\ \A c \in Conn : sent[c] <= MaxRequests[c]
  BY MaxRequestsAssumption DEF Init
<1>2. /\ backlog \in Seq(Conn) /\ Len(backlog) <= QueueSize
      /\ activeQueue \in Seq(Conn \cup {Nothing})
      /\ monitorQueue \in Seq(Conn \cup {Nothing})
      /\ readable \in Seq(Conn)
  BY QueueSizeAssumption DEF Init
<1> QED
  BY <1>1, <1>2 DEF Init, TypeOK, Hellos, MonitorStages, StopStages

LEMMA ClientType == ASSUME TypeOK, NEW c \in Conn, Client(c) PROVE TypeOK'
<1> USE MaxRequestsAssumption, QueueSizeAssumption DEF TypeOK, listenerVars, workerVars, monitorVars
<1>1. CASE Connect(c)
  <2>1. backlog' \in Seq(Conn) /\ Len(backlog') <= QueueSize
    BY <1>1, AppendProperties DEF Connect
  <2> QED
    BY <1>1, <2>1 DEF Connect, Hellos
<1>2. CASE Speak(c)
  BY <1>2 DEF Speak, Hellos
<1>3. CASE Send(c)
  BY <1>3 DEF Send
<1>4. CASE SendRest(c)
  BY <1>4 DEF SendRest
<1>5. CASE Leave(c)
  BY <1>5 DEF Leave
<1> QED
  BY <1>1, <1>2, <1>3, <1>4, <1>5 DEF Client

LEMMA ListenerType == ASSUME TypeOK, Listener PROVE TypeOK'
<1> USE QueueSizeAssumption DEF TypeOK, clientVars, workerVars, monitorVars
<1>1. CASE Accept
  <2>1. backlog # <<>>
    BY <1>1 DEF Accept
  <2>2. /\ Head(backlog) \in Conn /\ Tail(backlog) \in Seq(Conn)
        /\ Len(Tail(backlog)) = Len(backlog) - 1
    BY <2>1, HeadTailProperties
  <2>3. Len(backlog) \in Nat
    OBVIOUS
  <2> QED
    BY <1>1, <2>2, <2>3 DEF Accept
<1>2. CASE Handshake
  <2>1. activeQueue' \in Seq(Conn \cup {Nothing})
    BY <1>2, AppendProperties DEF Handshake
  <2> QED
    BY <1>2, <2>1 DEF Handshake
<1>3. CASE HandshakeFails
  BY <1>3 DEF HandshakeFails
<1>4. CASE ListenerExits
  BY <1>4 DEF ListenerExits
<1> QED
  BY <1>1, <1>2, <1>3, <1>4 DEF Listener

LEMMA WorkerType == ASSUME TypeOK, NEW w \in Worker, WorkerStep(w) PROVE TypeOK'
<1> USE DEF TypeOK, clientVars, listenerVars, workerVars, monitorVars, BackToQueue, Read
<1>1. CASE Take(w)
  <2>1. activeQueue # <<>>
    BY <1>1 DEF Take
  <2>2. Head(activeQueue) \in Conn \cup {Nothing} /\ Tail(activeQueue) \in Seq(Conn \cup {Nothing})
    BY <2>1, HeadTailProperties
  <2> QED
    BY <1>1, <2>2 DEF Take
<1>2. ASSUME NEW c \in Conn, Answer(w, c) PROVE TypeOK'
  BY <1>2 DEF Answer
<1>3. ASSUME NEW c \in Conn, AnswerBad(w, c) PROVE TypeOK'
  BY <1>3 DEF AnswerBad
<1>4. ASSUME NEW c \in Conn, GiveUp(w, c) PROVE TypeOK'
  BY <1>4 DEF GiveUp
<1>5. ASSUME NEW c \in Conn, Yield(w, c) PROVE TypeOK'
  <2>1. monitorQueue' \in Seq(Conn \cup {Nothing})
    BY <1>5, AppendProperties DEF Yield
  <2> QED
    BY <1>5, <2>1 DEF Yield
<1> QED
  BY <1>1, <1>2, <1>3, <1>4, <1>5 DEF WorkerStep

(* What select returns are connections of the pool, each of them once. *)
LEMMA Selected ==
    ASSUME TypeOK, NEW S \in SUBSET Conn, NEW q \in SetToSeqs(S)
    PROVE  /\ q \in Seq(Conn) /\ ToSet(q) \subseteq S
           /\ Once(q) /\ Nothing \notin ToSet(q)
<1>1. Cardinality(S) \in Nat
  BY FiniteAssumption, FS_Subset, FS_CardinalityType
<1>2. /\ q \in [1..Cardinality(S) -> S]
      /\ \A i, j \in 1..Cardinality(S) : i # j => q[i] # q[j]
  BY DEF SetToSeqs
<1>3. q \in Seq(Conn)
  BY <1>1, <1>2
<1> QED
  BY <1>2, <1>3, NothingAssumption DEF ToSet, Once

LEMMA MonitorType == ASSUME TypeOK, Monitor PROVE TypeOK'
<1> USE DEF TypeOK, clientVars, listenerVars, workerVars, MonitorStages
<1>1. CASE Begin
  BY <1>1 DEF Begin
<1>2. CASE Drain \/ Collecting \/ SelectRaises
  BY <1>2 DEF Drain, Collecting, SelectRaises
<1>3. CASE Top
  BY <1>3 DEF Top
<1>4. CASE Collect
  <2>1. monitorQueue # <<>> /\ Head(monitorQueue) # Nothing
    BY <1>4 DEF Collect
  <2>2. Head(monitorQueue) \in Conn /\ Tail(monitorQueue) \in Seq(Conn \cup {Nothing})
    BY <2>1, HeadTailProperties
  <2> QED
    BY <1>4, <2>2 DEF Collect
<1>5. CASE CollectNone
  <2>1. ToSet(monitorQueue) \ {Nothing} \subseteq Conn
    BY DEF ToSet
  <2>2. <<Nothing>> \in Seq(Conn \cup {Nothing})
    OBVIOUS
  <2> QED
    BY <1>5, <2>1, <2>2 DEF CollectNone
<1>6. CASE DrainGet
  BY <1>6, HeadTailProperties DEF DrainGet
<1>7. CASE Select
  <2>1. readable' \in Seq(Conn)
    BY <1>7, Selected DEF Select
  <2> QED
    BY <1>7, <2>1 DEF Select
<1>8. CASE Restore
  <2>1. CASE readable = <<>>
    BY <1>8, <2>1 DEF Restore
  <2>2. CASE readable # <<>>
    <3>1. Head(readable) \in Conn
      BY <2>2, HeadTailProperties
    <3>2. Append(activeQueue, Head(readable)) \in Seq(Conn \cup {Nothing})
      BY <3>1, AppendProperties
    <3> QED
      BY <1>8, <2>2, <3>2 DEF Restore
  <2> QED
    BY <2>1, <2>2
<1>9. CASE RemoveRestored
  <2>1. CASE readable = <<>>
    BY <1>9, <2>1 DEF RemoveRestored
  <2>2. CASE readable # <<>>
    BY <1>9, <2>2, HeadTailProperties DEF RemoveRestored
  <2> QED
    BY <2>1, <2>2
<1>10. CASE KillStale
  BY <1>10 DEF KillStale
<1> QED
  BY <1>1, <1>2, <1>3, <1>4, <1>5, <1>6, <1>7, <1>8, <1>9, <1>10 DEF Monitor

LEMMA StopType == ASSUME TypeOK, Stop \/ StopStep PROVE TypeOK'
<1> USE DEF TypeOK, clientVars, listenerVars, workerVars, monitorVars, Goto, StopStages
<1>1. CASE Stop
  BY <1>1 DEF Stop
<1>2. CASE JoinListener \/ StopMonitor \/ JoinWorkers
  BY <1>2 DEF JoinListener, StopMonitor, JoinWorkers
<1>3. CASE FlushConnections \/ PopConnection \/ PopFails \/ StopAgain \/ FlushQueue
  BY <1>3 DEF FlushConnections, PopConnection, PopFails, StopAgain, FlushQueue
<1>4. CASE GetQueued
  <2>1. monitorQueue # <<>>
    BY <1>4 DEF GetQueued
  <2>2. /\ Head(monitorQueue) \in Conn \cup {Nothing}
        /\ Tail(monitorQueue) \in Seq(Conn \cup {Nothing})
    BY <2>1, HeadTailProperties
  <2> QED
    BY <1>4, <2>2 DEF GetQueued
<1>5. CASE JoinMonitor
  BY <1>5, NonesAdded DEF JoinMonitor
<1>6. CASE PutNone
  BY <1>6, AppendProperties DEF PutNone
<1> QED
  BY <1>1, <1>2, <1>3, <1>4, <1>5, <1>6 DEF StopStep

LEMMA NextType == TypeOK /\ [Next]_vars => TypeOK'
<1> SUFFICES ASSUME TypeOK, [Next]_vars PROVE TypeOK'
  OBVIOUS
<1>1. CASE UNCHANGED vars
  BY <1>1 DEF vars, TypeOK, clientVars, listenerVars, workerVars, monitorVars
<1> QED
  BY <1>1, ClientType, ListenerType, WorkerType, MonitorType, StopType DEF Next

(* TypeCorrect: clients, threads and queues keep to their sets of values   *)
(* in every behaviour.                                                     *)
THEOREM TypeCorrect == Spec => []TypeOK
<1> QED
  BY InitType, NextType, PTL DEF Spec

(***************************************************************************)
(* One owner.                                                              *)
(***************************************************************************)

(* What select has returned and the monitor has not yet put back: it may   *)
(* do so even when stop has emptied its set of connections meanwhile.      *)
Pending == ToSet(IF monitor = "remove" THEN Tail(readable) ELSE readable)

Where == {"backlog", "handshake", "active", "worker", "queued", "watched"}

Held ==
    [backlog   |-> ToSet(backlog),
     handshake |-> {shaking} \ {Nothing},
     active    |-> ToSet(activeQueue) \ {Nothing},
     worker    |-> Served,
     queued    |-> ToSet(monitorQueue) \ {Nothing},
     watched   |-> Watched \cup Pending]

(* Nobody holds what another one does, nor a connection not made yet. *)
Apart ==
    /\ \A i, j \in Where : i # j => Held[i] \cap Held[j] = {}
    /\ \A i \in Where : \A c \in Held[i] : c \in Conn /\ hello[c] # "none"

Queued ==
    /\ Once(backlog) /\ Once(activeQueue) /\ Once(monitorQueue) /\ Once(readable)
    /\ \A v, w \in Worker :
          job[v] = "serving" /\ job[w] = "serving" /\ conn[v] = conn[w] => v = w
    /\ monitor \notin {"restore", "remove"} => readable = <<>>
    /\ monitor = "remove" => readable # <<>>

(* The inductive invariant *)
OwnerInv == Apart /\ Queued

LEMMA OwnerInvSuffices == OwnerInv => OneOwner
<1> SUFFICES ASSUME OwnerInv PROVE OneOwner
  OBVIOUS
<1>1. /\ DOMAIN Places = Where
      /\ \A i \in Where : Places[i] \subseteq Held[i]
  BY DEF Places, Where, Held
<1>2. \A i, j \in Where : i # j => Held[i] \cap Held[j] = {}
  BY DEF OwnerInv, Apart
<1>3. \A i, j \in Where : i # j => Places[i] \cap Places[j] = {}
  BY <1>1, <1>2
<1> QED
  BY <1>1, <1>3 DEF OneOwner, OwnerInv, Queued

LEMMA InitOwns == Init => OwnerInv
<1> SUFFICES ASSUME Init PROVE OwnerInv
  OBVIOUS
<1>1. \A i \in Where : Held[i] = {}
  BY NoneElements DEF Init, Held, Where, Served, Watched, Pending
<1>2. Queued
  BY NoneElements DEF Init, Queued
<1> QED
  BY <1>1, <1>2 DEF OwnerInv, Apart

(* A connection that goes from one hand to another stays in one. *)
LEMMA Moved ==
    ASSUME Apart, NEW k \in Where, NEW c \in Conn, hello'[c] # "none",
           \A d \in Conn : hello[d] # "none" => hello'[d] # "none",
           \A i \in Where : Held'[i] \subseteq (IF i = k THEN Held[i] \cup {c}
                                                        ELSE Held[i] \ {c})
    PROVE  Apart'
  BY DEF Apart

LEMMA Kept ==
    ASSUME Apart,
           \A d \in Conn : hello[d] # "none" => hello'[d] # "none",
           \A i \in Where : Held'[i] \subseteq Held[i]
    PROVE  Apart'
  BY DEF Apart

(* A connection that is in one place is in no other. *)
LEMMA Alone ==
    ASSUME Apart, NEW k \in Where, NEW c \in Held[k]
    PROVE  /\ c \in Conn /\ hello[c] # "none"
           /\ \A i \in Where \ {k} : Held[i] = Held[i] \ {c}
  BY DEF Apart

LEMMA ServedKept == UNCHANGED workerVars => Served' = Served
  BY DEF Served, workerVars

LEMMA WatchedKept == UNCHANGED monitorVars => Watched' = Watched /\ Pending' = Pending
  BY DEF Watched, Pending, monitorVars

LEMMA ClientOwns == ASSUME TypeOK, OwnerInv, NEW c \in Conn, Client(c) PROVE OwnerInv'
<1> USE DEF OwnerInv
<1>0. \A d \in Conn : hello[d] # "none" => hello'[d] # "none"
  BY DEF TypeOK, Client, Connect, Speak, Send, SendRest, Leave
<1>1. CASE Connect(c)
  <2>1. c \notin ToSet(backlog)
    BY <1>1 DEF Connect, Apart, Held, Where
  <2>2. ToSet(backlog') = ToSet(backlog) \cup {c} /\ Once(backlog')
    BY <1>1, <2>1, Put, PutOnce DEF Connect, TypeOK, Queued
  <2>3. hello'[c] # "none"
    BY <1>1 DEF Connect, TypeOK
  <2>4. \A i \in Where : c \notin Held[i]
    BY <1>1 DEF Connect, Apart
  <2>5. /\ Held'["handshake"] = Held["handshake"]
        /\ Held'["active"] = Held["active"]
        /\ Held'["worker"] = Held["worker"]
        /\ Held'["queued"] = Held["queued"]
        /\ Held'["watched"] = Held["watched"]
    BY <1>1, ServedKept, WatchedKept DEF Connect, Held, Where, listenerVars
  <2>6. Held'["backlog"] = Held["backlog"] \cup {c}
    BY <2>2 DEF Held
  <2>7. Apart'
    BY <1>0, <2>3, <2>4, <2>5, <2>6, Moved DEF Where
  <2>8. Queued'
    BY <1>1, <2>2 DEF Connect, Queued, workerVars, monitorVars
  <2> QED
    BY <2>7, <2>8
<1>2. CASE Speak(c) \/ Send(c) \/ SendRest(c) \/ Leave(c)
  <2>1. UNCHANGED <<listenerVars, activeQueue, workerVars, monitorQueue, monitorVars>>
    BY <1>2 DEF Speak, Send, SendRest, Leave
  <2>2. Held' = Held
    BY <2>1 DEF Held, Served, Watched, Pending, listenerVars, workerVars, monitorVars
  <2>3. Apart'
    BY <1>0, <2>2, Kept
  <2>4. Queued'
    BY <2>1 DEF Queued, listenerVars, workerVars, monitorVars
  <2> QED
    BY <2>3, <2>4
<1> QED
  BY <1>1, <1>2 DEF Client

LEMMA ListenerOwns == ASSUME TypeOK, OwnerInv, Listener PROVE OwnerInv'
<1> USE DEF OwnerInv
<1>0. hello' = hello
  BY DEF Listener, Accept, Handshake, HandshakeFails, ListenerExits, clientVars
<1>1. CASE Accept
  <2> DEFINE c == Head(backlog)
  <2>1. /\ c \in ToSet(backlog) /\ c \in Conn
        /\ ToSet(backlog') \subseteq ToSet(backlog) \ {c}
        /\ Once(backlog')
    BY <1>1, Get, GetOnce, NothingAssumption DEF Accept, TypeOK, Queued
  <2>2. hello[c] # "none" /\ \A i \in Where \ {"backlog"} : Held[i] = Held[i] \ {c}
    BY <2>1, Alone DEF Held, Where
  <2>3. /\ Held'["active"] = Held["active"]
        /\ Held'["worker"] = Held["worker"]
        /\ Held'["queued"] = Held["queued"]
        /\ Held'["watched"] = Held["watched"]
    BY <1>1, ServedKept, WatchedKept DEF Accept, Held, Where
  <2>4. /\ Held'["backlog"] \subseteq Held["backlog"] \ {c}
        /\ Held'["handshake"] \subseteq Held["handshake"] \cup {c}
    BY <1>1, <2>1 DEF Accept, Held
  <2>5. Apart'
    BY <1>0, <2>1, <2>2, <2>3, <2>4, Moved DEF Where
  <2>6. Queued'
    BY <1>1, <2>1 DEF Accept, Queued, workerVars, monitorVars
  <2> QED
    BY <2>5, <2>6
<1>2. CASE Handshake
  <2> DEFINE c == shaking
  <2>1. /\ ToSet(activeQueue') = ToSet(activeQueue) \cup {c}
        /\ Once(activeQueue')
    <3>1. c \notin ToSet(activeQueue) \/ c = Nothing
      BY DEF Apart, Held, Where
    <3> QED
      BY <1>2, <3>1, Put, PutOnce DEF Handshake, TypeOK, Queued
  <2>2. /\ Held'["backlog"] = Held["backlog"]
        /\ Held'["worker"] = Held["worker"]
        /\ Held'["queued"] = Held["queued"]
        /\ Held'["watched"] = Held["watched"]
    BY <1>2, ServedKept, WatchedKept DEF Handshake, Held, Where
  <2>3. Held'["handshake"] = {} /\ Held'["active"] = Held["active"] \cup ({c} \ {Nothing})
    BY <1>2, <2>1 DEF Handshake, Held
  <2>4. Apart'
    <3>1. CASE c = Nothing
      BY <1>0, <2>2, <2>3, <3>1, Kept DEF Where
    <3>2. CASE c # Nothing
      <4>1. /\ c \in Conn /\ hello[c] # "none"
            /\ \A i \in Where \ {"handshake"} : Held[i] = Held[i] \ {c}
        BY <3>2, Alone DEF Held, Where
      <4> QED
        BY <1>0, <2>2, <2>3, <4>1, Moved DEF Where
    <3> QED
      BY <3>1, <3>2
  <2>5. Queued'
    BY <1>2, <2>1 DEF Handshake, Queued, workerVars, monitorVars
  <2> QED
    BY <2>4, <2>5
<1>3. CASE HandshakeFails \/ ListenerExits
  <2>1. \A i \in Where : Held'[i] \subseteq Held[i]
    BY <1>3 DEF HandshakeFails, ListenerExits, Held, Where, Served, Watched, Pending,
                workerVars, monitorVars
  <2>2. Apart'
    BY <1>0, <2>1, Kept
  <2>3. Queued'
    BY <1>3 DEF HandshakeFails, ListenerExits, Queued, workerVars, monitorVars
  <2> QED
    BY <2>2, <2>3
<1> QED
  BY <1>1, <1>2, <1>3 DEF Listener

LEMMA WorkerOwns == ASSUME TypeOK, OwnerInv, NEW w \in Worker, WorkerStep(w) PROVE OwnerInv'
<1> USE DEF OwnerInv
<1>0. hello' = hello
  BY DEF WorkerStep, Take, Answer, AnswerBad, GiveUp, Yield, clientVars
<1>1. CASE Take(w)
  <2> DEFINE c == Head(activeQueue)
  <2>1. /\ c \in ToSet(activeQueue) /\ c \in Conn \cup {Nothing}
        /\ ToSet(activeQueue') \subseteq ToSet(activeQueue)
        /\ c # Nothing => c \notin ToSet(activeQueue')
        /\ Once(activeQueue')
    BY <1>1, Get, GetOnce DEF Take, TypeOK, Queued
  <2>2. /\ Held'["backlog"] = Held["backlog"]
        /\ Held'["handshake"] = Held["handshake"]
        /\ Held'["queued"] = Held["queued"]
        /\ Held'["watched"] = Held["watched"]
    BY <1>1, WatchedKept DEF Take, Held, listenerVars
  <2>3. Held'["active"] \subseteq Held["active"] \ {c}
    BY <2>1 DEF Held
  <2>4. /\ UNCHANGED <<listenerVars, monitorQueue, monitorVars>>
        /\ Once(backlog) /\ Once(monitorQueue) /\ Once(readable)
    BY <1>1 DEF Take, Queued
  <2>5. CASE c = Nothing \/ hello[c] # "tls"
    <3>1. \A v \in Worker : job'[v] = "serving" => job[v] = "serving" /\ conn'[v] = conn[v]
      BY <1>1, <2>5 DEF Take, TypeOK
    <3>2. Held'["worker"] \subseteq Held["worker"]
      BY <3>1 DEF Held, Served
    <3>3. Apart'
      BY <1>0, <2>2, <2>3, <3>2, Kept DEF Where
    <3>4. Queued'
      BY <2>1, <2>4, <3>1 DEF Queued, listenerVars, monitorVars
    <3> QED
      BY <3>3, <3>4
  <2>6. CASE c # Nothing /\ hello[c] = "tls"
    <3>1. /\ \A v \in Worker \ {w} : job'[v] = job[v] /\ conn'[v] = conn[v]
          /\ job'[w] = "serving" /\ conn'[w] = c
      <4>1. /\ job' = [job EXCEPT ![w] = "serving"]
            /\ conn' = [conn EXCEPT ![w] = c]
        BY <1>1, <2>6 DEF Take
      <4> QED
        BY <4>1 DEF TypeOK
    <3>2. Held'["worker"] \subseteq Held["worker"] \cup {c}
      BY <3>1 DEF Held, Served
    <3>3. /\ c \in Conn /\ hello[c] # "none"
          /\ \A i \in Where \ {"active"} : Held[i] = Held[i] \ {c}
      BY <2>1, <2>6, Alone DEF Held, Where
    <3>4. Apart'
      BY <1>0, <2>2, <2>3, <3>2, <3>3, Moved DEF Where
    <3>5. \A v \in Worker : job[v] = "serving" => conn[v] # c
      <4>1. Held["worker"] = Served /\ c \notin Held["worker"]
        BY <3>3 DEF Held, Where
      <4> QED
        BY <4>1 DEF Served
    <3>6. Queued'
      BY <2>1, <2>4, <3>1, <3>5 DEF Queued, listenerVars, monitorVars
    <3> QED
      BY <3>4, <3>6
  <2> QED
    BY <2>5, <2>6
<1>2. ASSUME NEW c \in Conn, Answer(w, c) \/ AnswerBad(w, c) \/ GiveUp(w, c)
      PROVE  OwnerInv'
  <2>1. /\ UNCHANGED <<listenerVars, activeQueue, monitorQueue, monitorVars>>
        /\ \A v \in Worker : job'[v] = "serving" => job[v] = "serving" /\ conn'[v] = conn[v]
    BY <1>2 DEF Answer, AnswerBad, GiveUp, BackToQueue, TypeOK, workerVars
  <2>2. /\ Held'["backlog"] = Held["backlog"]
        /\ Held'["handshake"] = Held["handshake"]
        /\ Held'["active"] = Held["active"]
        /\ Held'["worker"] \subseteq Held["worker"]
        /\ Held'["queued"] = Held["queued"]
        /\ Held'["watched"] = Held["watched"]
    BY <2>1, WatchedKept DEF Held, Served, listenerVars
  <2>3. Apart'
    BY <1>0, <2>2, Kept DEF Where
  <2>4. Queued'
    BY <2>1 DEF Queued, listenerVars, monitorVars
  <2> QED
    BY <2>3, <2>4
<1>3. ASSUME NEW c \in Conn, Yield(w, c)
      PROVE  OwnerInv'
  <2>1. /\ UNCHANGED <<listenerVars, activeQueue, monitorVars>>
        /\ monitorQueue' = Append(monitorQueue, c)
        /\ job[w] = "serving" /\ conn[w] = c /\ job'[w] = "idle"
        /\ \A v \in Worker \ {w} : job'[v] = job[v] /\ conn'[v] = conn[v]
    BY <1>3 DEF Yield, Serving, BackToQueue, TypeOK
  <2>2. /\ hello[c] # "none"
        /\ \A i \in Where \ {"worker"} : Held[i] = Held[i] \ {c}
    BY <2>1, Alone DEF Held, Served, Where
  <2>3. c \notin ToSet(monitorQueue)
    BY <2>2, NothingAssumption DEF Held, Where
  <2>4. /\ ToSet(monitorQueue') = ToSet(monitorQueue) \cup {c}
        /\ Once(monitorQueue')
    BY <2>1, <2>3, Put, PutOnce DEF TypeOK, Queued
  <2>5. \A v \in Worker : job'[v] = "serving" => v # w /\ conn'[v] # c
    BY <2>1 DEF Queued
  <2>6. Held'["worker"] \subseteq Held["worker"] \ {c}
    BY <2>1, <2>5 DEF Held, Served
  <2>7. /\ Held'["backlog"] = Held["backlog"]
        /\ Held'["handshake"] = Held["handshake"]
        /\ Held'["active"] = Held["active"]
        /\ Held'["queued"] \subseteq Held["queued"] \cup {c}
        /\ Held'["watched"] = Held["watched"]
    BY <2>1, <2>4, WatchedKept DEF Held, listenerVars
  <2>8. Apart'
    BY <1>0, <2>2, <2>6, <2>7, Moved DEF Where
  <2>9. Queued'
    BY <2>1, <2>4, <2>5 DEF Queued, listenerVars, monitorVars
  <2> QED
    BY <2>8, <2>9
<1> QED
  BY <1>1, <1>2, <1>3 DEF WorkerStep

LEMMA MonitorOwns == ASSUME TypeOK, OwnerInv, Monitor PROVE OwnerInv'
<1> USE DEF OwnerInv
<1>0. /\ UNCHANGED <<clientVars, listenerVars, workerVars>>
      /\ hello' = hello
      /\ Held'["backlog"] = Held["backlog"]
      /\ Held'["handshake"] = Held["handshake"]
      /\ Held'["worker"] = Held["worker"]
  <2>1. UNCHANGED <<clientVars, listenerVars, workerVars>>
    BY DEF Monitor, Begin, Drain, DrainGet, Top, Collecting, Collect,
         CollectNone, Select, SelectRaises, Restore, RemoveRestored, KillStale
  <2> QED
    BY <2>1, ServedKept DEF Held, clientVars, listenerVars
(* What only looks at a queue, or ends the thread, moves nothing. *)
<1>1. ASSUME UNCHANGED <<activeQueue, monitorQueue, connections, readable>>,
             monitor \notin {"restore", "remove"}, monitor' \notin {"restore", "remove"}
      PROVE  OwnerInv'
  <2>1. /\ Held'["active"] = Held["active"]
        /\ Held'["queued"] = Held["queued"]
        /\ Held'["watched"] = Held["watched"]
    BY <1>1 DEF Held, Watched, Pending
  <2>2. Apart'
    BY <1>0, <2>1, Kept DEF Where
  <2>3. Queued'
    BY <1>0, <1>1 DEF Queued, listenerVars, workerVars
  <2> QED
    BY <2>2, <2>3
<1>2. CASE Begin
  BY <1>1, <1>2 DEF Begin
<1>3. CASE DrainGet
  <2>1. /\ ToSet(monitorQueue') \subseteq ToSet(monitorQueue)
        /\ Once(monitorQueue')
    BY <1>3, Get, GetOnce DEF DrainGet, TypeOK, Queued
  <2>2. /\ UNCHANGED <<activeQueue, connections, readable>>
        /\ monitor \notin {"restore", "remove"} /\ monitor' \notin {"restore", "remove"}
    BY <1>3 DEF DrainGet
  <2>3. /\ Held'["active"] = Held["active"]
        /\ Held'["queued"] \subseteq Held["queued"]
        /\ Held'["watched"] = Held["watched"]
    BY <2>1, <2>2 DEF Held, Watched, Pending
  <2>4. Apart'
    BY <1>0, <2>3, Kept DEF Where
  <2>5. Queued'
    BY <1>0, <2>1, <2>2 DEF Queued, listenerVars, workerVars
  <2> QED
    BY <2>4, <2>5
<1>4. CASE Drain \/ Top
  BY <1>1, <1>4 DEF Drain, Top
<1>5. CASE Collect
  <2> DEFINE c == Head(monitorQueue)
  <2>1. /\ monitor = "collectGet" /\ monitor' = "collect" /\ c # Nothing
        /\ UNCHANGED <<activeQueue, readable>>
        /\ connections' = connections \cup {c}
    BY <1>5 DEF Collect
  <2>2. /\ c \in ToSet(monitorQueue) /\ c \in Conn
        /\ ToSet(monitorQueue') \subseteq ToSet(monitorQueue) \ {c}
        /\ Once(monitorQueue')
    BY <1>5, Get, GetOnce DEF Collect, TypeOK, Queued
  <2>3. hello[c] # "none" /\ \A i \in Where \ {"queued"} : Held[i] = Held[i] \ {c}
    BY <2>1, <2>2, Alone DEF Held, Where
  <2>4. /\ Held'["active"] = Held["active"]
        /\ Held'["queued"] \subseteq Held["queued"] \ {c}
        /\ Held'["watched"] \subseteq Held["watched"] \cup {c}
    BY <2>1, <2>2 DEF Held, Watched, Pending
  <2>5. Apart'
    BY <1>0, <2>2, <2>3, <2>4, Moved DEF Where
  <2>6. Queued'
    BY <1>0, <2>1, <2>2 DEF Queued, listenerVars, workerVars
  <2> QED
    BY <2>5, <2>6
<1>6. CASE CollectNone
  <2>1. /\ monitor = "collectGet" /\ monitor' = "select"
        /\ UNCHANGED <<activeQueue, readable>>
        /\ connections' = {} /\ monitorQueue' = <<Nothing>>
    BY <1>6 DEF CollectNone
  <2>2. ToSet(monitorQueue') = {Nothing} /\ Once(monitorQueue')
    BY <2>1 DEF ToSet, Once
  <2>3. /\ Held'["active"] = Held["active"]
        /\ Held'["queued"] \subseteq Held["queued"]
        /\ Held'["watched"] \subseteq Held["watched"]
    BY <2>1, <2>2 DEF Held, Watched, Pending
  <2>4. Apart'
    BY <1>0, <2>3, Kept DEF Where
  <2>5. Queued'
    BY <1>0, <2>1, <2>2 DEF Queued, listenerVars, workerVars
  <2> QED
    BY <2>4, <2>5
<1>7. CASE Collecting \/ SelectRaises
  BY <1>1, <1>7 DEF Collecting, SelectRaises
<1>8. CASE Select
  <2>1. /\ monitor = "select"
        /\ UNCHANGED <<activeQueue, monitorQueue, connections>>
    BY <1>8 DEF Select
  <2>2. CASE ~active
    BY <1>1, <1>8, <2>1, <2>2 DEF Select
  <2>3. CASE active
    <3>1. /\ readable' \in SetToSeqs({c \in connections : IsReadable(c)})
          /\ monitor' = "restore"
      BY <1>8, <2>3 DEF Select
    <3>2. ToSet(readable') \subseteq connections /\ Once(readable')
      <4>1. {c \in connections : IsReadable(c)} \in SUBSET Conn
        BY DEF TypeOK
      <4> QED
        BY <3>1, <4>1, Selected
    <3>3. /\ Held'["active"] = Held["active"]
          /\ Held'["queued"] = Held["queued"]
          /\ Held'["watched"] \subseteq Held["watched"]
      BY <2>1, <3>1, <3>2 DEF Held, Watched, Pending
    <3>4. Apart'
      BY <1>0, <3>3, Kept DEF Where
    <3>5. Queued'
      BY <1>0, <2>1, <3>1, <3>2 DEF Queued, listenerVars, workerVars
    <3> QED
      BY <3>4, <3>5
  <2> QED
    BY <2>2, <2>3
<1>9. CASE Restore
  <2>1. monitor = "restore" /\ UNCHANGED <<monitorQueue, connections, readable>>
    BY <1>9 DEF Restore
  <2>2. CASE readable = <<>>
    <3>1. UNCHANGED activeQueue /\ monitor' = "stale"
      BY <1>9, <2>2 DEF Restore
    <3>2. /\ Held'["active"] = Held["active"]
          /\ Held'["queued"] = Held["queued"]
          /\ Held'["watched"] = Held["watched"]
      BY <2>1, <3>1 DEF Held, Watched, Pending
    <3>3. Apart'
      BY <1>0, <3>2, Kept DEF Where
    <3>4. Queued'
      BY <1>0, <2>1, <2>2, <3>1 DEF Queued, listenerVars, workerVars
    <3> QED
      BY <3>3, <3>4
  <2>3. CASE readable # <<>>
    <3> DEFINE c == Head(readable)
    <3>1. /\ activeQueue' = Append(activeQueue, c) /\ monitor' = "remove"
          /\ c \in Conn /\ c \in ToSet(readable)
          /\ ToSet(Tail(readable)) \subseteq ToSet(readable) \ {c}
      BY <1>9, <2>3, Get, GetOnce, NothingAssumption DEF Restore, TypeOK, Queued
    <3>2. c \in Held["watched"]
      BY <2>1, <3>1 DEF Held, Pending
    <3>3. hello[c] # "none" /\ \A i \in Where \ {"watched"} : Held[i] = Held[i] \ {c}
      BY <3>2, Alone DEF Where
    <3>4. c \notin ToSet(activeQueue)
      BY <3>1, <3>3, NothingAssumption DEF Held, Where
    <3>5. /\ ToSet(activeQueue') = ToSet(activeQueue) \cup {c}
          /\ Once(activeQueue')
      BY <3>1, <3>4, Put, PutOnce DEF TypeOK, Queued
    <3>6. /\ Held'["active"] \subseteq Held["active"] \cup {c}
          /\ Held'["queued"] = Held["queued"]
      BY <2>1, <3>5 DEF Held
    <3>7. Held'["watched"] \subseteq Held["watched"] \ {c}
      BY <2>1, <3>1 DEF Held, Watched, Pending
    <3>8. Apart'
      BY <1>0, <3>1, <3>3, <3>6, <3>7, Moved DEF Where
    <3>9. Queued'
      BY <1>0, <2>1, <2>3, <3>1, <3>5 DEF Queued, listenerVars, workerVars
    <3> QED
      BY <3>8, <3>9
  <2> QED
    BY <2>2, <2>3
<1>10. CASE RemoveRestored
  <2>1. /\ monitor = "remove" /\ monitor' \in {"restore", "exited"}
        /\ UNCHANGED <<activeQueue, monitorQueue>>
        /\ connections' = connections \ {Head(readable)}
        /\ readable' = IF monitor' = "restore" THEN Tail(readable) ELSE <<>>
    BY <1>10 DEF RemoveRestored
  <2>2. readable # <<>>
    BY <2>1 DEF Queued
  <2>3. Once(readable')
    BY <2>1, <2>2, GetOnce, NoneElements DEF TypeOK, Queued
  <2>4. /\ Held'["active"] = Held["active"]
        /\ Held'["queued"] = Held["queued"]
        /\ Held'["watched"] \subseteq Held["watched"]
    BY <2>1, NoneElements DEF Held, Watched, Pending
  <2>5. Apart'
    BY <1>0, <2>4, Kept DEF Where
  <2>6. Queued'
    BY <1>0, <2>1, <2>3 DEF Queued, listenerVars, workerVars
  <2> QED
    BY <2>5, <2>6
<1>11. CASE KillStale
  <2>1. /\ monitor = "stale" /\ monitor' = "top"
        /\ connections' \subseteq connections
        /\ UNCHANGED <<activeQueue, monitorQueue, readable>>
    BY <1>11 DEF KillStale
  <2>2. /\ Held'["active"] = Held["active"]
        /\ Held'["queued"] = Held["queued"]
        /\ Held'["watched"] \subseteq Held["watched"]
    BY <2>1 DEF Held, Watched, Pending
  <2>3. Apart'
    BY <1>0, <2>2, Kept DEF Where
  <2>4. Queued'
    BY <1>0, <2>1 DEF Queued, listenerVars, workerVars
  <2> QED
    BY <2>3, <2>4
<1> QED
  BY <1>2, <1>3, <1>4, <1>5, <1>6, <1>7, <1>8, <1>9, <1>10, <1>11 DEF Monitor

LEMMA StopOwns == ASSUME TypeOK, OwnerInv, Stop \/ StopStep PROVE OwnerInv'
<1> USE DEF OwnerInv
<1>0. /\ UNCHANGED <<hello, backlog, shaking, workerVars, monitor, readable>>
      /\ Held'["backlog"] = Held["backlog"]
      /\ Held'["handshake"] = Held["handshake"]
      /\ Held'["worker"] = Held["worker"]
  <2>1. UNCHANGED <<hello, backlog, shaking, workerVars, monitor, readable>>
    BY DEF Stop, StopStep, JoinListener, StopMonitor, FlushConnections,
         PopConnection, PopFails, StopAgain, FlushQueue, GetQueued, PutNone,
         JoinMonitor, JoinWorkers, clientVars, listenerVars, monitorVars
  <2> QED
    BY <2>1, ServedKept DEF Held
<1>1. /\ ToSet(activeQueue') \ {Nothing} \subseteq ToSet(activeQueue)
      /\ Once(activeQueue')
  <2>1. CASE JoinMonitor
    BY <2>1, NonesAdded DEF JoinMonitor, TypeOK, Queued
  <2>2. CASE ~JoinMonitor
    <3>1. activeQueue' = activeQueue
      BY <2>2 DEF Stop, StopStep, JoinListener, StopMonitor, FlushConnections,
                  PopConnection, PopFails, StopAgain, FlushQueue, GetQueued, PutNone,
                  JoinWorkers
    <3> QED
      BY <3>1 DEF Queued
  <2> QED
    BY <2>1, <2>2
<1>2. /\ ToSet(monitorQueue') \ {Nothing} \subseteq ToSet(monitorQueue)
      /\ Once(monitorQueue')
  <2>1. CASE GetQueued
    BY <2>1, Get, GetOnce DEF GetQueued, TypeOK, Queued
  <2>2. CASE PutNone
    BY <2>2, Put, PutOnce DEF PutNone, TypeOK, Queued
  <2>3. CASE ~GetQueued /\ ~PutNone
    <3>1. monitorQueue' = monitorQueue
      BY <2>3 DEF Stop, StopStep, JoinListener, StopMonitor, FlushConnections,
                  PopConnection, PopFails, StopAgain, FlushQueue, JoinMonitor, JoinWorkers
    <3> QED
      BY <3>1 DEF Queued
  <2> QED
    BY <2>1, <2>2, <2>3
<1>3. connections' \subseteq connections
  BY DEF Stop, StopStep, JoinListener, StopMonitor, FlushConnections,
         PopConnection, PopFails, StopAgain, FlushQueue, GetQueued, PutNone,
         JoinMonitor, JoinWorkers, monitorVars
<1>4. /\ Held'["active"] \subseteq Held["active"]
      /\ Held'["queued"] \subseteq Held["queued"]
      /\ Held'["watched"] \subseteq Held["watched"]
  BY <1>0, <1>1, <1>2, <1>3 DEF Held, Watched, Pending
<1>5. Apart'
  BY <1>0, <1>4, Kept DEF Where
<1>6. Queued'
  BY <1>0, <1>1, <1>2 DEF Queued, workerVars
<1> QED
  BY <1>5, <1>6

LEMMA NextOwns == TypeOK /\ OwnerInv /\ [Next]_vars => OwnerInv'
<1> SUFFICES ASSUME TypeOK, OwnerInv, [Next]_vars PROVE OwnerInv'
  OBVIOUS
<1>1. CASE UNCHANGED vars
  <2>1. Held' = Held /\ hello' = hello
    BY <1>1, ServedKept, WatchedKept DEF vars, Held, clientVars, listenerVars
  <2>2. Apart'
    BY <2>1 DEF OwnerInv, Apart
  <2>3. Queued'
    BY <1>1 DEF vars, OwnerInv, Queued, listenerVars, workerVars, monitorVars
  <2> QED
    BY <2>2, <2>3 DEF OwnerInv
<1> QED
  BY <1>1, ClientOwns, ListenerOwns, WorkerOwns, MonitorOwns, StopOwns DEF Next

LEMMA OwnerInvariance == Spec => []OwnerInv
<1>1. TypeOK /\ OwnerInv /\ [Next]_vars => OwnerInv'
  BY NextOwns
<1> QED
  BY <1>1, InitOwns, TypeCorrect, PTL DEF Spec

(* Ownership: whatever clients, timeouts and stop do, a connection is with *)
(* one thread or in one queue, and there once.                             *)
THEOREM Ownership == Spec => []OneOwner
<1> QED
  BY OwnerInvariance, OwnerInvSuffices, PTL

(***************************************************************************)
(* Who closes a connection.                                                *)
(***************************************************************************)

(* What a worker serves is in no queue and not in the monitor's set. *)
LEMMA ServedAlone ==
    ASSUME TypeOK, OwnerInv, NEW w \in Worker, NEW c \in Conn, Serving(w, c)
    PROVE  /\ c \notin ToSet(activeQueue) /\ c \notin ToSet(monitorQueue)
           /\ monitor # "remove" => c \notin connections
           /\ \A v \in Worker, d \in Conn : Serving(v, d) /\ v # w => d # c
<1>1. c \in Held["worker"]
  BY DEF Held, Served, Serving
<1>2. c \notin Held["active"] /\ c \notin Held["queued"] /\ c \notin Held["watched"]
  BY <1>1 DEF OwnerInv, Apart, Where
<1> QED
  BY <1>2, NothingAssumption DEF Held, Watched, OwnerInv, Queued, Serving

LEMMA OthersClose ==
    ASSUME TypeOK, OwnerInv, [Next]_vars, NEW w \in Worker, NEW c \in Conn,
           Serving(w, c), c \in closed' \ closed, main # "popConnection"
    PROVE  ~Serving(w, c)'
<1>1. CASE \E d \in Conn : Client(d)
  BY <1>1 DEF Client, Connect, Speak, Send, SendRest, Leave
<1>2. CASE Listener
  BY <1>2 DEF Listener, Accept, Handshake, HandshakeFails, ListenerExits
<1>3. ASSUME NEW v \in Worker, WorkerStep(v)
      PROVE  ~Serving(w, c)'
  <2>1. CASE Take(v)
    <3>1. c = Head(activeQueue) /\ activeQueue # <<>>
      BY <2>1 DEF Take
    <3>2. c \in ToSet(activeQueue)
      BY <3>1, Get DEF TypeOK
    <3> QED
      BY <3>2, ServedAlone
  <2>2. ASSUME NEW d \in Conn, Answer(v, d) \/ GiveUp(v, d)
        PROVE  ~Serving(w, c)'
    <3>1. Serving(v, d) /\ d = c /\ BackToQueue(v)
      BY <2>2 DEF Answer, GiveUp
    <3>2. v = w
      BY <3>1, ServedAlone
    <3> QED
      BY <3>1, <3>2 DEF BackToQueue, Serving, TypeOK
  <2>3. CASE \E d \in Conn : AnswerBad(v, d) \/ Yield(v, d)
    BY <2>3 DEF AnswerBad, Yield
  <2> QED
    BY <1>3, <2>1, <2>2, <2>3 DEF WorkerStep
<1>4. CASE Monitor
  <2>1. CASE CollectNone
    BY <2>1, ServedAlone DEF CollectNone
  <2>2. CASE KillStale
    BY <2>2, ServedAlone DEF KillStale
  <2>3. CASE ~CollectNone /\ ~KillStale
    BY <1>4, <2>3 DEF Monitor, Begin, Drain, DrainGet, Top, Collecting, Collect,
                      Select, SelectRaises, Restore, RemoveRestored
  <2> QED
    BY <2>1, <2>2, <2>3
<1>5. CASE Stop \/ StopStep
  <2>1. CASE GetQueued
    <3>1. monitorQueue # <<>> /\ c = Head(monitorQueue)
      BY <2>1 DEF GetQueued
    <3>2. c \in ToSet(monitorQueue)
      BY <3>1, Get DEF TypeOK
    <3> QED
      BY <3>2, ServedAlone
  <2>2. CASE ~GetQueued
    BY <1>5, <2>2 DEF Stop, StopStep, JoinListener, StopMonitor, FlushConnections,
                      PopConnection, PopFails, StopAgain, FlushQueue, PutNone,
                      JoinMonitor, JoinWorkers
  <2> QED
    BY <2>1, <2>2
<1>6. CASE UNCHANGED vars
  BY <1>6 DEF vars
<1> QED
  BY <1>1, <1>2, <1>3, <1>4, <1>5, <1>6 DEF Next

(* NeverClosedBehind: no stale connection, and none that is flushed from   *)
(* the monitor's queue, is one that a worker serves.                       *)
THEOREM NeverClosedBehind == Spec => NotClosedWhileServed
<1>1. TypeOK /\ OwnerInv /\ [Next]_vars =>
        [\A w \in Worker, c \in Conn :
            Serving(w, c) /\ c \in closed' \ closed =>
                ~Serving(w, c)' \/ main = "popConnection"]_vars
  BY OthersClose
<1> QED
  BY <1>1, OwnerInvariance, TypeCorrect, PTL DEF Spec, NotClosedWhileServed

(***************************************************************************)
(* Who forgets a connection.                                               *)
(***************************************************************************)

(* What get does not take stays. *)
LEMMA GetAll ==
    ASSUME NEW S, NEW q \in Seq(S), q # <<>>
    PROVE  ToSet(q) = {Head(q)} \cup ToSet(Tail(q))
<1>1. /\ Head(q) = q[1]
      /\ Len(Tail(q)) = Len(q) - 1
      /\ Tail(q) \in Seq(S)
      /\ \A i \in 1..Len(Tail(q)) : Tail(q)[i] = q[i + 1]
  BY HeadTailProperties
<1>2. /\ DOMAIN q = 1..Len(q) /\ Len(q) \in Nat /\ Len(q) # 0
      /\ DOMAIN Tail(q) = 1..(Len(q) - 1)
  BY <1>1
<1>3. ASSUME NEW i \in DOMAIN q, i # 1
      PROVE  i - 1 \in DOMAIN Tail(q) /\ Tail(q)[i - 1] = q[i]
  BY <1>1, <1>2, <1>3
<1>4. ASSUME NEW x \in ToSet(q), x # Head(q)
      PROVE  x \in ToSet(Tail(q))
  <2>1. PICK i \in DOMAIN q : q[i] = x
    BY DEF ToSet
  <2>2. i # 1
    BY <1>1, <1>4, <2>1
  <2> QED
    BY <1>3, <2>1, <2>2 DEF ToSet
<1> QED
  BY <1>4, Get

LEMMA PutThere ==
    ASSUME NEW q \in Seq(Conn \cup {Nothing}), NEW c \in Conn \cup {Nothing}
    PROVE  ToSet(Append(q, c)) = ToSet(q) \cup {c}
  BY Put

(* Somebody has connection c. *)
Has(c) ==
    \/ c \in ToSet(backlog)
    \/ c = shaking
    \/ c \in ToSet(activeQueue)
    \/ c \in Served
    \/ c \in ToSet(monitorQueue)
    \/ c \in Watched

LEMMA OwnedHas ==
    ASSUME NEW c \in Conn
    PROVE  (Owned(c) <=> Has(c)) /\ (Owned(c)' <=> Has(c)')
<1>1. c # Nothing
  BY NothingAssumption
<1>2. DOMAIN Places = Where /\ (DOMAIN Places)' = Where
  BY DEF Places, Where
<1>3. Owned(c) <=> Has(c)
  BY <1>1, <1>2 DEF Owned, Has, Places, Where
<1>4. Owned(c)' <=> Has(c)'
  BY <1>1, <1>2 DEF Owned, Has, Places, Where
<1> QED
  BY <1>3, <1>4

(* Only a listener in a handshake has a connection. *)
Resting == listener # "handshake" => shaking = Nothing

LEMMA RestingInvariance == Spec => []Resting
<1>1. Init => Resting
  BY DEF Init, Resting
<1>2. Resting /\ [Next]_vars => Resting'
  <2> SUFFICES ASSUME Resting, [Next]_vars PROVE Resting'
    OBVIOUS
  <2>1. CASE UNCHANGED listenerVars
    BY <2>1 DEF Resting, listenerVars
  <2>2. CASE \E c \in Conn : Client(c)
    BY <2>2 DEF Resting, Client, Connect, Speak, Send, SendRest, Leave, listenerVars
  <2>3. CASE Listener
    BY <2>3 DEF Resting, Listener, Accept, Handshake, HandshakeFails, ListenerExits
  <2>4. CASE \E w \in Worker : WorkerStep(w)
    BY <2>1, <2>4 DEF WorkerStep, Take, Answer, AnswerBad, GiveUp, Yield
  <2>5. CASE Monitor
    BY <2>1, <2>5 DEF Monitor, Begin, Drain, DrainGet, Top, Collecting, Collect,
         CollectNone, Select, SelectRaises, Restore, RemoveRestored, KillStale
  <2>6. CASE Stop \/ StopStep
    BY <2>6 DEF Resting, Stop, StopStep, JoinListener, StopMonitor, FlushConnections,
         PopConnection, PopFails, StopAgain, FlushQueue, GetQueued, PutNone,
         JoinMonitor, JoinWorkers, listenerVars
  <2> QED
    BY <2>1, <2>2, <2>3, <2>4, <2>5, <2>6 DEF Next, vars
<1> QED
  BY <1>1, <1>2, PTL DEF Spec

(* c may get out of everybody's hands in this step. *)
MayForget(c) ==
    \/ c \in Served /\ (wire[c] = "bad" \/ CutOff(c))
    \/ c = shaking /\ c \in gone
    \/ monitor = "drainGet"

LEMMA ClientKeeps ==
    ASSUME TypeOK, NEW d \in Conn, Client(d), NEW c \in Conn, Has(c)
    PROVE  Has(c)'
<1>1. /\ UNCHANGED <<shaking, activeQueue, workerVars, monitorQueue, monitorVars>>
      /\ ToSet(backlog) \subseteq ToSet(backlog')
  <2>1. CASE Connect(d)
    BY <2>1, Put DEF Connect, TypeOK
  <2>2. CASE Speak(d) \/ Send(d) \/ SendRest(d) \/ Leave(d)
    BY <2>2 DEF Speak, Send, SendRest, Leave, listenerVars
  <2> QED
    BY <2>1, <2>2 DEF Client
<1> QED
  BY <1>1, ServedKept, WatchedKept DEF Has

LEMMA ListenerKeeps ==
    ASSUME TypeOK, Resting, Listener, NEW c \in Conn, Has(c)
    PROVE  Has(c)' \/ MayForget(c)
<1>0. UNCHANGED <<workerVars, monitorQueue, monitorVars>> /\ c # Nothing
  BY NothingAssumption DEF Listener, Accept, Handshake, HandshakeFails, ListenerExits
<1>1. CASE Accept
  <2>1. ToSet(backlog) = {Head(backlog)} \cup ToSet(Tail(backlog))
    BY <1>1, GetAll DEF Accept, TypeOK
  <2>2. c # shaking
    BY <1>0, <1>1 DEF Accept, Resting
  <2> QED
    BY <1>0, <1>1, <2>1, <2>2, ServedKept, WatchedKept DEF Accept, Has
<1>2. CASE Handshake
  <2>1. ToSet(activeQueue') = ToSet(activeQueue) \cup {shaking}
    BY <1>2, PutThere DEF Handshake, TypeOK
  <2> QED
    BY <1>0, <1>2, <2>1, ServedKept, WatchedKept DEF Handshake, Has
<1>3. CASE HandshakeFails
  BY <1>0, <1>3, ServedKept, WatchedKept DEF HandshakeFails, Has, MayForget
<1>4. CASE ListenerExits
  BY <1>0, <1>4, ServedKept, WatchedKept DEF ListenerExits, Has
<1> QED
  BY <1>1, <1>2, <1>3, <1>4 DEF Listener

LEMMA WorkerKeeps ==
    ASSUME TypeOK, NEW w \in Worker, WorkerStep(w), NEW c \in Conn, Has(c)
    PROVE  Has(c)' \/ c \in closed' \/ MayForget(c)
<1>0. UNCHANGED <<listenerVars, monitorVars>>
  BY DEF WorkerStep, Take, Answer, AnswerBad, GiveUp, Yield
<1>1. CASE Take(w)
  <2> DEFINE d == Head(activeQueue)
  <2>1. /\ ToSet(activeQueue) = {d} \cup ToSet(activeQueue')
        /\ UNCHANGED monitorQueue
    BY <1>1, GetAll DEF Take, TypeOK
  <2>2. ASSUME c \in Served PROVE c \in Served'
    <3>1. PICK v \in Worker : job[v] = "serving" /\ conn[v] = c
      BY <2>2 DEF Served
    <3>2. v # w
      BY <1>1, <3>1 DEF Take
    <3>3. job'[v] = "serving" /\ conn'[v] = c
      BY <1>1, <3>1, <3>2 DEF Take, TypeOK
    <3> QED
      BY <3>3 DEF Served
  <2>3. ASSUME c = d PROVE c \in Served' \/ c \in closed'
    <3>1. c # Nothing
      BY NothingAssumption
    <3>2. CASE hello[c] = "tls"
      <4>1. job'[w] = "serving" /\ conn'[w] = c
        BY <1>1, <2>3, <3>1, <3>2 DEF Take, TypeOK
      <4> QED
        BY <4>1 DEF Served
    <3>3. CASE hello[c] # "tls"
      BY <1>1, <2>3, <3>1, <3>3 DEF Take
    <3> QED
      BY <3>2, <3>3
  <2> QED
    BY <1>0, <2>1, <2>2, <2>3, WatchedKept DEF Has, listenerVars
<1>2. ASSUME NEW d \in Conn, Answer(w, d) \/ AnswerBad(w, d) \/ GiveUp(w, d) \/ Yield(w, d)
      PROVE  Has(c)' \/ c \in closed' \/ MayForget(c)
  <2>1. /\ UNCHANGED activeQueue
        /\ UNCHANGED workerVars \/ BackToQueue(w)
        /\ job[w] = "serving" /\ conn[w] = d
    BY <1>2 DEF Answer, AnswerBad, GiveUp, Yield, Serving
  <2>2. ToSet(monitorQueue) \subseteq ToSet(monitorQueue')
    BY <1>2, PutThere DEF Answer, AnswerBad, GiveUp, Yield, TypeOK
  <2>3. ASSUME c \in Served, c # d PROVE c \in Served'
    <3>1. PICK v \in Worker : job[v] = "serving" /\ conn[v] = c
      BY <2>3 DEF Served
    <3>2. v # w
      BY <2>1, <2>3, <3>1
    <3>3. job'[v] = "serving" /\ conn'[v] = c
      BY <2>1, <3>1, <3>2 DEF BackToQueue, TypeOK, workerVars
    <3> QED
      BY <3>3 DEF Served
  <2>4. ASSUME c = d
        PROVE  c \in Served' \/ c \in ToSet(monitorQueue') \/ c \in closed' \/ MayForget(c)
    <3>1. c \in Served
      BY <2>1, <2>4 DEF Served
    <3>2. CASE Answer(w, d)
      BY <2>4, <3>1, <3>2, ServedKept DEF Answer
    <3>3. CASE AnswerBad(w, d)
      BY <2>4, <3>1, <3>3 DEF AnswerBad, MayForget
    <3>4. CASE GiveUp(w, d)
      BY <2>4, <3>4 DEF GiveUp
    <3>5. CASE Yield(w, d)
      <4>1. monitorQueue' = Append(monitorQueue, c)
        BY <2>4, <3>5 DEF Yield
      <4>2. ToSet(monitorQueue') = ToSet(monitorQueue) \cup {c}
        BY <4>1, PutThere DEF TypeOK
      <4> QED
        BY <4>2
    <3> QED
      BY <1>2, <3>2, <3>3, <3>4, <3>5
  <2> QED
    BY <1>0, <2>1, <2>2, <2>3, <2>4, WatchedKept DEF Has, listenerVars
<1> QED
  BY <1>1, <1>2 DEF WorkerStep

LEMMA MonitorKeeps ==
    ASSUME TypeOK, OwnerInv, Monitor, NEW c \in Conn, Has(c)
    PROVE  Has(c)' \/ c \in closed' \/ MayForget(c)
<1>0. /\ UNCHANGED <<listenerVars, workerVars>> /\ c # Nothing
      /\ Served' = Served
  BY NothingAssumption, ServedKept DEF Monitor, Begin, Drain, DrainGet, Top, Collecting, Collect,
         CollectNone, Select, SelectRaises, Restore, RemoveRestored, KillStale
<1> USE <1>0 DEF Has, listenerVars
<1>1. CASE Begin \/ Drain \/ Top \/ Collecting \/ Select \/ SelectRaises
  BY <1>1 DEF Begin, Drain, Top, Collecting, Select, SelectRaises, Watched
<1>2. CASE DrainGet
  BY <1>2 DEF DrainGet, MayForget
<1>3. CASE Collect
  <2>1. ToSet(monitorQueue) = {Head(monitorQueue)} \cup ToSet(monitorQueue')
    BY <1>3, GetAll DEF Collect, TypeOK
  <2> QED
    BY <1>3, <2>1 DEF Collect, Watched
<1>4. CASE CollectNone
  BY <1>4 DEF CollectNone, Watched
<1>5. CASE Restore
  <2>1. CASE readable = <<>>
    BY <1>5, <2>1 DEF Restore, Watched
  <2>2. CASE readable # <<>>
    <3>1. Head(readable) \in Conn
      BY <2>2, Get DEF TypeOK
    <3>2. ToSet(activeQueue') = ToSet(activeQueue) \cup {Head(readable)}
      BY <1>5, <2>2, <3>1, PutThere DEF Restore, TypeOK
    <3> QED
      BY <1>5, <2>2, <3>2 DEF Restore, Watched
  <2> QED
    BY <2>1, <2>2
<1>6. CASE RemoveRestored
  BY <1>6 DEF RemoveRestored, Watched
<1>7. CASE KillStale
  BY <1>7 DEF KillStale, Watched
<1> QED
  BY <1>1, <1>2, <1>3, <1>4, <1>5, <1>6, <1>7 DEF Monitor

LEMMA StopKeeps ==
    ASSUME TypeOK, Stop \/ StopStep, NEW c \in Conn, Has(c)
    PROVE  Has(c)' \/ c \in closed'
<1>0. /\ UNCHANGED <<backlog, shaking, workerVars, monitor, readable>> /\ c # Nothing
      /\ Served' = Served
  BY NothingAssumption, ServedKept DEF Stop, StopStep, JoinListener, StopMonitor,
       FlushConnections, PopConnection, PopFails, StopAgain, FlushQueue, GetQueued, PutNone,
       JoinMonitor, JoinWorkers, listenerVars, monitorVars
<1> USE <1>0 DEF Has
<1>1. CASE Stop \/ JoinListener \/ StopMonitor \/ JoinWorkers
  BY <1>1 DEF Stop, JoinListener, StopMonitor, JoinWorkers, monitorVars, Watched
<1>2. CASE FlushConnections \/ PopConnection \/ PopFails \/ StopAgain \/ FlushQueue
  BY <1>2 DEF FlushConnections, PopConnection, PopFails, StopAgain, FlushQueue, monitorVars,
              Watched
<1>3. CASE GetQueued
  <2>1. ToSet(monitorQueue) = {Head(monitorQueue)} \cup ToSet(Tail(monitorQueue))
    BY <1>3, GetAll DEF GetQueued, TypeOK
  <2> QED
    BY <1>3, <2>1 DEF GetQueued, monitorVars, Watched
<1>4. CASE JoinMonitor
  <2>1. ToSet(activeQueue) \subseteq ToSet(activeQueue')
    BY <1>4, NonesAdded DEF JoinMonitor, TypeOK
  <2> QED
    BY <1>4, <2>1 DEF JoinMonitor, monitorVars, Watched
<1>5. CASE PutNone
  <2>1. ToSet(monitorQueue) \subseteq ToSet(monitorQueue')
    BY <1>5, PutThere DEF PutNone, TypeOK
  <2> QED
    BY <1>5, <2>1 DEF PutNone, monitorVars, Watched
<1> QED
  BY <1>1, <1>2, <1>3, <1>4, <1>5 DEF StopStep

LEMMA NobodyForgets ==
    ASSUME TypeOK, OwnerInv, Resting, [Next]_vars, NEW c \in Conn, Owned(c), Forgotten(c)'
    PROVE  MayForget(c)
<1>1. Has(c) /\ ~Has(c)' /\ c \notin closed'
  BY OwnedHas DEF Forgotten
<1>2. CASE UNCHANGED vars
  BY <1>1, <1>2, ServedKept, WatchedKept DEF vars, Has, listenerVars, workerVars, monitorVars
<1> QED
  BY <1>1, <1>2, ClientKeeps, ListenerKeeps, WorkerKeeps, MonitorKeeps, StopKeeps DEF Next

(* NoneForgotten: no timeout, no stop and no step of the monitor but its   *)
(* first ones leaves an open connection that nobody looks at.              *)
THEOREM NoneForgotten == Spec => OnlyBadForgotten
<1>1. TypeOK /\ OwnerInv /\ Resting /\ [Next]_vars =>
        [\A c \in Conn : Owned(c) /\ Forgotten(c)' =>
            \/ c \in Served /\ (wire[c] = "bad" \/ CutOff(c))
            \/ c = shaking /\ c \in gone
            \/ monitor = "drainGet"]_vars
  BY NobodyForgets DEF MayForget
<1> QED
  BY <1>1, TypeCorrect, OwnerInvariance, RestingInvariance, PTL DEF Spec, OnlyBadForgotten

(***************************************************************************)
(* What stop leaves.                                                       *)
(***************************************************************************)

(* The last k elements of a queue, and no other ones, are Nones; without   *)
(* any the queue is empty.                                                 *)
Ending(q, k) ==
    /\ k <= Len(q)
    /\ k = 0 => Len(q) = 0
    /\ \A i \in 1..Len(q) : q[i] = Nothing <=> i > Len(q) - k

LEMMA EndingGet ==
    ASSUME NEW q \in Seq(Conn \cup {Nothing}), NEW k \in Nat, Ending(q, k), q # <<>>
    PROVE  /\ Head(q) # Nothing => Ending(Tail(q), k)
           /\ Head(q) = Nothing => k # 0 /\ Ending(Tail(q), k - 1)
<1>1. /\ Head(q) = q[1]
      /\ Len(Tail(q)) = Len(q) - 1
      /\ \A i \in 1..Len(Tail(q)) : Tail(q)[i] = q[i + 1]
  BY HeadTailProperties
<1>2. Len(q) \in Nat /\ Len(q) # 0 /\ 1 \in 1..Len(q)
  BY EmptySeq
<1>3. CASE Head(q) # Nothing
  BY <1>1, <1>2, <1>3 DEF Ending
<1>4. CASE Head(q) = Nothing
  <2>0. 1 > Len(q) - k /\ k <= Len(q)
    BY <1>1, <1>2, <1>4 DEF Ending
  <2>1. k = Len(q)
    BY <1>2, <2>0
  <2> QED
    BY <1>1, <1>2, <1>4, <2>1 DEF Ending
<1> QED
  BY <1>3, <1>4

LEMMA EndingNones ==
    ASSUME NEW q \in Seq(Conn \cup {Nothing}), Nothing \notin ToSet(q)
    PROVE  Ending(q \o Nones, Cardinality(Worker))
<1>1. Cardinality(Worker) \in Nat \ {0}
  BY FiniteAssumption, WorkerAssumption, FS_CardinalityType, FS_EmptySet
<1>2. /\ Nones \in Seq(Conn \cup {Nothing}) /\ Len(Nones) = Cardinality(Worker)
      /\ \A i \in 1..Len(Nones) : Nones[i] = Nothing
  BY <1>1 DEF Nones
<1>3. /\ q \o Nones \in Seq(Conn \cup {Nothing})
      /\ Len(q \o Nones) = Len(q) + Len(Nones)
      /\ \A i \in 1..(Len(q) + Len(Nones)) :
            (q \o Nones)[i] = IF i <= Len(q) THEN q[i] ELSE Nones[i - Len(q)]
  BY <1>2, ConcatProperties
<1>4. \A i \in 1..Len(q) : q[i] # Nothing
  BY DEF ToSet
<1>5. Len(q) \in Nat
  BY LenProperties
<1> QED
  BY <1>1, <1>2, <1>3, <1>4, <1>5 DEF Ending

Alive == {w \in Worker : job[w] # "exited"}

AllStopped == {"joinWorkers", "stopped"}

(* What stop has waited for has ended, and nothing else has. *)
StopInv ==
    /\ listener = "handshake" => shaking # Nothing
    /\ main \notin {"running", "joinListener"} => listener = "exited"
    /\ main \in AllStopped => monitor = "exited" /\ Ending(activeQueue, Cardinality(Alive))
    /\ main \notin AllStopped => Alive = Worker /\ Nothing \notin ToSet(activeQueue)
    /\ main = "stopped" => Alive = {}

LEMMA AliveCount == Cardinality(Alive) \in Nat /\ IsFiniteSet(Alive)
<1>1. Alive \subseteq Worker
  BY DEF Alive
<1> QED
  BY <1>1, FiniteAssumption, FS_Subset, FS_CardinalityType

LEMMA InitStops == Init => StopInv
  BY NoneElements DEF Init, StopInv, Alive, AllStopped

LEMMA ListenerStops == ASSUME TypeOK, StopInv, Listener PROVE StopInv'
<1>0. UNCHANGED <<monitor, main>> /\ Alive' = Alive
  BY DEF Listener, Accept, Handshake, HandshakeFails, ListenerExits, monitorVars,
         workerVars, Alive
<1>1. CASE Accept \/ HandshakeFails \/ ListenerExits
  <2>1. Accept => shaking' # Nothing
    BY Get, NothingAssumption DEF Accept, TypeOK
  <2> QED
    BY <1>0, <1>1, <2>1 DEF Accept, HandshakeFails, ListenerExits, StopInv
<1>2. CASE Handshake
  <2>1. main \in {"running", "joinListener"} /\ shaking # Nothing
    BY <1>2 DEF Handshake, StopInv
  <2>2. ToSet(activeQueue') = ToSet(activeQueue) \cup {shaking}
    BY <1>2, PutThere DEF Handshake, TypeOK
  <2> QED
    BY <1>0, <1>2, <2>1, <2>2 DEF Handshake, StopInv, AllStopped
<1> QED
  BY <1>1, <1>2 DEF Listener

LEMMA WorkerStops ==
    ASSUME TypeOK, StopInv, NEW w \in Worker, WorkerStep(w)
    PROVE  StopInv'
<1>0. UNCHANGED <<listenerVars, monitorVars, main>> /\ main # "stopped"
  <2>1. Alive # {}
    BY DEF Alive, WorkerStep, Take, Answer, AnswerBad, GiveUp, Yield, Serving
  <2> QED
    BY <2>1 DEF WorkerStep, Take, Answer, AnswerBad, GiveUp, Yield, StopInv
<1>1. CASE Take(w)
  <2>1. activeQueue # <<>> /\ activeQueue' = Tail(activeQueue) /\ job[w] = "idle"
    BY <1>1 DEF Take
  <2>2. /\ ToSet(activeQueue') \subseteq ToSet(activeQueue)
        /\ Head(activeQueue) \in ToSet(activeQueue)
    BY <2>1, Get DEF TypeOK
  <2>3. CASE Head(activeQueue) # Nothing
    <3>1. Alive' = Alive
      BY <1>1, <2>3 DEF Take, Alive, TypeOK
    <3>2. main \in AllStopped => Ending(activeQueue', Cardinality(Alive))
      BY <2>1, <2>3, EndingGet, AliveCount DEF StopInv, TypeOK
    <3> QED
      BY <1>0, <2>2, <3>1, <3>2 DEF StopInv, listenerVars, monitorVars, AllStopped
  <2>4. CASE Head(activeQueue) = Nothing
    <3>1. Alive' = Alive \ {w} /\ w \in Alive
      BY <1>1, <2>1, <2>4 DEF Take, Alive, TypeOK
    <3>2. Cardinality(Alive') = Cardinality(Alive) - 1
      BY <3>1, AliveCount, FS_RemoveElement
    <3>3. main \in AllStopped
      BY <2>2, <2>4 DEF StopInv
    <3>4. Ending(activeQueue, Cardinality(Alive))
      BY <3>3 DEF StopInv
    <3>5. Ending(Tail(activeQueue), Cardinality(Alive) - 1)
      BY <2>1, <2>4, <3>4, EndingGet, AliveCount DEF TypeOK
    <3>6. Ending(activeQueue', Cardinality(Alive'))
      BY <2>1, <3>2, <3>5
    <3> QED
      BY <1>0, <3>3, <3>6 DEF StopInv, listenerVars, monitorVars
  <2> QED
    BY <2>3, <2>4
<1>2. CASE \E c \in Conn : Answer(w, c) \/ AnswerBad(w, c) \/ GiveUp(w, c) \/ Yield(w, c)
  <2>1. UNCHANGED activeQueue /\ (UNCHANGED workerVars \/ BackToQueue(w)) /\ job[w] = "serving"
    BY <1>2 DEF Answer, AnswerBad, GiveUp, Yield, Serving
  <2>2. Alive' = Alive
    BY <2>1 DEF BackToQueue, Alive, TypeOK, workerVars
  <2> QED
    BY <1>0, <2>1, <2>2 DEF StopInv, listenerVars, monitorVars
<1> QED
  BY <1>1, <1>2 DEF WorkerStep

LEMMA MonitorStops == ASSUME TypeOK, OwnerInv, StopInv, Monitor PROVE StopInv'
<1>0. UNCHANGED <<listenerVars, main>> /\ Alive' = Alive /\ main \notin AllStopped
  BY DEF Monitor, Begin, Drain, DrainGet, Top, Collecting, Collect,
         CollectNone, Select, SelectRaises, Restore, RemoveRestored, KillStale,
         workerVars, Alive, StopInv
<1>1. CASE Restore /\ readable # <<>>
  <2>1. Head(readable) \in Conn /\ Head(readable) # Nothing
    BY <1>1, Get, NothingAssumption DEF TypeOK
  <2>2. ToSet(activeQueue') = ToSet(activeQueue) \cup {Head(readable)}
    BY <1>1, <2>1, PutThere DEF Restore, TypeOK
  <2> QED
    BY <1>0, <2>1, <2>2 DEF StopInv, listenerVars
<1>2. CASE ~(Restore /\ readable # <<>>)
  <2>1. UNCHANGED activeQueue
    BY <1>2 DEF Monitor, Begin, Drain, DrainGet, Top, Collecting, Collect,
         CollectNone, Select, SelectRaises, Restore, RemoveRestored, KillStale
  <2> QED
    BY <1>0, <2>1 DEF StopInv, listenerVars
<1> QED
  BY <1>1, <1>2

LEMMA MainStops == ASSUME TypeOK, StopInv, Stop \/ StopStep PROVE StopInv'
<1>0. UNCHANGED <<listener, shaking, monitor>> /\ Alive' = Alive
  BY DEF Stop, StopStep, JoinListener, StopMonitor, FlushConnections,
         PopConnection, PopFails, StopAgain, FlushQueue, GetQueued, PutNone,
         JoinMonitor, JoinWorkers, listenerVars, monitorVars, workerVars, Alive
<1>1. CASE ~JoinMonitor /\ ~JoinWorkers
  BY <1>0, <1>1 DEF Stop, StopStep, JoinListener, StopMonitor, FlushConnections,
                    PopConnection, PopFails, StopAgain, FlushQueue, GetQueued, PutNone,
                    Goto, StopInv, AllStopped
<1>2. CASE JoinMonitor
  <2>1. Ending(activeQueue', Cardinality(Alive))
    BY <1>2, EndingNones DEF JoinMonitor, StopInv, AllStopped, TypeOK
  <2> QED
    BY <1>0, <1>2, <2>1 DEF JoinMonitor, Goto, StopInv, AllStopped
<1>3. CASE JoinWorkers
  <2>1. Alive = {}
    BY <1>3 DEF JoinWorkers, Alive
  <2> QED
    BY <1>0, <1>3, <2>1 DEF JoinWorkers, Goto, StopInv, AllStopped
<1> QED
  BY <1>1, <1>2, <1>3

LEMMA NextStops == TypeOK /\ OwnerInv /\ StopInv /\ [Next]_vars => StopInv'
<1> SUFFICES ASSUME TypeOK, OwnerInv, StopInv, [Next]_vars PROVE StopInv'
  OBVIOUS
<1>1. CASE (\E c \in Conn : Client(c)) \/ UNCHANGED vars
  <2>1. UNCHANGED <<listener, shaking, activeQueue, job, monitor, main>>
    BY <1>1 DEF Client, Connect, Speak, Send, SendRest, Leave, vars, listenerVars,
                workerVars, monitorVars
  <2>2. Alive' = Alive
    BY <2>1 DEF Alive
  <2> QED
    BY <2>1, <2>2 DEF StopInv
<1> QED
  BY <1>1, ListenerStops, WorkerStops, MonitorStops, MainStops DEF Next

(* ServedAtStop: when stop returns the workers have served, or closed, all *)
(* that was queued for them, and each of them has found a None behind it.  *)
THEOREM ServedAtStop == Spec => []StopServesQueued
<1>1. TypeOK /\ Resting /\ StopInv => StopServesQueued
  <2> SUFFICES ASSUME TypeOK, Resting, StopInv, main = "stopped"
               PROVE  StopServesQueued
    BY DEF StopServesQueued
  <2>1. Alive = {} /\ Len(activeQueue) = 0
    BY FS_EmptySet DEF StopInv, AllStopped, Ending
  <2>2. activeQueue = <<>>
    BY <2>1, EmptySeq DEF TypeOK
  <2>3. shaking = Nothing /\ Served = {}
    BY <2>1 DEF Resting, StopInv, Served, Alive
  <2>4. ASSUME NEW c \in Conn, Owned(c)
        PROVE  c \in ToSet(backlog) \cup ToSet(monitorQueue) \cup connections
    BY <2>2, <2>3, <2>4, OwnedHas, NoneElements, NothingAssumption DEF Has, Watched
  <2> QED
    BY <2>2, <2>3, <2>4 DEF StopServesQueued
<1> QED
  BY <1>1, InitStops, NextStops, TypeCorrect, OwnerInvariance, RestingInvariance, PTL DEF Spec

(***************************************************************************)
(* What stop does not get out of.                                          *)
(***************************************************************************)

(* StuckForEver: once the main thread waits for a connection that nobody   *)
(* is left to put into the monitor's queue, no client, however late, gets  *)
(* it out of there: stop never returns, and the idle workers never end.    *)
THEOREM StuckForEver == Spec => [](Stuck => []Stuck)
<1>1. Stuck /\ [Next]_vars => Stuck'
  <2> SUFFICES ASSUME Stuck, [Next]_vars PROVE Stuck'
    OBVIOUS
  <2>1. \A w \in Worker : job[w] # "serving"
    BY DEF Stuck, Served
  <2>2. UNCHANGED <<main, monitorQueue, monitor, listener, activeQueue, workerVars>>
    <3>1. CASE \E c \in Conn : Client(c)
      BY <3>1 DEF Client, Connect, Speak, Send, SendRest, Leave, listenerVars, monitorVars
    <3>2. CASE Listener
      BY <3>2 DEF Stuck, Listener, Accept, Handshake, HandshakeFails, ListenerExits
    <3>3. CASE \E w \in Worker : WorkerStep(w)
      BY <2>1, <3>3 DEF Stuck, WorkerStep, Take, Answer, AnswerBad, GiveUp, Yield, Serving
    <3>4. CASE Monitor
      BY <3>4 DEF Stuck, Monitor, Begin, Drain, DrainGet, Top, Collecting, Collect,
                  CollectNone, Select, SelectRaises, Restore, RemoveRestored, KillStale
    <3>5. CASE Stop \/ StopStep
      BY <3>5 DEF Stuck, Stop, StopStep, JoinListener, StopMonitor, FlushConnections,
                  PopConnection, PopFails, StopAgain, FlushQueue, GetQueued, PutNone,
                  JoinMonitor, JoinWorkers
    <3>6. CASE UNCHANGED vars
      BY <3>6 DEF vars, listenerVars, monitorVars
    <3> QED
      BY <3>1, <3>2, <3>3, <3>4, <3>5, <3>6 DEF Next
  <2> QED
    BY <2>2, ServedKept DEF Stuck
<1> QED
  BY <1>1, PTL DEF Spec

================================================================================
