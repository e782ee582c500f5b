-------------------------------- MODULE Rocket --------------------------------
(***************************************************************************)
(* gluon/rocket.py, the server that web2py.py starts for the results web   *)
(* application: one listener on an HTTPS port, min_threads workers, the    *)
(* monitor of connections without a request, and the main thread, which    *)
(* stops them all on SIGTERM.  They share two queues, active_queue and     *)
(* monitor_queue, and the monitor's set of connections.                    *)
(*                                                                         *)
(* max_threads is 0 here, so ThreadPool.grow adds min([n, 0 - threads]),   *)
(* no thread at all, and dynamic_resize never has one to shrink: the pool  *)
(* is what start has made.                                                 *)
(***************************************************************************)
EXTENDS Naturals, Sequences, FiniteSets, SequencesExt

CONSTANTS
    Conn,           \* connections that clients may make
    Worker,         \* the threads of the pool
    Nothing,        \* None, the signal to die
    QueueSize,      \* request_queue_size: connections that wait for accept
    MaxRequests,    \* (bound) requests on each connection
    Leaver          \* (bound) connections whose client may leave

ASSUME FiniteAssumption == IsFiniteSet(Conn) /\ IsFiniteSet(Worker)
ASSUME WorkerAssumption == Worker # {}
ASSUME NothingAssumption == Nothing \notin Conn
ASSUME QueueSizeAssumption == QueueSize \in Nat
ASSUME MaxRequestsAssumption == MaxRequests \in [Conn -> Nat]
ASSUME LeaverAssumption == Leaver \subseteq Conn

VARIABLES
    \* the clients and the network
    hello,          \* hello[c]: how the client of c has begun
    wire,           \* wire[c]: the request that waits to be read
    sent,           \* sent[c]: requests begun on c
    rest,           \* rest[c]: whether the client still owes the end of one
    gone,           \* the connections whose client has closed its side
    \* the listener
    ready,          \* Listener.ready
    listener,       \* "accept", "handshake" or "exited"
    backlog,        \* connections not accepted yet
    shaking,        \* the connection wrap_socket is busy with
    \* the workers
    activeQueue,
    job,            \* job[w]: "idle", "serving" or "exited"
    conn,           \* conn[w]: the connection it serves
    \* the monitor
    monitorQueue,
    connections,    \* Monitor.connections
    active,         \* Monitor.active
    monitor,        \* where Monitor.run is
    readable,       \* what select has returned, not yet restored
    \* the main thread
    main,           \* where Rocket.stop is
    closed          \* connections that a thread has closed

clientVars == <<hello, wire, sent, rest, gone>>
listenerVars == <<ready, listener, backlog, shaking>>
workerVars == <<job, conn>>
monitorVars == <<connections, active, monitor, readable>>
vars == <<clientVars, listenerVars, activeQueue, workerVars, monitorQueue,
          monitorVars, main, closed>>

Hellos == {"none", "silent", "tls", "plain"}
MonitorStages == {"new", "drain", "drainGet", "top", "collect", "collectGet", "select",
                  "restore", "remove", "stale", "exited"}
StopStages == {"running", "joinListener", "stopMonitor", "flushConnections",
               "popConnection", "flushQueue", "getQueued", "putNone", "joinMonitor",
               "joinWorkers", "stopped", "failed"}

(* TypeOK: the clients, the threads and what they share keep to their      *)
(* values; queues hold connections and Nones only.                         *)
TypeOK ==
    /\ hello \in [Conn -> Hellos]
    /\ wire \in [Conn -> {"none", "part", "good", "bad"}]
    /\ sent \in [Conn -> Nat] /\ \A c \in Conn : sent[c] <= MaxRequests[c]
    /\ rest \in [Conn -> BOOLEAN]
    /\ gone \in SUBSET Conn
    /\ ready \in BOOLEAN
    /\ listener \in {"accept", "handshake", "exited"}
    /\ backlog \in Seq(Conn) /\ Len(backlog) <= QueueSize
    /\ shaking \in Conn \cup {Nothing}
    /\ activeQueue \in Seq(Conn \cup {Nothing})
    /\ job \in [Worker -> {"idle", "serving", "exited"}]
    /\ conn \in [Worker -> Conn \cup {Nothing}]
    /\ monitorQueue \in Seq(Conn \cup {Nothing})
    /\ connections \in SUBSET Conn
    /\ active \in BOOLEAN
    /\ monitor \in MonitorStages
    /\ readable \in Seq(Conn)
    /\ main \in StopStages
    /\ closed \in SUBSET Conn

(* Rocket.start has started all threads; the monitor's has yet to run. *)
Init ==
    /\ hello = [c \in Conn |-> "none"]
    /\ wire = [c \in Conn |-> "none"]
    /\ sent = [c \in Conn |-> 0]
    /\ rest = [c \in Conn |-> FALSE]
    /\ gone = {}
    /\ ready = TRUE /\ listener = "accept" /\ backlog = <<>> /\ shaking = Nothing
    /\ activeQueue = <<>>
    /\ job = [w \in Worker |-> "idle"]
    /\ conn = [w \in Worker |-> Nothing]
    /\ monitorQueue = <<>>
    /\ connections = {} /\ active = FALSE /\ monitor = "new" /\ readable = <<>>
    /\ main = "running"
    /\ closed = {}

(***************************************************************************)
(* Clients.  What they do after the server has closed changes nothing.     *)
(***************************************************************************)
Connect(c) ==
    /\ hello[c] = "none"
    /\ Len(backlog) < QueueSize
    /\ hello' = [hello EXCEPT ![c] = "silent"]
    /\ backlog' = Append(backlog, c)
    /\ UNCHANGED <<wire, sent, rest, gone, ready, listener, shaking, activeQueue,
                   workerVars, monitorQueue, monitorVars, main, closed>>

(* The client begins TLS, or sends plain HTTP. *)
Speak(c) ==
    /\ hello[c] = "silent" /\ c \notin gone \cup closed
    /\ \E h \in {"tls", "plain"} : hello' = [hello EXCEPT ![c] = h]
    /\ UNCHANGED <<wire, sent, rest, gone, listenerVars, activeQueue, workerVars,
                   monitorQueue, monitorVars, main, closed>>

(* A request, whole or the beginning of one *)
Send(c) ==
    /\ hello[c] = "tls" /\ c \notin gone \cup closed
    /\ wire[c] = "none" /\ ~rest[c] /\ sent[c] < MaxRequests[c]
    /\ sent' = [sent EXCEPT ![c] = @ + 1]
    /\ \E r \in {"good", "bad", "part"} :
        /\ wire' = [wire EXCEPT ![c] = r]
        /\ rest' = [rest EXCEPT ![c] = (r = "part")]
    /\ UNCHANGED <<hello, gone, listenerVars, activeQueue, workerVars,
                   monitorQueue, monitorVars, main, closed>>

(* The end of a request; alone, when the beginning was lost, it is no request. *)
SendRest(c) ==
    /\ rest[c] /\ c \notin gone \cup closed
    /\ rest' = [rest EXCEPT ![c] = FALSE]
    /\ wire' = [wire EXCEPT ![c] = IF @ = "part" THEN "good" ELSE "bad"]
    /\ UNCHANGED <<hello, sent, gone, listenerVars, activeQueue, workerVars,
                   monitorQueue, monitorVars, main, closed>>

Leave(c) ==
    /\ c \in Leaver
    /\ hello[c] # "none" /\ c \notin gone \cup closed
    /\ gone' = gone \cup {c}
    /\ rest' = [rest EXCEPT ![c] = FALSE]
    /\ UNCHANGED <<hello, wire, sent, listenerVars, activeQueue, workerVars,
                   monitorQueue, monitorVars, main, closed>>

Client(c) == Connect(c) \/ Speak(c) \/ Send(c) \/ SendRest(c) \/ Leave(c)

(***************************************************************************)
(* The listener.                                                           *)
(***************************************************************************)
Accept ==
    /\ listener = "accept" /\ backlog # <<>>
    /\ listener' = "handshake"
    /\ shaking' = Head(backlog)
    /\ backlog' = Tail(backlog)
    /\ UNCHANGED <<clientVars, ready, activeQueue, workerVars, monitorQueue,
                   monitorVars, main, closed>>

(* wrap_socket returns when the client has spoken or left, without a limit *)
(* of time.  After an SSLError the socket goes on as it is.                *)
Handshake ==
    /\ listener = "handshake"
    /\ hello[shaking] # "silent" \/ shaking \in gone
    /\ activeQueue' = Append(activeQueue, shaking)
    /\ listener' = "accept"
    /\ shaking' = Nothing
    /\ UNCHANGED <<clientVars, ready, backlog, workerVars, monitorQueue,
                   monitorVars, main, closed>>

(* Any other error is logged and the socket forgotten. *)
HandshakeFails ==
    /\ listener = "handshake" /\ shaking \in gone
    /\ listener' = "accept"
    /\ shaking' = Nothing
    /\ UNCHANGED <<clientVars, ready, backlog, activeQueue, workerVars,
                   monitorQueue, monitorVars, main, closed>>

(* ready is looked at only when nobody has connected for a second. *)
ListenerExits ==
    /\ listener = "accept" /\ backlog = <<>> /\ ~ready
    /\ listener' = "exited"
    /\ UNCHANGED <<clientVars, ready, backlog, shaking, activeQueue, workerVars,
                   monitorQueue, monitorVars, main, closed>>

Listener == Accept \/ Handshake \/ HandshakeFails \/ ListenerExits

(***************************************************************************)
(* The workers.                                                            *)
(***************************************************************************)

(* active_queue.get(); a client without TLS gets 400 and is closed. *)
Take(w) ==
    /\ job[w] = "idle" /\ activeQueue # <<>>
    /\ activeQueue' = Tail(activeQueue)
    /\ LET c == Head(activeQueue) IN
       IF c = Nothing
       THEN /\ job' = [job EXCEPT ![w] = "exited"]
            /\ UNCHANGED <<conn, closed>>
       ELSE IF hello[c] = "tls"
       THEN /\ job' = [job EXCEPT ![w] = "serving"]
            /\ conn' = [conn EXCEPT ![w] = c]
            /\ UNCHANGED closed
       ELSE closed' = closed \cup {c} /\ UNCHANGED <<job, conn>>
    /\ UNCHANGED <<clientVars, listenerVars, monitorQueue, monitorVars, main>>

Serving(w, c) == job[w] = "serving" /\ conn[w] = c

(* The rest of a request will never come; its headers may look complete.   *)
CutOff(c) == wire[c] = "part" /\ c \in gone

Read(c) == wire' = [wire EXCEPT ![c] = "none"]

BackToQueue(w) ==
    /\ job' = [job EXCEPT ![w] = "idle"]
    /\ conn' = [conn EXCEPT ![w] = Nothing]

(* run_app: the request is read and answered; keep-alive, or close. *)
Answer(w, c) ==
    /\ Serving(w, c) /\ c \notin closed
    /\ wire[c] = "good" \/ CutOff(c)
    /\ Read(c)
    /\ \/ UNCHANGED <<workerVars, closed>>
       \/ BackToQueue(w) /\ closed' = closed \cup {c}
    /\ UNCHANGED <<hello, sent, rest, gone, listenerVars, activeQueue,
                   monitorQueue, monitorVars, main>>

(* BadRequest: 400, and out of the loop.  Nothing closes the connection    *)
(* but the collector of garbage, when it gets there.                       *)
AnswerBad(w, c) ==
    /\ Serving(w, c) /\ c \notin closed
    /\ wire[c] = "bad" \/ CutOff(c)
    /\ Read(c)
    /\ BackToQueue(w)
    /\ UNCHANGED <<hello, sent, rest, gone, listenerVars, activeQueue,
                   monitorQueue, monitorVars, main, closed>>

(* SocketClosed or a socket error: the client has left, or another thread  *)
(* has closed the connection.                                              *)
GiveUp(w, c) ==
    /\ Serving(w, c)
    /\ c \in closed \cup gone
    /\ BackToQueue(w)
    /\ closed' = closed \cup {c}
    /\ UNCHANGED <<clientVars, listenerVars, activeQueue, monitorQueue,
                   monitorVars, main>>

(* Mutant of Yield: the worker goes on with the next connection as well.   *)
YieldToBoth(w, c) ==
    /\ Serving(w, c) /\ c \notin closed
    /\ wire[c] \in {"none", "part"} /\ c \notin gone
    /\ Read(c)
    /\ BackToQueue(w)
    /\ monitorQueue' = Append(monitorQueue, c)
    /\ activeQueue' = Append(activeQueue, c)
    /\ UNCHANGED <<hello, sent, rest, gone, listenerVars, monitorVars,
                   main, closed>>

(* Mutant of Yield: a timeout ends the loop like any other error. *)
YieldToNobody(w, c) ==
    /\ Serving(w, c) /\ c \notin closed
    /\ wire[c] \in {"none", "part"} /\ c \notin gone
    /\ Read(c)
    /\ BackToQueue(w)
    /\ UNCHANGED <<hello, sent, rest, gone, listenerVars, activeQueue,
                   monitorQueue, monitorVars, main, closed>>

(* SocketTimeout, as nothing comes, or an SSLError that says "timed out",  *)
(* as the client does not take the headers or the end of its answer: off   *)
(* to the monitor; what was read of the request is lost.                   *)
Yield(w, c) ==
    /\ Serving(w, c) /\ c \notin closed
    /\ \/ wire[c] \in {"none", "part"} /\ c \notin gone
       \/ wire[c] = "good" \/ CutOff(c)
    /\ Read(c)
    /\ BackToQueue(w)
    /\ monitorQueue' = Append(monitorQueue, c)
    /\ UNCHANGED <<hello, sent, rest, gone, listenerVars, activeQueue,
                   monitorVars, main, closed>>

WorkerStep(w) ==
    \/ Take(w)
    \/ \E c \in Conn : Answer(w, c) \/ AnswerBad(w, c) \/ GiveUp(w, c) \/ Yield(w, c)

(***************************************************************************)
(* The monitor.                                                            *)
(***************************************************************************)

(* The first statement of run *)
Begin ==
    /\ monitor = "new"
    /\ active' = TRUE
    /\ monitor' = "drain"
    /\ UNCHANGED <<clientVars, listenerVars, activeQueue, workerVars, monitorQueue,
                   connections, readable, main, closed>>

(* "We need to make sure the queue is empty before we start".  Between     *)
(* empty and get, here as in the loop below, another thread may take what  *)
(* has been seen; get waits for the next.                                  *)
Drain ==
    /\ monitor = "drain"
    /\ monitor' = IF monitorQueue = <<>> THEN "top" ELSE "drainGet"
    /\ UNCHANGED <<clientVars, listenerVars, activeQueue, workerVars, monitorQueue,
                   connections, active, readable, main, closed>>

DrainGet ==
    /\ monitor = "drainGet" /\ monitorQueue # <<>>
    /\ monitorQueue' = Tail(monitorQueue)
    /\ monitor' = "drain"
    /\ UNCHANGED <<clientVars, listenerVars, activeQueue, workerVars, connections,
                   active, readable, main, closed>>

Top ==
    /\ monitor = "top"
    /\ monitor' = IF active THEN "collect" ELSE "exited"
    /\ UNCHANGED <<clientVars, listenerVars, activeQueue, workerVars, monitorQueue,
                   connections, active, readable, main, closed>>

(* while not self.monitor_queue.empty() *)
Collecting ==
    /\ monitor = "collect"
    /\ monitor' = IF monitorQueue = <<>> THEN "select" ELSE "collectGet"
    /\ UNCHANGED <<clientVars, listenerVars, activeQueue, workerVars, monitorQueue,
                   connections, active, readable, main, closed>>

(* Mutant of Collect: None is not told from a connection. *)
CollectAny ==
    /\ monitor = "collectGet"
    /\ monitorQueue # <<>>
    /\ connections' = connections \cup {Head(monitorQueue)}
    /\ monitorQueue' = Tail(monitorQueue)
    /\ monitor' = "collect"
    /\ UNCHANGED <<clientVars, listenerVars, activeQueue, workerVars, active,
                   readable, main, closed>>

(* A queued connection joins the selection pool. *)
Collect ==
    /\ monitor = "collectGet"
    /\ monitorQueue # <<>> /\ Head(monitorQueue) # Nothing
    /\ connections' = connections \cup {Head(monitorQueue)}
    /\ monitorQueue' = Tail(monitorQueue)
    /\ monitor' = "collect"
    /\ UNCHANGED <<clientVars, listenerVars, activeQueue, workerVars, active,
                   readable, main, closed>>

(* None: the monitor calls stop itself, which puts another one.  The main  *)
(* thread waits for its end by then.                                       *)
CollectNone ==
    /\ monitor = "collectGet"
    /\ monitorQueue # <<>> /\ Head(monitorQueue) = Nothing
    /\ active' = FALSE
    /\ closed' = closed \cup connections \cup (ToSet(monitorQueue) \ {Nothing})
    /\ connections' = {}
    /\ monitorQueue' = <<Nothing>>
    /\ monitor' = "select"
    /\ UNCHANGED <<clientVars, listenerVars, activeQueue, workerVars, readable, main>>

IsReadable(c) == wire[c] # "none" \/ c \in gone

(* Mutant of Select: list_changed is not set, conn_list stays as it was. *)
SelectOldList ==
    /\ monitor = "select"
    /\ readable' = <<>>
    /\ monitor' = IF active THEN "restore" ELSE "exited"
    /\ UNCHANGED <<clientVars, listenerVars, activeQueue, workerVars, monitorQueue,
                   connections, active, main, closed>>

(* select returns those with something to read, in any order. *)
Select ==
    /\ monitor = "select"
    /\ IF active
       THEN /\ \E q \in SetToSeqs({c \in connections : IsReadable(c)}) : readable' = q
            /\ monitor' = "restore"
       ELSE monitor' = "exited" /\ UNCHANGED readable
    /\ UNCHANGED <<clientVars, listenerVars, activeQueue, workerVars, monitorQueue,
                   connections, active, main, closed>>

(* select raises, as for a descriptor beyond its limit; while the server   *)
(* runs nothing catches that, and the thread dies.                         *)
SelectRaises ==
    /\ monitor = "select" /\ active /\ connections # {}
    /\ monitor' = "exited"
    /\ UNCHANGED <<clientVars, listenerVars, activeQueue, workerVars, monitorQueue,
                   connections, active, readable, main, closed>>

Restore ==
    /\ monitor = "restore"
    /\ IF readable = <<>> THEN monitor' = "stale" /\ UNCHANGED activeQueue
       ELSE /\ activeQueue' = Append(activeQueue, Head(readable))
            /\ monitor' = "remove"
    /\ UNCHANGED <<clientVars, listenerVars, workerVars, monitorQueue, connections,
                   active, readable, main, closed>>

(* Mutant of RemoveRestored: a restored connection stays in the selection pool. *)
RemoveNothing ==
    /\ monitor = "remove"
    /\ monitor' = "restore"
    /\ readable' = Tail(readable)
    /\ UNCHANGED <<clientVars, listenerVars, activeQueue, workerVars, monitorQueue,
                   connections, active, main, closed>>

(* connections.remove(r); r is missing when stop has popped it meanwhile.  *)
RemoveRestored ==
    /\ monitor = "remove"
    /\ connections' = connections \ {Head(readable)}
    /\ monitor' = IF Head(readable) \in connections THEN "restore" ELSE "exited"
    /\ readable' = IF Head(readable) \in connections THEN Tail(readable) ELSE <<>>
    /\ UNCHANGED <<clientVars, listenerVars, activeQueue, workerVars, monitorQueue,
                   active, main, closed>>

(* Those without a request for too long, if one has come by now or not, are *)
(* closed.  If stop pops connections meanwhile the thread dies here instead *)
(* of at the top of its loop, where it is going to end.                     *)
KillStale ==
    /\ monitor = "stale"
    /\ \E S \in SUBSET connections :
        /\ connections' = connections \ S
        /\ closed' = closed \cup S
    /\ monitor' = "top"
    /\ UNCHANGED <<clientVars, listenerVars, activeQueue, workerVars, monitorQueue,
                   active, readable, main>>

Monitor ==
    \/ Begin \/ Drain \/ DrainGet \/ Top
    \/ Collecting \/ Collect \/ CollectNone
    \/ Select \/ SelectRaises \/ Restore \/ RemoveRestored \/ KillStale

(***************************************************************************)
(* The main thread: Rocket.stop, Monitor.stop and ThreadPool.stop.         *)
(***************************************************************************)
Goto(stage) == main' = stage

(* SIGTERM, or start returns self.stop() as the monitor is not alive. *)
Stop ==
    /\ main = "running"
    /\ ready' = FALSE
    /\ Goto("joinListener")
    /\ UNCHANGED <<clientVars, listener, backlog, shaking, activeQueue, workerVars,
                   monitorQueue, monitorVars, closed>>

JoinListener ==
    /\ main = "joinListener" /\ listener = "exited"
    /\ Goto("stopMonitor")
    /\ UNCHANGED <<clientVars, listenerVars, activeQueue, workerVars, monitorQueue,
                   monitorVars, closed>>

StopMonitor ==
    /\ main = "stopMonitor"
    /\ active' = FALSE
    /\ Goto("flushConnections")
    /\ UNCHANGED <<clientVars, listenerVars, activeQueue, workerVars, monitorQueue,
                   connections, monitor, readable, closed>>

(* while self.connections *)
FlushConnections ==
    /\ main = "flushConnections"
    /\ Goto(IF connections = {} THEN "flushQueue" ELSE "popConnection")
    /\ UNCHANGED <<clientVars, listenerVars, activeQueue, workerVars, monitorQueue,
                   monitorVars, closed>>

PopConnection ==
    /\ main = "popConnection"
    /\ \E c \in connections :
        /\ connections' = connections \ {c}
        /\ closed' = closed \cup {c}
    /\ Goto("flushConnections")
    /\ UNCHANGED <<clientVars, listenerVars, activeQueue, workerVars, monitorQueue,
                   active, monitor, readable>>

(* The monitor has removed the last one meanwhile: KeyError, out of stop.  *)
PopFails ==
    /\ main = "popConnection" /\ connections = {}
    /\ Goto("failed")
    /\ UNCHANGED <<clientVars, listenerVars, activeQueue, workerVars, monitorQueue,
                   monitorVars, closed>>

(* start, where the signal has interrupted the sleep, logs the error, goes *)
(* on waiting for the end of the monitor and then calls stop once more;    *)
(* the listener has no thread any more.                                    *)
StopAgain ==
    /\ main = "failed" /\ monitor = "exited"
    /\ Goto("stopMonitor")
    /\ UNCHANGED <<clientVars, listenerVars, activeQueue, workerVars, monitorQueue,
                   monitorVars, closed>>

(* while not self.monitor_queue.empty() *)
FlushQueue ==
    /\ main = "flushQueue"
    /\ Goto(IF monitorQueue = <<>> THEN "putNone" ELSE "getQueued")
    /\ UNCHANGED <<clientVars, listenerVars, activeQueue, workerVars, monitorQueue,
                   monitorVars, closed>>

(* get waits, when the monitor has taken the last one meanwhile. *)
GetQueued ==
    /\ main = "getQueued" /\ monitorQueue # <<>>
    /\ monitorQueue' = Tail(monitorQueue)
    /\ closed' = closed \cup ({Head(monitorQueue)} \ {Nothing})
    /\ Goto("flushQueue")
    /\ UNCHANGED <<clientVars, listenerVars, activeQueue, workerVars, monitorVars>>

(* Mutant of PutNone: only Monitor.active tells the monitor to end. *)
NoSentry ==
    /\ main = "putNone"
    /\ Goto("joinMonitor")
    /\ UNCHANGED <<clientVars, listenerVars, activeQueue, workerVars, monitorQueue,
                   monitorVars, closed>>

(* "Place a None sentry value to cause the monitor to die" *)
PutNone ==
    /\ main = "putNone"
    /\ monitorQueue' = Append(monitorQueue, Nothing)
    /\ Goto("joinMonitor")
    /\ UNCHANGED <<clientVars, listenerVars, activeQueue, workerVars, monitorVars,
                   closed>>

Nones == [i \in 1..Cardinality(Worker) |-> Nothing]

(* Mutant of JoinMonitor: the Nones go before what is queued. *)
NonesFirst ==
    /\ main = "joinMonitor" /\ monitor = "exited"
    /\ activeQueue' = Nones \o activeQueue
    /\ Goto("joinWorkers")
    /\ UNCHANGED <<clientVars, listenerVars, workerVars, monitorQueue, monitorVars, closed>>

(* ThreadPool.stop: a None for each thread, behind what is queued *)
JoinMonitor ==
    /\ main = "joinMonitor" /\ monitor = "exited"
    /\ activeQueue' = activeQueue \o Nones
    /\ Goto("joinWorkers")
    /\ UNCHANGED <<clientVars, listenerVars, workerVars, monitorQueue, monitorVars, closed>>

JoinWorkers ==
    /\ main = "joinWorkers" /\ \A w \in Worker : job[w] = "exited"
    /\ Goto("stopped")
    /\ UNCHANGED <<clientVars, listenerVars, activeQueue, workerVars, monitorQueue,
                   monitorVars, closed>>

StopStep ==
    \/ JoinListener \/ StopMonitor
    \/ FlushConnections \/ PopConnection \/ PopFails \/ StopAgain
    \/ FlushQueue \/ GetQueued \/ PutNone
    \/ JoinMonitor \/ JoinWorkers

Next ==
    \/ \E c \in Conn : Client(c)
    \/ Listener
    \/ \E w \in Worker : WorkerStep(w)
    \/ Monitor
    \/ Stop \/ StopStep

Spec == Init /\ [][Next]_vars

(* start looks every second whether the monitor is alive. *)
MonitorDied == monitor = "exited" /\ Stop

(* The threads run; timeouts pass.  Clients and signals need not come.     *)
FairSpec ==
    /\ Spec
    /\ WF_vars(Listener)
    /\ \A w \in Worker : WF_vars(WorkerStep(w))
    /\ WF_vars(Monitor)
    /\ WF_vars(StopStep)
    /\ WF_vars(MonitorDied)

(***************************************************************************)
(* Properties.                                                             *)
(***************************************************************************)

(* Between putting a connection back and removing it, the monitor still    *)
(* has it in its set.                                                      *)
Watched == IF monitor = "remove" THEN connections \ {Head(readable)} ELSE connections

Served == {conn[w] : w \in {v \in Worker : job[v] = "serving"}}

(* Each connection once, in whatever order *)
Once(q) == \A i, j \in DOMAIN q : q[i] = q[j] /\ q[i] # Nothing => i = j

(* Where a connection is that somebody is going to look at *)
Places ==
    [backlog   |-> ToSet(backlog),
     handshake |-> {shaking} \ {Nothing},
     active    |-> ToSet(activeQueue) \ {Nothing},
     worker    |-> Served,
     queued    |-> ToSet(monitorQueue) \ {Nothing},
     watched   |-> Watched]

(* OneOwner: a connection is with one thread, or in one queue, and there   *)
(* once: no two workers answer the same client, no request is read twice,  *)
(* and no thread waits on what another is about to use.                    *)
OneOwner ==
    /\ Once(backlog) /\ Once(activeQueue) /\ Once(monitorQueue)
    /\ \A v, w \in Worker :
          job[v] = "serving" /\ job[w] = "serving" /\ conn[v] = conn[w] => v = w
    /\ LET P == Places IN \A i, j \in DOMAIN P : i # j => P[i] \cap P[j] = {}

Owned(c) == LET P == Places IN \E i \in DOMAIN P : c \in P[i]

(* A connection that is open and that nobody will look at again; it closes *)
(* when the last worker to have had it takes another.                      *)
Forgotten(c) == hello[c] # "none" /\ c \notin closed /\ ~Owned(c)

(* OnlyBadForgotten: a connection gets out of everybody's hands only after *)
(* a bad request, when its client breaks the handshake, or in the queue    *)
(* the monitor empties as it starts; not by a timeout, and not by stopping.*)
OnlyBadForgotten ==
    [][\A c \in Conn : Owned(c) /\ Forgotten(c)' =>
          \/ c \in Served /\ (wire[c] = "bad" \/ CutOff(c))
          \/ c = shaking /\ c \in gone
          \/ monitor = "drainGet"]_vars

(* NotClosedWhileServed: while a worker serves a connection no other       *)
(* thread closes it, be it stale or not, unless the server is stopping.    *)
NotClosedWhileServed ==
    [][\A w \in Worker, c \in Conn :
          Serving(w, c) /\ c \in closed' \ closed =>
              ~Serving(w, c)' \/ main = "popConnection"]_vars

(* StopServesQueued: when stop returns every worker has ended, and what    *)
(* was queued for them before has been served or closed; open connections  *)
(* are left only among those that wait for a request, and the forgotten.   *)
StopServesQueued ==
    main = "stopped" =>
        /\ activeQueue = <<>> /\ shaking = Nothing /\ Served = {}
        /\ \A c \in Conn : Owned(c) /\ c \notin closed =>
              c \in ToSet(backlog) \cup ToSet(monitorQueue) \cup connections

HandshakesEnd == []<>(listener # "handshake")

(* RequestsAnswered: a request on a connection somebody has is answered,   *)
(* or the connection closed, as long as no client stays silent for ever in *)
(* its handshake: it is not lost between worker, monitor and queues.       *)
RequestsAnswered ==
    HandshakesEnd =>
        \A c \in Conn :
            wire[c] \in {"good", "bad"} /\ main = "running"
            ~> wire[c] = "none" \/ c \in closed \/ Forgotten(c) \/ main # "running"

(* The main thread waits in get for a connection that the monitor has      *)
(* taken, and nobody is left to put one: no monitor, no listener, and no   *)
(* worker that has anything to do.                                         *)
Stuck ==
    /\ main = "getQueued" /\ monitorQueue = <<>>
    /\ monitor = "exited" /\ listener = "exited"
    /\ activeQueue = <<>> /\ Served = {}

(* StopEnds: if no client is silent for ever in its handshake, and the     *)
(* monitor has begun before it is stopped (else it sets active again, and  *)
(* takes the None off its queue), stop ends in one of two ways: with all   *)
(* threads, or stuck where the monitor and stop have emptied one queue     *)
(* together.  It ends in the first way if the monitor has ended before,    *)
(* and after the KeyError of a set that both of them have emptied.         *)
StopEnds ==
    HandshakesEnd =>
        /\ main \in {"joinListener", "stopMonitor"} /\ monitor # "new"
           ~> main = "stopped" \/ Stuck
        /\ (main = "stopMonitor" /\ monitor = "exited") \/ (main = "failed" /\ ~active)
           ~> main = "stopped"

==============================================================================
