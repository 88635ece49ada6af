--------------------------- MODULE EventDelivery ---------------------------
(***************************************************************************)
(* The way of an event from the disk to the clients: the events of one job *)
(* and of the agent run of its incident (JobEventLog, EventWriter), the    *)
(* event bus, the broadcaster with a bounded queue and a writer task per    *)
(* subscription (service/transport/ipc_broadcaster.py), event.subscribe     *)
(* with its replay (service/app.py), the connections and the clients.       *)
(*                                                                         *)
(* An action is a stretch of code between two awaits that may suspend.      *)
(***************************************************************************)
EXTENDS JobEventLog

CONSTANTS
    Terminals,     \* TUIs: they follow a job and a run, and replay both
    Editors,       \* VS Code windows: one global subscription, no replay
    Requests,      \* concurrent event.subscribe commands of one client
    Plain,         \* the run's events a terminal does not know again, by their numbers:
                   \* step.started, llm.model_selected and llm.usage
    QueueSize,     \* _DEFAULT_QUEUE_SIZE
    HighWater,     \* frames a transport buffers before drain() suspends
    MaxAttempts, MaxNotes, MaxTokens, MaxRunEvents,  \* bounds on what is published
    MaxFailures,   \* bound: crashes and stops of the daemon, broken connections
    MaxSubscribes, \* bound: subscriptions to a job on one connection
    Talkers,       \* bound: the clients that send other commands, and no more
    MaxAnswers     \* of them when a connection has brought that many responses

ASSUME DeliveryAssumption ==
    /\ Terminals \cap Editors = {}
    /\ Plain \subseteq Nat
    /\ QueueSize \in Nat \ {0}      \* the constructor raises otherwise
    /\ HighWater \in Nat
    /\ {MaxAttempts, MaxNotes, MaxTokens, MaxRunEvents,
        MaxFailures, MaxSubscribes, MaxAnswers} \subseteq Nat

VARIABLES
    daemon,        \* "up", "stopping", "down", "recovering"
    job,           \* job.json: "idle", "created", "running", "ended", "dead"
    unpublished,   \* seq of the terminal event _watch_job has yet to publish, or 0
    attempts,      \* launches so far (bound)
    runLog,        \* number of events in the run's events.jsonl
    runAlive,      \* the run is still going on in this daemon
    notes, tokens, \* incident and display events published so far (bounds)
    sub,           \* sub[c][f]: the subscription of family f of c's writer, or NoSub
    issued,        \* subscription ids issued so far
    request,       \* request[c][r]: an event.subscribe command under way
    conn,          \* conn[c]: "open", "closing" (closed by the daemon), "none",
                   \* "left" (the terminal's _connection_loop is over)
    wire,          \* wire[c]: frames written to c and not yet read
    cursor,        \* cursor[c]: _job_event_seq of terminal c
    shown,         \* shown[c]: run events terminal c has shown (_seen_agent_events)
    again,         \* again[c]: run events terminal c has shown more than once
    subscribes,    \* subscribes[c][f]: subscriptions c asked for on this connection
    answered,      \* answered[c]: responses written to c on this connection
    pub,           \* history: state events published to a family since start-up
    written,       \* history: written[c][f]: the last of them a subscription wrote
    failures       \* bound

clientVars == <<cursor, shown, again, subscribes>>
jobVars    == <<log, cache, acked, job, unpublished, attempts>>
runVars    == <<runLog, runAlive, notes, tokens>>
bounds     == <<failures>>
vars == <<log, cache, acked, daemon, job, unpublished, attempts, runLog, runAlive,
          notes, tokens, sub, issued, request, conn, wire, cursor, shown, again,
          subscribes, answered, pub, written, failures>>

Clients  == Terminals \cup Editors
Families == {"job", "run", "global"}
Events   == {"job", "incident", "run", "token"}
Kinds    == Events \cup {"response"}

\* The subscriptions a client keeps; _scope_family names the unit that a new
\* subscription replaces.
FamiliesOf(c) == IF c \in Terminals THEN {"job", "run"} ELSE {"global"}

\* _matches_scope and _matches_topic with the topics the clients send.
Matches(kind, f) ==
    \/ f \in {"job", "global"} /\ kind \in {"job", "incident"}
    \/ f = "run" /\ kind \in {"run", "token"}

\* _DROPPABLE_EVENT_TYPES: here "run" stands for the other events of a run.
Droppable(e) == e.kind = "token"

Frame(kind, n) == [kind |-> kind, n |-> n]
Response       == Frame("response", 0)
Frames    == [kind : Kinds, n : Nat]
Queueable == [kind : Events, n : Nat, stamp : Nat]

NoSub    == [pc |-> "none"]
Idle     == [pc |-> "free"]
NoEvents == <<>>

\* A writer task has an event in hand from queue.get() to the end of drain().
SubStates == [pc : {"get", "lock", "drain"}, id : Nat, ready : BOOLEAN,
              queue : Seq(Queueable), hand : Seq(Queueable)]
RequestStates ==
    [pc : {"sent"}, family : Families, after : Nat]
        \cup [pc : {"lock", "drain"}, family : Families, id : Nat, todo : Seq(Frames)]

Live(c, f) == sub[c][f] # NoSub

\* write_lock, shared by all subscriptions of one writer: held by whoever has
\* written a frame and not yet drained.
LockFree(c) ==
    /\ \A f \in FamiliesOf(c) : sub[c][f].pc # "drain"
    /\ \A r \in Requests : request[c][r].pc # "drain"

\* Mutation: a frame is written and not drained.
DrainedAlways(c) == TRUE

\* drain() returns when the transport has room again.
Drained(c) == Len(wire[c]) <= HighWater

-----------------------------------------------------------------------------
(***************************************************************************)
(* The broadcaster.                                                        *)
(***************************************************************************)

Full(s) == Len(s.queue) >= QueueSize

\* Mutation: the earliest event is evicted whatever it is.
EvictedFirst(q) == Tail(q)

\* _evict_droppable: the queue without its earliest display event.
Evicted(q) ==
    LET i == CHOOSE k \in 1..Len(q) :
                /\ Droppable(q[k])
                /\ \A j \in 1..(k-1) : ~Droppable(q[j])
    IN  SubSeq(q, 1, i - 1) \o SubSeq(q, i + 1, Len(q))

HasDroppable(q) == \E i \in 1..Len(q) : Droppable(q[i])

\* A state event that finds nothing but state events: the client is too slow.
Overflows(s, e) == Full(s) /\ ~Droppable(e) /\ ~HasDroppable(s.queue)

\* put_nowait; when full, drop a display event or evict one for a state event
\* (with none to evict the client has been cut off: Overflows).
Queued(s, e) ==
    IF ~Full(s) THEN [s EXCEPT !.queue = Append(@, e)]
    ELSE IF Droppable(e) \/ ~HasDroppable(s.queue) THEN s
    ELSE [s EXCEPT !.queue = Append(Evicted(@), e)]

\* _remove_writer and close() for a set of clients: their subscriptions go,
\* their writer tasks are cancelled, and a replay under way writes to nobody.
Cut(C, after) ==
    /\ sub'     = [c \in Clients |-> IF c \in C THEN [f \in FamiliesOf(c) |-> NoSub] ELSE after[c]]
    /\ request' = [c \in Clients |-> IF c \in C THEN [r \in Requests |-> Idle] ELSE request[c]]

\* EventBus.publish and IpcEventBroadcaster.handle: nothing in them suspends.
Publish(kind, n) ==
    LET state   == ~Droppable(Frame(kind, n))
        event(f) == [kind |-> kind, n |-> n, stamp |-> IF state THEN pub[f] + 1 ELSE 0]
        hit(c, f) == Live(c, f) /\ Matches(kind, f)
        slow    == {c \in Clients : \E f \in FamiliesOf(c) :
                        hit(c, f) /\ Overflows(sub[c][f], event(f))}
    IN  /\ Cut(slow, [c \in Clients |-> [f \in FamiliesOf(c) |->
                        IF hit(c, f) /\ c \notin slow THEN Queued(sub[c][f], event(f))
                                                       ELSE sub[c][f]]])
        /\ conn' = [c \in Clients |-> IF c \in slow THEN "closing" ELSE conn[c]]
        /\ pub'  = [f \in Families |-> IF state /\ Matches(kind, f) THEN pub[f] + 1 ELSE pub[f]]
        /\ UNCHANGED <<issued, wire, answered, clientVars, written>>

\* _write_loop: take an event, wait for the lock, write and drain.
WriterGet(c, f) ==
    /\ Live(c, f)
    /\ sub[c][f].pc = "get"
    /\ sub[c][f].ready
    /\ sub[c][f].queue # <<>>
    /\ sub' = [sub EXCEPT ![c][f].pc = "lock",
                          ![c][f].hand = <<Head(sub[c][f].queue)>>,
                          ![c][f].queue = Tail(@)]
    /\ UNCHANGED <<jobVars, runVars, bounds, clientVars, daemon, issued, request, conn, wire,
                   answered, pub, written>>

WriterWrite(c, f) ==
    /\ Live(c, f)
    /\ sub[c][f].pc = "lock"
    /\ LockFree(c)
    /\ LET e == Head(sub[c][f].hand) IN
        /\ wire' = [wire EXCEPT ![c] = Append(@, Frame(e.kind, e.n))]
        /\ written' = IF Droppable(e) THEN written ELSE [written EXCEPT ![c][f] = e.stamp]
    /\ sub' = [sub EXCEPT ![c][f].pc = "drain", ![c][f].hand = <<>>]
    /\ UNCHANGED <<jobVars, runVars, bounds, clientVars, daemon, issued, request, conn, answered,
                   pub>>

WriterDrained(c, f) ==
    /\ Live(c, f)
    /\ sub[c][f].pc = "drain"
    /\ Drained(c)
    /\ sub' = [sub EXCEPT ![c][f].pc = "get"]
    /\ UNCHANGED <<jobVars, runVars, bounds, clientVars, daemon, issued, request, conn, wire,
                   answered, pub, written>>

-----------------------------------------------------------------------------
(***************************************************************************)
(* event.subscribe.                                                        *)
(***************************************************************************)

\* The events of a numbered log whose number is greater than n.
EventsAfter(rows, n) ==
    LET kept[i \in 0..Len(rows)] ==
            IF i = 0 THEN NoEvents
            ELSE IF rows[i] > n THEN Append(kept[i-1], rows[i]) ELSE kept[i-1]
    IN  kept[Len(rows)]

JobFrames(seqs) == [i \in 1..Len(seqs) |-> Frame("job", seqs[i])]

\* Mutation: the replay starts one event too late.
ReplaySkips(f, after) ==
    CASE f = "job" -> JobFrames(EventsAfter(ReadEvents(log), after + 1))
      [] f = "run" -> [i \in 1..runLog |-> Frame("run", i)]
      [] f = "global" -> NoEvents

\* What is replayed: read from the disk in the same stretch that registers
\* the subscription (_replay_job_events, _replay_events).
\* The interrupted event of a job that never had an attempt names none and
\* _canonical_job_event leaves it out.
Replay(f, after) ==
    CASE f = "job" /\ job = "dead" -> NoEvents
      [] f = "job" /\ job # "dead" -> JobFrames(EventsAfter(ReadEvents(log), after))
      [] f = "run" -> [i \in 1..runLog |-> Frame("run", i)]
      [] f = "global" -> NoEvents

\* A client sends the command: a terminal once on every connection and again
\* when its user re-attaches, with the cursor it has now.
SendSubscribe(c, f, r) ==
    /\ conn[c] = "open"
    /\ request[c][r] = Idle
    /\ subscribes[c][f] < IF f = "job" THEN MaxSubscribes ELSE 1
    /\ request' = [request EXCEPT ![c][r] =
            [pc |-> "sent", family |-> f, after |-> IF f = "job" THEN cursor[c] ELSE 0]]
    /\ subscribes' = [subscribes EXCEPT ![c][f] = @ + 1]
    /\ UNCHANGED <<jobVars, runVars, bounds, daemon, sub, issued, conn, wire, answered, cursor,
                   shown, again, pub, written>>

\* SocketServer._send: a response goes to the same transport, whoever holds
\* the lock of the subscriptions; what waits in its drain() is only this task.
Answer(c) ==
    /\ wire' = [wire EXCEPT ![c] = Append(@, Response)]
    /\ answered' = [answered EXCEPT ![c] = @ + 1]

\* The answer to any other command of the client.
Respond(c) ==
    /\ conn[c] = "open"
    /\ c \in Talkers
    /\ answered[c] < MaxAnswers
    /\ Answer(c)
    /\ UNCHANGED <<jobVars, runVars, bounds, clientVars, daemon, sub, issued, request, conn,
                   pub, written>>

\* subscribe: a new subscription waits behind its barrier unless nothing is
\* to be replayed.
Registered(f, id) ==
    [pc |-> "get", id |-> id, ready |-> f = "global", queue |-> NoEvents, hand |-> NoEvents]

\* _subscribe_handler up to its first await: replace the subscription of the
\* same family, register the new one behind its barrier, read the history;
\* with nothing to replay the response follows at once.
Subscribe(c, r) ==
    /\ request[c][r].pc = "sent"
    /\ LET f == request[c][r].family
       IN  /\ issued' = issued + 1
           /\ sub' = [sub EXCEPT ![c][f] = Registered(f, issued + 1)]
           /\ written' = [written EXCEPT ![c][f] = pub[f]]
           /\ request' = [request EXCEPT ![c][r] =
                IF f # "global" THEN [pc |-> "lock", family |-> f, id |-> issued + 1,
                                 todo |-> Replay(f, request[c][r].after)]
                ELSE Idle]
           /\ IF f # "global" THEN UNCHANGED <<wire, answered>> ELSE Answer(c)
    /\ UNCHANGED <<jobVars, runVars, bounds, clientVars, daemon, conn, pub>>

\* Mutation: the barrier is not lifted.
ActivatedNever(c, f, id) == sub

\* activate: only the subscription of that id, if it is still there.
Activated(c, f, id) ==
    IF Live(c, f) /\ sub[c][f].id = id THEN [sub EXCEPT ![c][f].ready = TRUE] ELSE sub

\* replay under the lock: one frame after the other, each drained; then the
\* barrier is lifted and the command answered.
ReplayStep(c, r) ==
    LET q == request[c][r] IN
    /\ \/ q.pc = "lock"  /\ LockFree(c)
       \/ q.pc = "drain" /\ Drained(c)
    /\ IF q.todo = <<>>
       THEN /\ request' = [request EXCEPT ![c][r] = Idle]
            /\ sub' = Activated(c, q.family, q.id)
            /\ Answer(c)
       ELSE /\ request' = [request EXCEPT ![c][r].pc = "drain", ![c][r].todo = Tail(@)]
            /\ wire' = [wire EXCEPT ![c] = Append(@, Head(q.todo))]
            /\ UNCHANGED <<sub, answered>>
    /\ UNCHANGED <<jobVars, runVars, bounds, clientVars, daemon, issued, conn, pub, written>>

-----------------------------------------------------------------------------
(***************************************************************************)
(* The clients and their connections.                                      *)
(***************************************************************************)

\* _connection_loop: retry until the daemon accepts.
Connect(c) ==
    /\ daemon = "up"
    /\ conn[c] = "none"
    /\ conn' = [conn EXCEPT ![c] = "open"]
    /\ subscribes' = [subscribes EXCEPT ![c] = [f \in FamiliesOf(c) |-> 0]]
    /\ answered' = [answered EXCEPT ![c] = 0]
    /\ UNCHANGED <<jobVars, runVars, bounds, daemon, sub, issued, request, wire, cursor, shown,
                   again, pub, written>>

\* _dispatch and _handle_event: a job event moves the cursor if it is new; a
\* run event is shown, again if it is none of those _seen_agent_events knows;
\* the rest has no state here.
Receive(c) ==
    /\ wire[c] # <<>>
    /\ LET e == Head(wire[c]) IN
        /\ cursor' = IF c \in Terminals /\ e.kind = "job" /\ e.n > cursor[c] THEN [cursor EXCEPT ![c] = e.n] ELSE cursor
        /\ shown'  = IF c \in Terminals /\ e.kind = "run" THEN [shown EXCEPT ![c] = @ \cup {e.n}] ELSE shown
        /\ again'  = IF c \in Terminals /\ e.kind = "run" /\ e.n \in shown[c] \cap Plain
                     THEN [again EXCEPT ![c] = @ \cup {e.n}] ELSE again
    /\ wire' = [wire EXCEPT ![c] = Tail(@)]
    /\ UNCHANGED <<jobVars, runVars, bounds, daemon, sub, issued, request, conn, subscribes,
                   answered, pub, written>>

\* What a lost connection leaves a client: _connection_loop connects again,
\* unless wait_closed() ends it with the error of the connection (close() in
\* the finally lets it out).
Lost(c) == IF c \in Terminals THEN {"none", "left"} ELSE {"none"}

\* The client finds the connection closed; what it had not read may be lost.
SeeClosed(c) ==
    /\ conn[c] = "closing"
    /\ \E after \in Lost(c) : conn' = [conn EXCEPT ![c] = after]
    /\ wire' = [wire EXCEPT ![c] = <<>>]
    /\ UNCHANGED <<jobVars, runVars, bounds, clientVars, daemon, sub, issued, request, answered,
                   pub, written>>

\* The connection breaks; the daemon's read loop or a failing write removes
\* the writer.
Drop(c) ==
    /\ conn[c] = "open"
    /\ failures < MaxFailures
    /\ failures' = failures + 1
    /\ \E after \in Lost(c) : conn' = [conn EXCEPT ![c] = after]
    /\ wire' = [wire EXCEPT ![c] = <<>>]
    /\ Cut({c}, sub)
    /\ UNCHANGED <<jobVars, runVars, clientVars, daemon, issued, answered, pub, written>>

-----------------------------------------------------------------------------
(***************************************************************************)
(* What is published.                                                      *)
(***************************************************************************)

\* _launch appends job.started; nothing suspends before its publication.  A
\* new attempt needs an approval, which comes many turns after the watcher
\* of the attempt before has published its end.
JobStarts ==
    /\ daemon = "up"
    /\ job \in {"idle", "ended"}
    /\ unpublished = 0
    /\ attempts < MaxAttempts
    /\ attempts' = attempts + 1
    /\ job' = "running"
    /\ AppendEvent
    /\ Publish("job", NextSeq)
    /\ UNCHANGED <<runVars, bounds, daemon, unpublished>>

\* _monitor and _record_launch_failure: job.json, then the event; the waiter
\* publishes it when it is resumed.
JobEnds ==
    /\ daemon \in {"up", "stopping"}
    /\ \/ job = "running" /\ UNCHANGED attempts
       \/ /\ daemon = "up" /\ job \in {"idle", "ended"} /\ unpublished = 0
          /\ attempts < MaxAttempts
          /\ attempts' = attempts + 1
    /\ job' = "ended"
    /\ AppendEvent
    /\ unpublished' = NextSeq
    /\ UNCHANGED <<runVars, bounds, clientVars, daemon, sub, issued, request, conn, wire, answered,
                   pub, written>>

\* _watch_job or _observe_retry
PublishEnd ==
    /\ daemon \in {"up", "stopping"}
    /\ unpublished # 0
    /\ unpublished' = 0
    /\ Publish("job", unpublished)
    /\ UNCHANGED <<log, cache, acked, job, attempts, runVars, bounds, daemon>>

\* IncidentStatusChangedEvent: published, never replayed.
PublishNote ==
    /\ daemon = "up"
    /\ notes < MaxNotes
    /\ notes' = notes + 1
    /\ Publish("incident", 0)
    /\ UNCHANGED <<jobVars, bounds, daemon, runLog, runAlive, tokens>>

\* A state event of the run: EventWriter writes it, then the bus publishes it.
PublishRun ==
    /\ daemon = "up"
    /\ runAlive
    /\ runLog < MaxRunEvents
    /\ runLog' = runLog + 1
    /\ Publish("run", runLog + 1)
    /\ UNCHANGED <<jobVars, bounds, daemon, runAlive, notes, tokens>>

\* A display event of the run (llm.token), kept by nobody.
PublishToken ==
    /\ daemon = "up"
    /\ runAlive
    /\ tokens < MaxTokens
    /\ tokens' = tokens + 1
    /\ Publish("token", 0)
    /\ UNCHANGED <<jobVars, bounds, daemon, runLog, runAlive, notes>>

-----------------------------------------------------------------------------
(***************************************************************************)
(* The daemon.                                                             *)
(***************************************************************************)

\* All connections are closed and all tasks are gone.
CloseAll ==
    /\ Cut(Clients, sub)
    /\ conn' = [c \in Clients |-> IF conn[c] = "open" THEN "closing" ELSE conn[c]]
    /\ UNCHANGED <<issued, wire, answered, clientVars, pub, written>>

\* Shutdown: connections first, then the jobs (JobEnds), then the process.
Stop ==
    /\ daemon = "up"
    /\ failures < MaxFailures
    /\ failures' = failures + 1
    /\ daemon' = "stopping"
    /\ runAlive' = FALSE
    /\ CloseAll
    /\ UNCHANGED <<jobVars, runLog, notes, tokens>>

Exit ==
    /\ daemon = "stopping"
    /\ job # "running"
    /\ daemon' = "down"
    /\ unpublished' = 0
    /\ cache' = NoCache
    /\ UNCHANGED <<log, acked, job, attempts, runVars, bounds, clientVars, sub, issued, request,
                   conn, wire, answered, pub, written>>

\* starting or running in job.json, and what recovery makes of it: a job whose
\* first attempt was never recorded cannot be launched again.
Active == job \in {"created", "running"}
Sealed == IF job = "created" THEN "dead" ELSE "ended"

\* The daemon dies: anywhere, or while an attempt starts or ends, between the
\* record and the event or inside the append of the event.
Crash ==
    /\ daemon # "down"
    /\ failures < MaxFailures
    /\ failures' = failures + 1
    /\ \/ UNCHANGED <<log, acked, job>> /\ cache' = NoCache
       \/ daemon = "up" /\ job = "idle" /\ job' = "created"
          /\ UNCHANGED <<log, acked>> /\ cache' = NoCache
       \/ daemon = "up" /\ job \in {"idle", "ended"} /\ job' \in {"running", "ended"} /\ CrashLog
       \/ Active /\ job' = Sealed /\ CrashLog
    /\ daemon' = "down"
    /\ unpublished' = 0
    /\ runAlive' = FALSE
    /\ CloseAll
    /\ UNCHANGED <<attempts, runLog, notes, tokens>>

Restart ==
    /\ daemon = "down"
    /\ daemon' = "recovering"
    /\ UNCHANGED <<jobVars, runVars, bounds, clientVars, sub, issued, request, conn, wire, answered,
                   pub, written>>

\* recover_interrupted, before the server listens: an active job is sealed
\* with an event nobody publishes.
Recover ==
    /\ daemon = "recovering"
    /\ daemon' = "up"
    /\ IF Active THEN job' = Sealed /\ AppendEvent
                 ELSE UNCHANGED <<job, log, cache, acked>>
    /\ UNCHANGED <<unpublished, attempts, runVars, bounds, clientVars, sub, issued, request,
                   conn, wire, answered, pub, written>>

-----------------------------------------------------------------------------
Init ==
    /\ LogInit
    /\ daemon = "up"
    /\ job = "idle"
    /\ unpublished = 0 /\ attempts = 0
    /\ runLog = 0 /\ runAlive = TRUE
    /\ notes = 0 /\ tokens = 0
    /\ sub = [c \in Clients |-> [f \in FamiliesOf(c) |-> NoSub]]
    /\ issued = 0
    /\ request = [c \in Clients |-> [r \in Requests |-> Idle]]
    /\ conn = [c \in Clients |-> "none"]
    /\ wire = [c \in Clients |-> <<>>]
    /\ cursor = [c \in Clients |-> 0]
    /\ shown = [c \in Clients |-> {}]
    /\ again = [c \in Clients |-> {}]
    /\ subscribes = [c \in Clients |-> [f \in FamiliesOf(c) |-> 0]]
    /\ answered = [c \in Clients |-> 0]
    /\ pub = [f \in Families |-> 0]
    /\ written = [c \in Clients |-> [f \in FamiliesOf(c) |-> 0]]
    /\ failures = 0

Writer(c, f) == WriterGet(c, f) \/ WriterWrite(c, f) \/ WriterDrained(c, f)
Handler(c, r) == Subscribe(c, r) \/ ReplayStep(c, r)
FirstSubscribe(c, f, r) == subscribes[c][f] = 0 /\ SendSubscribe(c, f, r)

ClientStep(c) ==
    \/ \E f \in FamiliesOf(c) : Writer(c, f)
    \/ \E f \in FamiliesOf(c), r \in Requests : SendSubscribe(c, f, r)
    \/ \E r \in Requests : Handler(c, r)
    \/ Respond(c) \/ Connect(c) \/ Receive(c) \/ SeeClosed(c) \/ Drop(c)

DaemonStep ==
    \/ JobStarts \/ JobEnds \/ PublishEnd \/ PublishNote \/ PublishRun \/ PublishToken
    \/ Stop \/ Exit \/ Crash \/ Restart \/ Recover

Next == DaemonStep \/ \E c \in Clients : ClientStep(c)

Spec == Init /\ [][Next]_vars

\* asyncio resumes every task that can go on and its locks are first come,
\* first served; as long as its _connection_loop goes on a terminal keeps
\* reconnecting, subscribes on every connection and reads what arrives.
\* Jobs, runs, users, crashes, broken connections and restarts have no
\* fairness.
Fairness ==
    /\ \A c \in Clients :
        /\ \A f \in FamiliesOf(c) : WF_vars(Writer(c, f))
        /\ \A f \in FamiliesOf(c) : WF_vars(\E r \in Requests : FirstSubscribe(c, f, r))
        /\ \A r \in Requests : WF_vars(Handler(c, r))
        /\ WF_vars(Connect(c)) /\ WF_vars(Receive(c)) /\ WF_vars(SeeClosed(c))
    /\ WF_vars(PublishEnd) /\ WF_vars(Recover)

FairSpec == Spec /\ Fairness

-----------------------------------------------------------------------------
(***************************************************************************)
(* Properties.                                                             *)
(***************************************************************************)

\* No state event is lost inside the daemon: as long as a subscription lives,
\* what its writer has in hand and in its queue is exactly what was published
\* to it and is not yet written, in order.  Display events may be dropped and
\* evicted in between, and a client that cannot keep up loses its
\* subscription, never a single event (handle, _evict_droppable).
NoStateLost ==
    \A c \in Clients : \A f \in FamiliesOf(c) : Live(c, f) =>
        LET due    == sub[c][f].hand \o sub[c][f].queue
            states == {i \in DOMAIN due : ~Droppable(due[i])}
        IN  /\ {due[i].stamp : i \in states} = (written[c][f] + 1)..pub[f]
            /\ \A i, j \in states : i < j => due[i].stamp < due[j].stamp

\* A subscription held back by its barrier is being replayed by the command
\* that will lift it: no interleaving of two commands of one client leaves a
\* subscription that is deaf for ever (subscribe, activate in its finally).
BarrierWillLift ==
    \A c \in Clients : \A f \in FamiliesOf(c) :
        Live(c, f) /\ ~sub[c][f].ready =>
            \E r \in Requests : /\ request[c][r].pc \in {"lock", "drain"}
                                /\ request[c][r].id = sub[c][f].id

\* What the daemon pushes to a client that does not read is bounded: beside
\* one response for each command of the client itself, which nothing holds
\* back (_send), the lock the subscriptions of a writer share and the drain
\* after each frame let one event past the high-water mark, and a subscription
\* that replaces one whose writer waits in drain() lets one more (write_lock,
\* subscribe).
Replacements(c) ==
    IF c \in Terminals /\ subscribes[c]["job"] > 0 THEN subscribes[c]["job"] - 1 ELSE 0
BufferIsBounded ==
    \A c \in Clients : Len(wire[c]) <= HighWater + 1 + Replacements(c) + answered[c]

\* Every terminal sees the events of its job and of its run in order, without
\* a gap, and only after they are on disk, across reconnections, repeated
\* subscriptions, overflows, crashes and torn files; none is shown twice but
\* the plain ones of a run, which a replay shows again (EventChannel).
Latest(S) == IF S = {} THEN 0 ELSE CHOOSE n \in S : \A m \in S : m <= n
Channel == INSTANCE EventChannel WITH
    Readers   <- Terminals,
    Streams   <- {"job", "run"},
    Loose     <- [s \in {"job", "run"} |-> IF s = "job" THEN {} ELSE Plain],
    persisted <- [s \in {"job", "run"} |-> IF s = "job" THEN Len(ReadEvents(log)) ELSE runLog],
    seen      <- [c \in Terminals |-> [s \in {"job", "run"} |->
                    IF s = "job" THEN cursor[c] ELSE Latest(shown[c])]],
    repeated  <- [c \in Terminals |-> [s \in {"job", "run"} |->
                    IF s = "job" THEN {} ELSE again[c]]]
ChannelSpec == Channel!ChannelSpec

\* Every event of an attempt that is on disk reaches every terminal, unless the
\* daemon is gone or the terminal's connection loop has ended: also one that was
\* appended while it was disconnected, while it was subscribing, or by a
\* recovery that published nothing.
JobEventsArrive ==
    \A c \in Terminals : \A n \in 1..(2 * MaxAttempts + MaxFailures) :
        (Len(ReadEvents(log)) >= n /\ job # "dead") ~>
            (cursor[c] >= n \/ daemon \in {"stopping", "down"} \/ conn[c] = "left")
=============================================================================
