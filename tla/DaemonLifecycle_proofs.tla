----------------------- MODULE DaemonLifecycle_proofs -----------------------
(***************************************************************************)
(* Proofs about DaemonLifecycle, for every number of start and stop        *)
(* commands and of crashes.                                                *)
(***************************************************************************)
EXTENDS DaemonLifecycle, TLAPS

\* Once recorded, and until it empties the file itself, a daemon is on record.
RecordInv ==
    \A d \in Starter :
        at[d] \in {"recovering", "binding", "serving", "closing", "closed", "sweeping",
                   "clearing"}
        => meta = d

\* run() closes its listener after it has refused starts and while none is under way.
JobInv ==
    \A d \in Starter :
        /\ at[d] \in {"closing", "closed", "sweeping", "clearing", "unlocking", "exited"}
           => down[d]
        /\ at[d] \in {"closed", "sweeping", "clearing", "unlocking", "exited"}
           => job[d] \notin {"checking", "launching"}

\* So does a handler; what it has refused stays refused until the daemon is dead.
RequestInv ==
    \A s \in Stopper :
        /\ request[s] # "none" => asked[s] \in Starter
        /\ stop[s] \in {"wait", "stopped"} => request[s] \in {"answered", "armed"}
        /\ \A d \in Starter :
            /\ asked[s] = d
            /\ at[d] # "dead"
            => /\ request[s] \in {"locking", "closing", "answered", "armed"} => down[d]
               /\ request[s] \in {"closing", "answered", "armed"}
                  => job[d] \notin {"checking", "launching"}

\* Where a start command holds the lock to probe it, and where it has spawned nothing.
Held   == {"discoverHeld", "slotHeld", "waitHeld"}
Before == {"ping", "discover", "discoverHeld", "look", "slot", "slotProbe", "slotHeld",
           "spawn"}

\* A probe gives back what it took; a command that has spawned nothing has no daemon.
CliInv ==
    \A c \in Starter :
        /\ start[c] \in Held => lock = Cli(c)
        /\ start[c] \in Before => at[c] = "none"

IInv == TypeOK /\ CliInv /\ OneDaemon /\ RecordInv /\ JobInv /\ NoOrphan /\ RequestInv

-----------------------------------------------------------------------------
LEMMA Holders ==
    /\ \A c \in Starter : {Cli(c), Daemon(c)} \subseteq Holder \ {Nobody}
    /\ \A c, d \in Starter :
        /\ Cli(c) # Daemon(d)
        /\ Cli(c) = Cli(d) => c = d
        /\ Daemon(c) = Daemon(d) => c = d
  BY LifecycleAssumption DEF Cli, Daemon, Holder

LEMMA InitHolds == Init => IInv
  BY LifecycleAssumption
  DEF Init, IInv, TypeOK, CliInv, OneDaemon, RecordInv, JobInv, NoOrphan, RequestInv,
      Held, Before, Inside, StartEnd, StopEnd

(***************************************************************************)
(* The start commands.                                                     *)
(***************************************************************************)
\* What a step of a start command may change besides its own place: the lock, when nobody
\* has it or when it gives back its own probe, and the daemon it spawns.
StartChange(c) ==
    /\ UNCHANGED <<meta, port, down, event, job, stop, asked, request, crashes>>
    /\ start' = [start EXCEPT ![c] = start'[c]]
    /\ start'[c] \in StartEnd \cup Before \cup {"wait", "waitProbe", "waitHeld", "confirm"}
    /\ \/ UNCHANGED <<lock, at>> /\ start'[c] \notin Held
       \/ lock = Nobody /\ lock' = Cli(c) /\ UNCHANGED at
       \/ /\ start[c] \in Held /\ start'[c] \notin Held
          /\ lock' = Nobody /\ UNCHANGED at
       \/ /\ start[c] = "spawn" /\ start'[c] = "wait"
          /\ at' = [at EXCEPT ![c] = "spawned"]
          /\ UNCHANGED lock
    /\ start'[c] \in Before => start[c] \in Before \ {"spawn"}

LEMMA StartChanges ==
    ASSUME TypeOK, NEW c \in Starter, StartStep(c) \/ StartTimeout(c)
    PROVE  StartChange(c)
<1> USE DEF StartChange, Held, Before, CliGoto, files, daemon, stopping, StartEnd
<1>0. start = [start EXCEPT ![c] = start[c]] /\ c \in DOMAIN start
  BY DEF TypeOK
<1>1. CASE FirstPing(c) \/ SlotPing(c)
  BY <1>0, <1>1 DEF FirstPing, SlotPing, Ping, TypeOK
<1>2. CASE DiscoverProbe(c) \/ SlotProbe(c) \/ WaitProbe(c)
  BY <1>0, <1>2 DEF DiscoverProbe, SlotProbe, WaitProbe, Probe, TypeOK
<1>3. CASE DiscoverRelease(c) \/ SlotRelease(c) \/ WaitRelease(c)
  BY <1>0, <1>3 DEF DiscoverRelease, SlotRelease, WaitRelease, Release, TypeOK
<1>4. CASE Look(c) \/ WaitPing(c) \/ Confirm(c) \/ StartTimeout(c)
  BY <1>0, <1>4 DEF Look, WaitPing, Confirm, StartTimeout, TypeOK
<1>5. CASE Spawn(c)
  BY <1>0, <1>5 DEF Spawn, TypeOK
<1>6. QED
  BY <1>1, <1>2, <1>3, <1>4, <1>5 DEF StartStep

LEMMA StartKeeps ==
    ASSUME IInv, NEW c \in Starter, StartStep(c) \/ StartTimeout(c)
    PROVE  IInv'
<1> USE DEF IInv
<1>1. StartChange(c)
  BY StartChanges
<1> USE DEF StartChange
<1>2. TypeOK'
  BY <1>1, Holders DEF TypeOK, Before
<1>3. CliInv'
  <2> SUFFICES ASSUME NEW b \in Starter
               PROVE  /\ start'[b] \in Held => lock' = Cli(b)
                      /\ start'[b] \in Before => at'[b] = "none"
    BY DEF CliInv
  <2>1. b # c => start'[b] = start[b] /\ at'[b] = at[b]
    BY <1>1 DEF TypeOK
  <2>2. /\ start[b] \in Held => lock = Cli(b)
        /\ start[c] \in Held => lock = Cli(c)
    BY DEF CliInv
  <2>3. start'[b] \in Held => lock' = Cli(b)
    BY <1>1, <2>1, <2>2, Holders DEF Held
  <2>4. start'[b] \in Before => at'[b] = "none"
    BY <1>1, <2>1 DEF CliInv, Before
  <2>5. QED
    BY <2>3, <2>4
<1>4. at[c] = "none" \/ UNCHANGED at
  BY <1>1 DEF CliInv, Before
<1>5. OneDaemon'
  BY <1>1, <1>4, Holders DEF TypeOK, CliInv, OneDaemon, Inside, Held
<1>6. RecordInv' /\ JobInv' /\ NoOrphan'
  BY <1>1, <1>4 DEF TypeOK, RecordInv, JobInv, NoOrphan
<1>7. RequestInv'
  BY <1>1, <1>4 DEF TypeOK, RequestInv
<1>8. QED
  BY <1>2, <1>3, <1>5, <1>6, <1>7

(***************************************************************************)
(* The daemons.                                                            *)
(***************************************************************************)
LEMMA RunKeeps ==
    ASSUME IInv, NEW d \in Starter, RunStep(d) \/ Signal(d) \/ Die(d)
    PROVE  IInv'
<1> USE DEF IInv, TypeOK, OneDaemon, Inside, Held, Before, Goto, CloseListener, Alive,
            files, stopping
<1>1. CASE Acquire(d)
  <2>1. TypeOK' /\ CliInv' /\ OneDaemon'
    BY <1>1, Holders DEF Acquire, CliInv, Gone
  <2>2. RecordInv' /\ JobInv' /\ NoOrphan'
    BY <1>1, Holders DEF Acquire, RecordInv, JobInv, NoOrphan
  <2>3. RequestInv'
    BY <1>1 DEF Acquire, RequestInv
  <2>4. QED
    BY <2>1, <2>2, <2>3
<1>2. CASE TruncateOld(d)
  <2>1. TypeOK' /\ CliInv' /\ OneDaemon'
    BY <1>2, Holders DEF TruncateOld, CliInv
  <2>2. RecordInv' /\ JobInv' /\ NoOrphan'
    BY <1>2, Holders DEF TruncateOld, RecordInv, JobInv, NoOrphan
  <2>3. RequestInv'
    BY <1>2 DEF TruncateOld, RequestInv
  <2>4. QED
    BY <2>1, <2>2, <2>3
<1>3. CASE Record(d)
  <2>1. TypeOK' /\ CliInv' /\ OneDaemon'
    BY <1>3, Holders DEF Record, CliInv
  <2>2. RecordInv' /\ JobInv' /\ NoOrphan'
    BY <1>3, Holders DEF Record, RecordInv, JobInv, NoOrphan
  <2>3. RequestInv'
    BY <1>3 DEF Record, RequestInv
  <2>4. QED
    BY <2>1, <2>2, <2>3
<1>4. CASE TryPort(d)
  <2>1. TypeOK' /\ CliInv' /\ OneDaemon'
    BY <1>4, Holders DEF TryPort, CliInv, Gone
  <2>2. RecordInv' /\ JobInv' /\ NoOrphan'
    BY <1>4, Holders DEF TryPort, RecordInv, JobInv, NoOrphan
  <2>3. RequestInv'
    BY <1>4 DEF TryPort, RequestInv
  <2>4. QED
    BY <2>1, <2>2, <2>3
<1>5. CASE Bind(d)
  <2>1. TypeOK' /\ CliInv' /\ OneDaemon'
    BY <1>5, Holders DEF Bind, CliInv, Gone
  <2>2. RecordInv' /\ JobInv' /\ NoOrphan'
    BY <1>5, Holders DEF Bind, RecordInv, JobInv, NoOrphan
  <2>3. RequestInv'
    BY <1>5 DEF Bind, RequestInv
  <2>4. QED
    BY <2>1, <2>2, <2>3
<1>6. CASE Wake(d)
  <2>1. TypeOK' /\ CliInv' /\ OneDaemon'
    BY <1>6, Holders DEF Wake, CliInv
  <2>2. RecordInv' /\ JobInv' /\ NoOrphan'
    BY <1>6, Holders DEF Wake, RecordInv, JobInv, NoOrphan
  <2>3. RequestInv'
    BY <1>6 DEF Wake, RequestInv
  <2>4. QED
    BY <2>1, <2>2, <2>3
<1>7. CASE StopAccepting(d)
  <2>1. TypeOK' /\ CliInv' /\ OneDaemon'
    BY <1>7, Holders DEF StopAccepting, CliInv
  <2>2. RecordInv' /\ JobInv' /\ NoOrphan'
    BY <1>7, Holders DEF StopAccepting, RecordInv, JobInv, NoOrphan, StartLockFree
  <2>3. RequestInv'
    BY <1>7 DEF StopAccepting, RequestInv
  <2>4. QED
    BY <2>1, <2>2, <2>3
<1>8. CASE CloseClients(d)
  <2>1. TypeOK' /\ CliInv' /\ OneDaemon'
    BY <1>8, Holders DEF CloseClients, CliInv
  <2>2. RecordInv' /\ JobInv' /\ NoOrphan'
    BY <1>8, Holders DEF CloseClients, RecordInv, JobInv, NoOrphan
  <2>3. RequestInv'
    BY <1>8 DEF CloseClients, RequestInv
  <2>4. QED
    BY <2>1, <2>2, <2>3
<1>9. CASE Sweep(d)
  <2>1. TypeOK' /\ CliInv' /\ OneDaemon'
    BY <1>9, Holders DEF Sweep, CliInv
  <2>2. RecordInv' /\ JobInv' /\ NoOrphan'
    BY <1>9, Holders DEF Sweep, RecordInv, JobInv, NoOrphan
  <2>3. RequestInv'
    BY <1>9 DEF Sweep, RequestInv
  <2>4. QED
    BY <2>1, <2>2, <2>3
<1>10. CASE Truncate(d)
  <2>1. TypeOK' /\ CliInv' /\ OneDaemon'
    BY <1>10, Holders DEF Truncate, CliInv
  <2>2. RecordInv' /\ JobInv' /\ NoOrphan'
    BY <1>10, Holders DEF Truncate, RecordInv, JobInv, NoOrphan
  <2>3. RequestInv'
    BY <1>10 DEF Truncate, RequestInv
  <2>4. QED
    BY <2>1, <2>2, <2>3
<1>11. CASE Unlock(d)
  <2>1. TypeOK' /\ CliInv' /\ OneDaemon'
    BY <1>11, Holders DEF Unlock, CliInv, Gone
  <2>2. RecordInv' /\ JobInv' /\ NoOrphan'
    BY <1>11, Holders DEF Unlock, RecordInv, JobInv, NoOrphan
  <2>3. RequestInv'
    BY <1>11 DEF Unlock, RequestInv
  <2>4. QED
    BY <2>1, <2>2, <2>3
<1>12. CASE Signal(d)
  <2>1. TypeOK' /\ CliInv' /\ OneDaemon'
    BY <1>12, Holders DEF Signal, CliInv
  <2>2. RecordInv' /\ JobInv' /\ NoOrphan'
    BY <1>12, Holders DEF Signal, RecordInv, JobInv, NoOrphan
  <2>3. RequestInv'
    BY <1>12 DEF Signal, RequestInv
  <2>4. QED
    BY <2>1, <2>2, <2>3
<1>13. CASE Die(d)
  <2>1. TypeOK' /\ CliInv' /\ OneDaemon'
    BY <1>13, Holders, LifecycleAssumption DEF Die, CliInv, Gone
  <2>2. RecordInv' /\ JobInv' /\ NoOrphan'
    BY <1>13, Holders DEF Die, RecordInv, JobInv, NoOrphan
  <2>3. RequestInv'
    BY <1>13 DEF Die, RequestInv
  <2>4. QED
    BY <2>1, <2>2, <2>3
<1>14. QED
  BY <1>1, <1>2, <1>3, <1>4, <1>5, <1>6, <1>7, <1>8, <1>9, <1>10, <1>11, <1>12, <1>13 DEF RunStep

\* A request that starts a training: refused as soon as the daemon is on its way out.
LEMMA JobKeeps ==
    ASSUME IInv, NEW d \in Starter, JobStep(d) \/ JobRequest(d) \/ JobExits(d)
    PROVE  IInv'
<1> USE DEF IInv, TypeOK, OneDaemon, JobGoto, Alive, files, stopping
<1>1. CASE JobRequest(d)
  <2>1. TypeOK' /\ CliInv' /\ OneDaemon' /\ RecordInv'
    BY <1>1 DEF JobRequest, CliInv, RecordInv
  <2>2. JobInv' /\ NoOrphan' /\ RequestInv'
    BY <1>1 DEF JobRequest, JobInv, NoOrphan, RequestInv, Handles
  <2>3. QED
    BY <2>1, <2>2
<1>2. CASE JobLock(d)
  <2>1. TypeOK' /\ CliInv' /\ OneDaemon' /\ RecordInv'
    BY <1>2 DEF JobLock, CliInv, RecordInv
  <2>2. JobInv' /\ NoOrphan' /\ RequestInv'
    BY <1>2 DEF JobLock, JobInv, NoOrphan, RequestInv, StartLockFree, Inside
  <2>3. QED
    BY <2>1, <2>2
<1>3. CASE JobLaunch(d)
  <2>1. TypeOK' /\ CliInv' /\ OneDaemon' /\ RecordInv'
    BY <1>3 DEF JobLaunch, CliInv, RecordInv
  <2>2. JobInv' /\ NoOrphan' /\ RequestInv'
    BY <1>3 DEF JobLaunch, JobInv, NoOrphan, RequestInv, Inside
  <2>3. QED
    BY <2>1, <2>2
<1>4. CASE JobRuns(d)
  <2>1. TypeOK' /\ CliInv' /\ OneDaemon' /\ RecordInv'
    BY <1>4 DEF JobRuns, CliInv, RecordInv
  <2>2. JobInv' /\ NoOrphan' /\ RequestInv'
    BY <1>4 DEF JobRuns, JobInv, NoOrphan, RequestInv
  <2>3. QED
    BY <2>1, <2>2
<1>5. CASE JobFails(d)
  <2>1. TypeOK' /\ CliInv' /\ OneDaemon' /\ RecordInv'
    BY <1>5 DEF JobFails, CliInv, RecordInv
  <2>2. JobInv' /\ NoOrphan' /\ RequestInv'
    BY <1>5 DEF JobFails, JobInv, NoOrphan, RequestInv
  <2>3. QED
    BY <2>1, <2>2
<1>6. CASE JobExits(d)
  <2>1. TypeOK' /\ CliInv' /\ OneDaemon' /\ RecordInv'
    BY <1>6 DEF JobExits, CliInv, RecordInv
  <2>2. JobInv' /\ NoOrphan' /\ RequestInv'
    BY <1>6 DEF JobExits, JobInv, NoOrphan, RequestInv
  <2>3. QED
    BY <2>1, <2>2
<1>7. QED
  BY <1>1, <1>2, <1>3, <1>4, <1>5, <1>6 DEF JobStep

(***************************************************************************)
(* The stop commands and their requests.                                   *)
(***************************************************************************)
LEMMA HandlerKeeps ==
    ASSUME IInv, NEW s \in Stopper, HandlerStep(s)
    PROVE  IInv'
<1> USE DEF IInv, TypeOK, OneDaemon, RequestGoto, CloseListener, Alive, files
<1>1. CASE HandleShutdown(s)
  <2>1. TypeOK' /\ CliInv' /\ OneDaemon' /\ RecordInv'
    BY <1>1 DEF HandleShutdown, CliInv, RecordInv
  <2>2. JobInv' /\ NoOrphan' /\ RequestInv'
    BY <1>1 DEF HandleShutdown, JobInv, NoOrphan, RequestInv, Handles
  <2>3. QED
    BY <2>1, <2>2
<1>2. CASE HandlerCloses(s)
  <2>1. TypeOK' /\ CliInv' /\ OneDaemon' /\ RecordInv'
    BY <1>2 DEF HandlerCloses, CliInv, RecordInv
  <2>2. JobInv' /\ NoOrphan' /\ RequestInv'
    BY <1>2 DEF HandlerCloses, JobInv, NoOrphan, RequestInv, StartLockFree
  <2>3. QED
    BY <2>1, <2>2
<1>3. CASE Answer(s)
  <2>1. TypeOK' /\ CliInv' /\ OneDaemon' /\ RecordInv'
    BY <1>3 DEF Answer, CliInv, RecordInv
  <2>2. JobInv' /\ NoOrphan' /\ RequestInv'
    BY <1>3 DEF Answer, JobInv, NoOrphan, RequestInv
  <2>3. QED
    BY <2>1, <2>2
<1>4. CASE Timer(s)
  <2>1. TypeOK' /\ CliInv' /\ OneDaemon' /\ RecordInv'
    BY <1>4 DEF Timer, CliInv, RecordInv
  <2>2. JobInv' /\ NoOrphan' /\ RequestInv'
    BY <1>4 DEF Timer, JobInv, NoOrphan, RequestInv
  <2>3. QED
    BY <2>1, <2>2
<1>5. QED
  BY <1>1, <1>2, <1>3, <1>4 DEF HandlerStep

LEMMA StopKeeps ==
    ASSUME IInv, NEW s \in Stopper, StopStep(s)
    PROVE  IInv'
<1> USE DEF IInv, TypeOK, OneDaemon, StopGoto, StopEnd, files, daemon
<1>1. CASE Connect(s)
  <2>1. TypeOK' /\ CliInv' /\ OneDaemon' /\ RecordInv'
    BY <1>1 DEF Connect, CliInv, RecordInv
  <2>2. JobInv' /\ NoOrphan' /\ RequestInv'
    BY <1>1 DEF Connect, JobInv, NoOrphan, RequestInv
  <2>3. QED
    BY <2>1, <2>2
<1>2. CASE StopReads(s)
  <2>1. TypeOK' /\ CliInv' /\ OneDaemon' /\ RecordInv'
    BY <1>2 DEF StopReads, CliInv, RecordInv
  <2>2. JobInv' /\ NoOrphan' /\ RequestInv'
    BY <1>2 DEF StopReads, JobInv, NoOrphan, RequestInv
  <2>3. QED
    BY <2>1, <2>2
<1>3. CASE StopGivesUp(s)
  <2>1. TypeOK' /\ CliInv' /\ OneDaemon' /\ RecordInv'
    BY <1>3 DEF StopGivesUp, CliInv, RecordInv
  <2>2. JobInv' /\ NoOrphan' /\ RequestInv'
    BY <1>3 DEF StopGivesUp, JobInv, NoOrphan, RequestInv
  <2>3. QED
    BY <2>1, <2>2
<1>4. CASE StopPing(s)
  <2>1. TypeOK' /\ CliInv' /\ OneDaemon' /\ RecordInv'
    BY <1>4 DEF StopPing, CliInv, RecordInv
  <2>2. JobInv' /\ NoOrphan' /\ RequestInv'
    BY <1>4 DEF StopPing, JobInv, NoOrphan, RequestInv
  <2>3. QED
    BY <2>1, <2>2
<1>5. CASE StopTimeout(s)
  <2>1. TypeOK' /\ CliInv' /\ OneDaemon' /\ RecordInv'
    BY <1>5 DEF StopTimeout, CliInv, RecordInv
  <2>2. JobInv' /\ NoOrphan' /\ RequestInv'
    BY <1>5 DEF StopTimeout, JobInv, NoOrphan, RequestInv
  <2>3. QED
    BY <2>1, <2>2
<1>6. QED
  BY <1>1, <1>2, <1>3, <1>4, <1>5 DEF StopStep

-----------------------------------------------------------------------------
LEMMA NextKeeps == IInv /\ [Next]_vars => IInv'
<1> SUFFICES ASSUME IInv, [Next]_vars
             PROVE  IInv'
  OBVIOUS
<1>1. CASE Next
  BY <1>1, StartKeeps, RunKeeps, JobKeeps, HandlerKeeps, StopKeeps DEF Next, DaemonStep
<1>2. CASE UNCHANGED vars
  BY <1>2
  DEF vars, IInv, TypeOK, CliInv, OneDaemon, RecordInv, JobInv, NoOrphan, RequestInv, Alive
<1>3. QED
  BY <1>1, <1>2

LEMMA IInvHolds == Spec => []IInv
  BY InitHolds, NextKeeps, PTL DEF Spec

\* The state of commands and daemons is well typed; no more of them die than MaxCrashes.
THEOREM TypesHold == Spec => []TypeOK
  BY IInvHolds, PTL DEF IInv

\* From its flock to its unlock a daemon is alone with ~/.cyan, and the one that listens
\* (CoreApp.run, SocketServer.start).
THEOREM LockProtects == Spec => []OneDaemon
  BY IInvHolds, PTL DEF IInv

\* The lock file names the daemon that listens.
THEOREM RecordIsRight == Spec => []ServingIsRecorded
<1>1. IInv => ServingIsRecorded
  BY DEF IInv, OneDaemon, RecordInv, ServingIsRecorded, TypeOK
<1>2. QED
  BY <1>1, IInvHolds, PTL

\* An orderly shutdown, by signal or by request, leaves no training behind that was started
\* by a request.
THEOREM ShutdownSweeps == Spec => []NoOrphan
  BY IInvHolds, PTL DEF IInv

\* Only JobSupervisor.start launches.
LEMMA Launches ==
    ASSUME TypeOK, Next, NEW d \in Starter, job'[d] = "launching", job[d] # "launching"
    PROVE  Alive(d) /\ job[d] = "checking"
<1>1. ASSUME NEW c \in Starter, StartStep(c) \/ StartTimeout(c)
      PROVE  FALSE
  BY <1>1, StartChanges DEF StartChange
<1>2. ASSUME NEW e \in Starter, RunStep(e) \/ Signal(e) \/ Die(e)
      PROVE  FALSE
  BY <1>2
  DEF RunStep, Acquire, TruncateOld, Record, TryPort, Bind, Wake, StopAccepting,
      CloseClients, Sweep, Truncate, Unlock, Signal, Die, Goto, TypeOK
<1>3. ASSUME NEW e \in Starter, JobStep(e) \/ JobRequest(e) \/ JobExits(e)
      PROVE  Alive(d) /\ job[d] = "checking"
  BY <1>3 DEF JobStep, JobRequest, JobExits, JobLock, JobLaunch, JobRuns, JobFails,
              JobGoto, TypeOK
<1>4. ASSUME NEW s \in Stopper, StopStep(s) \/ HandlerStep(s)
      PROVE  FALSE
  BY <1>4
  DEF StopStep, HandlerStep, Connect, StopReads, StopGivesUp, StopPing, StopTimeout,
      HandleShutdown, HandlerCloses, Answer, Timer, RequestGoto, daemon
<1>5. QED
  BY <1>1, <1>2, <1>3, <1>4 DEF Next, DaemonStep

\* After a stop was reported the daemon starts nothing.
THEOREM StopIsFinal == Spec => NothingStartsAfterStop
<1> DEFINE A == \A s \in Stopper : stop[s] = "stopped" =>
                    (job'[asked[s]] = "launching" => job[asked[s]] = "launching")
<1>1. IInv /\ [Next]_vars => A
  <2> SUFFICES ASSUME IInv, [Next]_vars, NEW s \in Stopper, stop[s] = "stopped",
                      job'[asked[s]] = "launching", job[asked[s]] # "launching"
               PROVE  FALSE
    OBVIOUS
  <2> DEFINE d == asked[s]
  <2>1. d \in Starter /\ (at[d] # "dead" => job[d] # "checking")
    BY DEF IInv, RequestInv
  <2>2. CASE Next
    BY <2>1, <2>2, Launches DEF IInv, Alive, Inside
  <2>3. CASE UNCHANGED vars
    BY <2>3 DEF vars
  <2>4. QED
    BY <2>2, <2>3
<1>2. IInv /\ [Next]_vars => [A]_vars
  BY <1>1
<1>3. QED
  BY <1>2, IInvHolds, PTL DEF Spec, NothingStartsAfterStop
=============================================================================
