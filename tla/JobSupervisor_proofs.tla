------------------------ MODULE JobSupervisor_proofs ------------------------
(***************************************************************************)
(* Proofs about JobSupervisor, for every number of jobs, attempts, daemons *)
(* and failed writes.                                                      *)
(*                                                                         *)
(* The first inductive invariant (IInv): what a daemon holds in memory of  *)
(* an attempt it launches or watches agrees with the disk (LaunchInv,      *)
(* WatchInv), so that nobody else writes the end of that attempt; an end,  *)
(* or a failure that a restart would make an end of, is written of an      *)
(* attempt whose leader and whose log are nobody's any more (SealInv); a   *)
(* leader that its own daemon has killed went with its group (KilledInv);  *)
(* and what a daemon has spawned and has not lost track of is the current  *)
(* attempt (LiveInv).                                                      *)
(*                                                                         *)
(* The second (BInv) rests on it and is about the records: what the files  *)
(* say of each other between any two writes (Books), and what a daemon     *)
(* that serves knows of the jobs recorded as active (Shown).               *)
(***************************************************************************)
EXTENDS JobSupervisor, FiniteSetTheorems, TLAPS

Ended == {"succeeded", "failed", "cancelled"}

\* Of the attempt no more is left than who has redirected his output, and nobody
\* if it was killed.
Quiet(j, a) ==
    /\ ~Alive(j, a) /\ group[j][a].rest # "pipes"
    /\ group[j][a].leader = "killed" => group[j][a].rest = "none"

KilledInv ==
    \A j \in Job, a \in Attempts :
        ~group[j][a].adopted /\ group[j][a].leader = "killed" => group[j][a].rest = "none"

DaemonInv ==
    /\ daemon \notin {"up", "sweeping"} =>
            launch = NoLaunch /\ \A j \in Job : monitor[j] = "none"
    /\ daemon = "recovering" => lives < MaxLives

LaunchInv ==
    launch # NoLaunch =>
        /\ launch.att = job[launch.job].cur
        /\ monitor[launch.job] # "watching"
        /\ attempt[launch.job][launch.att].status = "starting"
        /\ launch.att \notin failure[launch.job]
        /\ launch.at = "spawning" => Quiet(launch.job, launch.att)
        /\ launch.at = "identifying" => ~group[launch.job][launch.att].adopted

WatchInv ==
    \A j \in Job : monitor[j] = "watching" =>
        /\ job[j].status # "none" /\ job[j].cur \in Attempts
        /\ attempt[j][job[j].cur].status = "running"
        /\ job[j].cur \notin failure[j]
        /\ ~group[j][job[j].cur].adopted

FreshInv == \A j \in Job : job[j].status = "none" => job[j].cur = 0

SealInv ==
    \A j \in Job, a \in Attempts :
        /\ a \in failure[j] => attempt[j][a].status \in Active \cup {"failed"}
        /\ a \in failure[j] \/ attempt[j][a].status \in Ended => Quiet(j, a)
        /\ a > job[j].cur => /\ a \notin failure[j]
                             /\ attempt[j][a].status \in {"none", "starting"}
                             /\ Quiet(j, a)

LiveInv ==
    \A j \in Job \ damaged, a \in Attempts :
        Alive(j, a) /\ ~group[j][a].adopted =>
            /\ a = job[j].cur
            /\ \/ monitor[j] = "watching"
               \/ launch # NoLaunch /\ launch.at = "identifying" /\ launch.job = j

(* TypeOK, in the parts that actions change together. *)
DiskType ==
    /\ job \in [Job -> [status : {"none"} \cup Active \cup Final, cur : 0..MaxAttempts]]
    /\ attempt \in [Job -> [Attempts ->
            [status : {"none"} \cup Active \cup Final, known : BOOLEAN]]]
    /\ failure \in [Job -> SUBSET Attempts]
    /\ events \in [Job -> Seq([type : {"started"} \cup Final, att : 0..MaxAttempts])]

GroupType == group \in [Job -> [Attempts -> Group]]

LaunchType ==
    launch \in {NoLaunch} \cup
        [at : {"spawning", "identifying"}, by : {"start", "retry"}, job : Job, att : Attempts]

TaskType ==
    /\ monitor \in [Job -> {"none", "watching", "died"}]
    /\ requested \in [Job -> BOOLEAN]
    /\ logError \in [Job -> BOOLEAN]
    /\ handling \in [Job -> SUBSET Attempts]

CancelType ==
    cancel \in [Job -> [Canceller -> {NoCancel} \cup [at : {"grace", "await"}, att : Attempts]]]

DaemonType ==
    /\ daemon \in {"down", "recovering", "up", "sweeping"}
    /\ todo \in [kill : SUBSET Job, seal : SUBSET Job]
    /\ accepting \in BOOLEAN
    /\ lives \in 1..MaxLives
    /\ errors \in 0..MaxErrors
    /\ damaged \in SUBSET Job

LEMMA TypeParts ==
    /\ TypeOK <=> DiskType /\ GroupType /\ LaunchType /\ TaskType /\ CancelType /\ DaemonType
    /\ TypeOK' <=> DiskType' /\ GroupType' /\ LaunchType' /\ TaskType' /\ CancelType' /\ DaemonType'
  BY Zenon DEF TypeOK, DiskType, GroupType, LaunchType, TaskType, CancelType, DaemonType

IInv ==
    /\ DiskType /\ GroupType /\ LaunchType /\ TaskType /\ CancelType /\ DaemonType
    /\ DaemonInv /\ LaunchInv /\ WatchInv /\ FreshInv /\ SealInv /\ LiveInv /\ KilledInv

(***************************************************************************)
(* Steps that leave the records alone and only end processes               *)
(***************************************************************************)
\* Who is killed without his group was alive.
Fading(h, g) ==
    /\ h.leader = "alive" => g.leader = "alive"
    /\ h.rest = "pipes" => g.rest = "pipes" \/ g.leader = "alive"
    /\ h.leader = "killed" /\ h.rest # "none" =>
            g.leader = "alive" \/ (g.leader = "killed" /\ g.rest # "none")

Calmer(h, g) ==
    /\ Fading(h, g)
    /\ h.leader = "killed" /\ h.rest # "none" => g.leader = "killed" /\ g.rest # "none"
    /\ h.adopted <=> g.adopted

AllCalmer == \A j \in Job, a \in Attempts : Calmer(group'[j][a], group[j][a])

LEMMA CalmKeeps ==
    ASSUME IInv, AllCalmer, UNCHANGED <<disk, launch, monitor, damaged>>
    PROVE  LaunchInv' /\ WatchInv' /\ FreshInv' /\ SealInv' /\ LiveInv' /\ KilledInv'
  <1>1. LaunchInv'
    BY DEF IInv, LaunchInv, AllCalmer, Calmer, Fading, LaunchType, NoLaunch, Quiet, Alive, disk
  <1>2. WatchInv' /\ FreshInv'
    BY DEF IInv, WatchInv, FreshInv, AllCalmer, Calmer, disk
  <1>3. SealInv'
    BY DEF IInv, SealInv, AllCalmer, Calmer, Fading, Quiet, Alive, disk
  <1>4. LiveInv'
    BY DEF IInv, LiveInv, AllCalmer, Calmer, Fading, Alive, disk
  <1>5. KilledInv'
    BY DEF IInv, KilledInv, AllCalmer, Calmer
  <1> QED
    BY <1>1, <1>2, <1>3, <1>4, <1>5

LEMMA SameIsCalmer ==
    ASSUME UNCHANGED group PROVE AllCalmer
  BY DEF AllCalmer, Calmer, Fading

\* One group changes, for one that is calmer.
LEMMA OneCalmer ==
    ASSUME NEW j \in Job, NEW a \in Attempts, GroupType,
           NEW g \in Group,
           Calmer(g, group[j][a]),
           group' = [group EXCEPT ![j][a] = g]
    PROVE  AllCalmer /\ GroupType'
  <1>1. GroupType'
    BY DEF GroupType
  <1>2. AllCalmer
    BY DEF GroupType, AllCalmer, Calmer, Fading, Group
  <1> QED
    BY <1>1, <1>2

\* What a CALM step has to show: the records and the launch stay, and the rest.
LEMMA CalmInv ==
    ASSUME IInv, AllCalmer, UNCHANGED <<disk, launch, monitor, damaged>>,
           GroupType', TaskType', CancelType', DaemonType', DaemonInv'
    PROVE  IInv'
  <1>1. DiskType' /\ LaunchType'
    BY DEF IInv, DiskType, LaunchType, disk
  <1> QED
    BY <1>1, CalmKeeps DEF IInv

LEMMA CurrentWatched ==
    ASSUME IInv, NEW j \in Job, Watched(j)
    PROVE  Current(j) \in Attempts
  BY DEF IInv, WatchInv, Watched, Current

LEMMA KilledIsCalmer ==
    ASSUME GroupType, NEW j \in Job, NEW a \in Attempts, Alive(j, a)
    PROVE  /\ Killed(group[j][a]) \in Group
           /\ Calmer(Killed(group[j][a]), group[j][a])
  BY DEF Alive, GroupType, Group, Rest, Killed, Becomes, Calmer, Fading, Leader

LEMMA LeaderExitsInv ==
    ASSUME IInv, NEW j \in Job, NEW a \in Attempts, LeaderExits(j, a)
    PROVE  IInv'
  <1>1. PICK code \in Codes(group[j][a]), rest \in Rest :
            group' = [group EXCEPT ![j][a] = Becomes(group[j][a], code, rest)]
    BY DEF LeaderExits, IInv, GroupType
  <1> DEFINE g == Becomes(group[j][a], code, rest)
  <1>2. g \in Group /\ Calmer(g, group[j][a])
    BY DEF LeaderExits, Alive, IInv, GroupType, Group, Leader, Codes, Calmer, Fading, Becomes
  <1>3. group' = [group EXCEPT ![j][a] = g]
    BY <1>1
  <1>4. AllCalmer /\ GroupType'
    BY <1>2, <1>3, OneCalmer DEF IInv
  <1>5. TaskType' /\ CancelType' /\ DaemonType' /\ DaemonInv'
    BY DEF LeaderExits, IInv, TaskType, CancelType, DaemonType, DaemonInv, tasks, Attempts
  <1> QED
    BY <1>4, <1>5, CalmInv DEF LeaderExits, tasks

LEMMA RestExitsInv ==
    ASSUME IInv, NEW j \in Job, NEW a \in Attempts, RestExits(j, a)
    PROVE  IInv'
  <1>1. PICK rest \in {"none", "strays"} : group' = [group EXCEPT ![j][a].rest = rest]
    BY DEF RestExits
  <1> DEFINE g == [group[j][a] EXCEPT !.rest = rest]
  <1>2. g \in Group /\ Calmer(g, group[j][a])
    BY DEF RestExits, IInv, GroupType, Group, Rest, Calmer, Fading
  <1>3. group' = [group EXCEPT ![j][a] = g]
    BY <1>1 DEF IInv, GroupType
  <1>4. AllCalmer /\ GroupType'
    BY <1>2, <1>3, OneCalmer DEF IInv
  <1>5. TaskType' /\ CancelType' /\ DaemonType' /\ DaemonInv'
    BY DEF RestExits, IInv, TaskType, CancelType, DaemonType, DaemonInv, tasks, Attempts
  <1> QED
    BY <1>4, <1>5, CalmInv DEF RestExits, tasks

LEMMA StraysExitInv ==
    ASSUME IInv, NEW j \in Job, NEW a \in Attempts, StraysExit(j, a)
    PROVE  IInv'
  <1> DEFINE g == [group[j][a] EXCEPT !.rest = "none"]
  <1>1. group[j][a] \in Group
    BY DEF IInv, GroupType
  <1>2. g \in Group /\ Calmer(g, group[j][a])
    BY <1>1 DEF Group, Rest, Calmer, Fading
  <1>3. group' = [group EXCEPT ![j][a] = g]
    BY DEF StraysExit, IInv, GroupType
  <1>4. AllCalmer /\ GroupType'
    BY <1>2, <1>3, OneCalmer DEF IInv
  <1>5. TaskType' /\ CancelType' /\ DaemonType' /\ DaemonInv'
    BY DEF StraysExit, IInv, TaskType, CancelType, DaemonType, DaemonInv, tasks, Attempts
  <1> QED
    BY <1>4, <1>5, CalmInv DEF StraysExit, tasks

LEMMA LogFailsInv ==
    ASSUME IInv, NEW j \in Job, LogFails(j)
    PROVE  IInv'
  <1>1. AllCalmer /\ GroupType'
    BY SameIsCalmer DEF LogFails, IInv, GroupType
  <1>2. TaskType' /\ CancelType'
    BY DEF LogFails, IInv, TaskType, CancelType
  <1>3. DaemonType' /\ DaemonInv'
    BY SupervisorAssumption DEF LogFails, IInv, DaemonType, DaemonInv
  <1> QED
    BY <1>1, <1>2, <1>3, CalmInv DEF LogFails

LEMMA LogGraceEndsInv ==
    ASSUME IInv, NEW j \in Job, LogGraceEnds(j)
    PROVE  IInv'
  <1>1. Current(j) \in Attempts
    BY CurrentWatched DEF LogGraceEnds
  <1>2. group' = [group EXCEPT ![j][Current(j)] = Killed(group[j][Current(j)])]
    BY <1>1 DEF LogGraceEnds, IInv, GroupType
  <1>3. AllCalmer /\ GroupType'
    BY <1>1, <1>2, OneCalmer, KilledIsCalmer DEF LogGraceEnds, IInv
  <1>5. TaskType' /\ CancelType' /\ DaemonType' /\ DaemonInv'
    BY DEF LogGraceEnds, IInv, TaskType, CancelType, DaemonType, DaemonInv, tasks
  <1> QED
    BY <1>3, <1>5, CalmInv DEF LogGraceEnds, tasks

LEMMA CallbackEndsInv ==
    ASSUME IInv, NEW j \in Job, NEW a \in Attempts, CallbackEnds(j, a)
    PROVE  IInv'
  <1>1. AllCalmer /\ GroupType'
    BY SameIsCalmer DEF CallbackEnds, IInv, GroupType
  <1>2. TaskType' /\ CancelType'
    BY DEF CallbackEnds, IInv, TaskType, CancelType
  <1>3. DaemonType' /\ DaemonInv'
    BY DEF CallbackEnds, IInv, DaemonType, DaemonInv
  <1> QED
    BY <1>1, <1>2, <1>3, CalmInv DEF CallbackEnds

(***************************************************************************)
(* Cancellation, shutdown and recovery, without the writes                 *)
(***************************************************************************)
LEMMA CancelCallType ==
    ASSUME IInv, NEW j \in Job, Watched(j)
    PROVE  CancelCall(j) \in [at : {"grace", "await"}, att : Attempts]
  BY CurrentWatched DEF CancelCall

LEMMA CancelInv ==
    ASSUME IInv, NEW j \in Job, Cancel(j)
    PROVE  IInv'
  <1>1. AllCalmer /\ GroupType'
    BY SameIsCalmer DEF Cancel, IInv, GroupType
  <1>2. CancelType'
    BY CancelCallType DEF Cancel, IInv, CancelType, Canceller
  <1>3. TaskType'
    BY DEF Cancel, IInv, TaskType
  <1>4. DaemonType' /\ DaemonInv'
    BY DEF Cancel, IInv, DaemonType, DaemonInv
  <1> QED
    BY <1>1, <1>2, <1>3, <1>4, CalmInv DEF Cancel

LEMMA CancelGraceEndsInv ==
    ASSUME IInv, NEW j \in Job, NEW c \in Canceller, CancelGraceEnds(j, c)
    PROVE  IInv'
  <1> DEFINE a == cancel[j][c].att
  <1>1. a \in Attempts /\ CancelType'
    BY DEF CancelGraceEnds, IInv, CancelType, NoCancel
  <1> DEFINE g == IF group[j][a].leader = "alive" THEN Killed(group[j][a]) ELSE group[j][a]
  <1>2. g \in Group /\ Calmer(g, group[j][a])
    BY <1>1, KilledIsCalmer DEF IInv, GroupType, Alive, Calmer, Fading
  <1>3. group' = [group EXCEPT ![j][a] = g]
    BY <1>1 DEF CancelGraceEnds, IInv, GroupType
  <1>4. AllCalmer /\ GroupType'
    BY <1>1, <1>2, <1>3, OneCalmer DEF IInv
  <1>5. TaskType' /\ DaemonType' /\ DaemonInv'
    BY DEF CancelGraceEnds, IInv, TaskType, DaemonType, DaemonInv, tasks
  <1> QED
    BY <1>1, <1>4, <1>5, CalmInv DEF CancelGraceEnds, tasks

LEMMA CancelReturnsInv ==
    ASSUME IInv, NEW j \in Job, NEW c \in Canceller, CancelReturns(j, c)
    PROVE  IInv'
  <1>1. AllCalmer /\ GroupType'
    BY SameIsCalmer DEF CancelReturns, IInv, GroupType
  <1>2. CancelType'
    BY DEF CancelReturns, IInv, CancelType
  <1>3. TaskType' /\ DaemonType' /\ DaemonInv'
    BY DEF CancelReturns, IInv, TaskType, DaemonType, DaemonInv, tasks
  <1> QED
    BY <1>1, <1>2, <1>3, CalmInv DEF CancelReturns, tasks

LEMMA StopStartingInv == IInv /\ StopStarting => IInv'
  <1> SUFFICES ASSUME IInv, StopStarting PROVE IInv'
    OBVIOUS
  <1>1. AllCalmer /\ GroupType'
    BY SameIsCalmer DEF StopStarting, IInv, GroupType
  <1>2. CancelType' /\ TaskType' /\ DaemonType' /\ DaemonInv'
    BY DEF StopStarting, IInv, CancelType, TaskType, DaemonType, DaemonInv, tasks
  <1> QED
    BY <1>1, <1>2, CalmInv DEF StopStarting, tasks

LEMMA SweepInv == IInv /\ Sweep => IInv'
  <1> SUFFICES ASSUME IInv, Sweep PROVE IInv'
    OBVIOUS
  <1>1. AllCalmer /\ GroupType'
    BY SameIsCalmer DEF Sweep, IInv, GroupType
  <1>2. CancelType'
    <2>1. \A j \in Job : Watched(j) =>
              [cancel[j] EXCEPT !["sweep"] = CancelCall(j)] \in
              [Canceller -> {NoCancel} \cup [at : {"grace", "await"}, att : Attempts]]
      BY CancelCallType DEF IInv, CancelType, Canceller
    <2> QED
      BY <2>1 DEF Sweep, IInv, CancelType
  <1>3. TaskType'
    BY DEF Sweep, IInv, TaskType
  <1>4. DaemonType' /\ DaemonInv'
    BY DEF Sweep, IInv, DaemonType, DaemonInv
  <1> QED
    BY <1>1, <1>2, <1>3, <1>4, CalmInv DEF Sweep

LEMMA RestartInv == IInv /\ Restart => IInv'
  <1> SUFFICES ASSUME IInv, Restart PROVE IInv'
    OBVIOUS
  <1>1. AllCalmer /\ GroupType'
    BY SameIsCalmer DEF Restart, IInv, GroupType
  <1>2. CancelType' /\ TaskType'
    BY DEF Restart, IInv, CancelType, TaskType, tasks
  <1>3. DaemonType' /\ DaemonInv'
    BY DEF Restart, IInv, DaemonType, DaemonInv, tasks
  <1> QED
    BY <1>1, <1>2, <1>3, CalmInv DEF Restart, tasks

LEMMA TerminateInv ==
    ASSUME IInv, NEW j \in Job, Terminate(j)
    PROVE  IInv'
  <1> DEFINE a == Current(j)
  <1>1. DaemonType' /\ DaemonInv' /\ CancelType' /\ TaskType'
    BY DEF Terminate, IInv, CancelType, TaskType, tasks, DaemonType, DaemonInv
  <1>2. PICK g \in IF attempt[j][a].known THEN Terminated(group[j][a]) ELSE {group[j][a]} :
            group' = [group EXCEPT ![j][a] = g]
    BY DEF Terminate
  <1>3. CASE a \in Attempts
    <2>1. g \in Group /\ Calmer(g, group[j][a])
      <3>1. CASE g = group[j][a]
        BY <3>1, <1>3 DEF IInv, GroupType, Calmer, Fading
      <3>2. CASE group[j][a].leader = "alive" /\ g = Killed(group[j][a])
        BY <3>2, <1>3, KilledIsCalmer DEF Alive, IInv
      <3>3. CASE /\ group[j][a].leader = "alive"
                 /\ \E code \in Codes(group[j][a]), rest \in Rest :
                        g = Becomes(group[j][a], code, rest)
        BY <3>3, <1>3 DEF IInv, GroupType, Group, Codes, Calmer, Fading, Becomes, Leader
      <3> QED
        BY <1>2, <3>1, <3>2, <3>3 DEF Terminated
    <2> QED
      BY <2>1, <1>1, <1>2, <1>3, OneCalmer, CalmInv DEF IInv, Terminate, tasks
  <1>4. CASE a \notin Attempts
    <2>1. group' = group
      BY <1>2, <1>4 DEF IInv, GroupType
    <2> QED
      BY <2>1, <1>1, SameIsCalmer, CalmInv DEF IInv, GroupType, Terminate, tasks
  <1> QED
    BY <1>3, <1>4

LEMMA ServeInv == IInv /\ Serve => IInv'
  <1> SUFFICES ASSUME IInv, Serve PROVE IInv'
    OBVIOUS
  <1>1. AllCalmer /\ GroupType'
    BY SameIsCalmer DEF Serve, IInv, GroupType
  <1>2. CancelType' /\ TaskType'
    BY DEF Serve, IInv, CancelType, TaskType, tasks
  <1>3. DaemonType' /\ DaemonInv'
    BY SupervisorAssumption DEF Serve, IInv, DaemonType, DaemonInv, tasks
  <1> QED
    BY <1>1, <1>2, <1>3, CalmInv DEF Serve, tasks

(***************************************************************************)
(* The writes.  Each lemma is about any number k of them, whatever follows *)
(* the last: the group changes as it may, if what was quiet stays so.      *)
(***************************************************************************)
StaysQuiet == \A j \in Job, a \in Attempts : Quiet(j, a) => Quiet(j, a)'

EndsStay ==
    \A j \in Job, a \in Attempts :
        attempt[j][a].status \in Final => attempt'[j][a].status = attempt[j][a].status

Kept == DiskType' /\ FreshInv' /\ SealInv' /\ EndsStay

LEMMA AppendEvent ==
    ASSUME DiskType, NEW j \in Job, NEW t \in {"started"} \cup Final, NEW a \in 0..MaxAttempts
    PROVE  Append(events[j], [type |-> t, att |-> a]) \in
                Seq([type : {"started"} \cup Final, att : 0..MaxAttempts])
  <1> DEFINE E == [type : {"started"} \cup Final, att : 0..MaxAttempts]
             e == [type |-> t, att |-> a]
  <1>1. events[j] \in Seq(E)
    BY DEF DiskType
  <1>2. e \in E
    OBVIOUS
  <1> HIDE DEF E, e
  <1>3. Append(events[j], e) \in Seq(E)
    BY <1>1, <1>2
  <1> QED
    BY <1>3 DEF E, e

LEMMA WriteNewKeeps ==
    ASSUME IInv, StaysQuiet, NEW j \in Job, NEW k \in 0..3, job[j].cur + 1 \in Attempts,
           WriteNew(j, job[j].cur + 1, k)
    PROVE  Kept
  <1> DEFINE a == job[j].cur + 1
  <1>1. DiskType'
    <2>1. job' \in [Job -> [status : {"none"} \cup Active \cup Final, cur : 0..MaxAttempts]]
      BY SupervisorAssumption DEF IInv, DiskType, WriteNew, Active, Attempts
    <2>2. attempt' \in [Job -> [Attempts ->
                [status : {"none"} \cup Active \cup Final, known : BOOLEAN]]]
      BY DEF IInv, DiskType, WriteNew, Active
    <2> QED
      BY <2>1, <2>2 DEF IInv, DiskType, WriteNew
  <1>2. job[j].cur \in 0..MaxAttempts
    BY DEF IInv, DiskType
  <1>3. /\ a \notin failure[j]
        /\ attempt[j][a].status \in {"none", "starting"}
        /\ Quiet(j, a)
    BY <1>2, SupervisorAssumption DEF IInv, SealInv, Attempts
  <1>4. FreshInv'
    BY DEF IInv, DiskType, FreshInv, WriteNew
  <1>5. EndsStay
    BY <1>3 DEF IInv, DiskType, EndsStay, WriteNew, Final
  <1>6. SealInv'
    <2> SUFFICES ASSUME NEW i \in Job, NEW b \in Attempts
                 PROVE  /\ b \in failure'[i] => attempt'[i][b].status \in Active \cup {"failed"}
                        /\ b \in failure'[i] \/ attempt'[i][b].status \in Ended => Quiet(i, b)'
                        /\ b > job'[i].cur => /\ b \notin failure'[i]
                                              /\ attempt'[i][b].status \in {"none", "starting"}
                                              /\ Quiet(i, b)'
      BY DEF SealInv
    <2>1. failure' = failure
      BY DEF WriteNew
    <2>2. attempt'[i][b] = attempt[i][b] \/ (i = j /\ b = a /\ attempt'[i][b].status = "starting")
      BY DEF IInv, DiskType, WriteNew
    <2>3. b > job'[i].cur => b > job[i].cur
      BY <1>2, SupervisorAssumption DEF IInv, DiskType, FreshInv, WriteNew, Attempts
    <2> QED
      BY <2>1, <2>2, <2>3, <1>3 DEF IInv, SealInv, StaysQuiet, Ended, Active
  <1> QED
    BY <1>1, <1>4, <1>5, <1>6 DEF Kept

\* The end of the current attempt, whose processes are gone.
LEMMA WriteEndKeeps ==
    ASSUME IInv, StaysQuiet, NEW j \in Job, NEW a \in Attempts, NEW k \in 0..4, NEW s \in Ended,
           a = job[j].cur, attempt[j][a].status \in Active, a \notin failure[j], Quiet(j, a),
           WriteEnd(j, a, s, k)
    PROVE  Kept
  <1>1. DiskType'
    <2>1. events' \in [Job -> Seq([type : {"started"} \cup Final, att : 0..MaxAttempts])]
      <3>1. s \in {"started"} \cup Final /\ a \in 0..MaxAttempts
        BY SupervisorAssumption DEF Ended, Final, Attempts
      <3>2. Append(events[j], [type |-> s, att |-> a]) \in
                Seq([type : {"started"} \cup Final, att : 0..MaxAttempts])
        BY <3>1, AppendEvent DEF IInv
      <3> QED
        BY <3>2 DEF IInv, DiskType, WriteEnd
    <2>2. job' \in [Job -> [status : {"none"} \cup Active \cup Final, cur : 0..MaxAttempts]]
      BY DEF IInv, DiskType, WriteEnd, Ended, Final
    <2>3. attempt' \in [Job -> [Attempts ->
                [status : {"none"} \cup Active \cup Final, known : BOOLEAN]]]
      BY DEF IInv, DiskType, WriteEnd, Ended, Final
    <2>4. failure' \in [Job -> SUBSET Attempts]
      BY DEF IInv, DiskType, WriteEnd
    <2> QED
      BY <2>1, <2>2, <2>3, <2>4 DEF DiskType
  <1>2. \A i \in Job : job'[i].cur = job[i].cur
    BY DEF IInv, DiskType, WriteEnd
  <1>3. FreshInv'
    BY DEF IInv, DiskType, FreshInv, WriteEnd, Ended
  <1>4. \A i \in Job, b \in Attempts :
            attempt'[i][b].status = IF i = j /\ b = a /\ k >= 2 THEN s ELSE attempt[i][b].status
    BY DEF IInv, DiskType, WriteEnd
  <1>5. \A i \in Job, b \in Attempts : b \in failure'[i] =>
            b \in failure[i] \/ (i = j /\ b = a /\ s = "failed")
    BY DEF IInv, DiskType, WriteEnd
  <1>6. EndsStay
    BY <1>4 DEF EndsStay, Active, Final
  <1>7. SealInv'
    <2> SUFFICES ASSUME NEW i \in Job, NEW b \in Attempts
                 PROVE  /\ b \in failure'[i] => attempt'[i][b].status \in Active \cup {"failed"}
                        /\ b \in failure'[i] \/ attempt'[i][b].status \in Ended => Quiet(i, b)'
                        /\ b > job'[i].cur => /\ b \notin failure'[i]
                                              /\ attempt'[i][b].status \in {"none", "starting"}
                                              /\ Quiet(i, b)'
      BY DEF SealInv
    <2>1. CASE i = j /\ b = a
      <3>1. ~(b > job'[i].cur)
        BY <2>1, <1>2 DEF Attempts
      <3>2. Quiet(i, b)'
        BY <2>1 DEF StaysQuiet
      <3>3. b \in failure'[i] => s = "failed"
        BY <2>1, <1>5
      <3> QED
        BY <2>1, <3>1, <3>2, <3>3, <1>4
    <2>2. CASE ~(i = j /\ b = a)
      BY <2>2, <1>2, <1>4, <1>5 DEF IInv, SealInv, StaysQuiet
    <2> QED
      BY <2>1, <2>2
  <1> QED
    BY <1>1, <1>3, <1>6, <1>7 DEF Kept

LEMMA WriteRunningKeeps ==
    ASSUME IInv, StaysQuiet, NEW j \in Job, NEW a \in Attempts, NEW k \in 0..3,
           NEW identified \in BOOLEAN,
           a = job[j].cur, attempt[j][a].status = "starting", a \notin failure[j],
           WriteRunning(j, a, identified, k)
    PROVE  Kept
  <1>1. DiskType'
    <2>1. events' \in [Job -> Seq([type : {"started"} \cup Final, att : 0..MaxAttempts])]
      <3>1. a \in 0..MaxAttempts
        BY SupervisorAssumption DEF Attempts
      <3>2. Append(events[j], [type |-> "started", att |-> a]) \in
                Seq([type : {"started"} \cup Final, att : 0..MaxAttempts])
        BY <3>1, AppendEvent DEF IInv
      <3> QED
        BY <3>2 DEF IInv, DiskType, WriteRunning
    <2>2. job' \in [Job -> [status : {"none"} \cup Active \cup Final, cur : 0..MaxAttempts]]
      BY DEF IInv, DiskType, WriteRunning, Active
    <2>3. attempt' \in [Job -> [Attempts ->
                [status : {"none"} \cup Active \cup Final, known : BOOLEAN]]]
      BY DEF IInv, DiskType, WriteRunning, Active
    <2> QED
      BY <2>1, <2>2, <2>3 DEF IInv, DiskType, WriteRunning
  <1>2. \A i \in Job : job'[i].cur = job[i].cur
    BY DEF IInv, DiskType, WriteRunning
  <1>3. FreshInv'
    BY DEF IInv, DiskType, FreshInv, WriteRunning
  <1>4. \A i \in Job, b \in Attempts :
            \/ attempt'[i][b] = attempt[i][b]
            \/ i = j /\ b = a /\ attempt'[i][b].status = "running"
    BY DEF IInv, DiskType, WriteRunning
  <1>5. EndsStay
    BY <1>4 DEF EndsStay, Final
  <1>6. SealInv'
    BY <1>2, <1>4 DEF IInv, SealInv, StaysQuiet, WriteRunning, Active, Ended, Attempts
  <1> QED
    BY <1>1, <1>3, <1>5, <1>6 DEF Kept

LEMMA WriteSealKeeps ==
    ASSUME IInv, StaysQuiet, NEW j \in Job, NEW k \in 0..3, WriteSeal(j, k)
    PROVE  Kept
  <1> DEFINE a == Current(j)
             s == IF a \in failure[j] THEN "failed" ELSE "interrupted"
  <1>1. DiskType'
    <2>1. events' \in [Job -> Seq([type : {"started"} \cup Final, att : 0..MaxAttempts])]
      <3>1. s \in {"started"} \cup Final /\ a \in 0..MaxAttempts
        BY DEF Final, Current, IInv, DiskType
      <3>2. Append(events[j], [type |-> s, att |-> a]) \in
                Seq([type : {"started"} \cup Final, att : 0..MaxAttempts])
        BY <3>1, AppendEvent DEF IInv
      <3> QED
        BY <3>2 DEF IInv, DiskType, WriteSeal
    <2>2. job' \in [Job -> [status : {"none"} \cup Active \cup Final, cur : 0..MaxAttempts]]
      BY DEF IInv, DiskType, WriteSeal, Final
    <2>3. attempt' \in [Job -> [Attempts ->
                [status : {"none"} \cup Active \cup Final, known : BOOLEAN]]]
      BY DEF IInv, DiskType, WriteSeal, Final
    <2> QED
      BY <2>1, <2>2, <2>3 DEF IInv, DiskType, WriteSeal
  <1>2. \A i \in Job : job'[i].cur = job[i].cur
    BY DEF IInv, DiskType, WriteSeal
  <1>3. FreshInv'
    BY DEF IInv, DiskType, FreshInv, WriteSeal
  <1>4. \A i \in Job, b \in Attempts :
            \/ attempt'[i][b].status = attempt[i][b].status
            \/ /\ i = j /\ b = job[j].cur
               /\ \/ b \in failure[j] /\ attempt'[i][b].status = "failed"
                  \/ /\ b \notin failure[j] /\ attempt[i][b].status \in Active
                     /\ attempt'[i][b].status = "interrupted"
    BY DEF IInv, DiskType, WriteSeal, Current
  <1>5. failure' = failure
    BY DEF WriteSeal
  <1>6. EndsStay
    BY <1>4 DEF IInv, SealInv, EndsStay, Active, Final
  <1>7. SealInv'
    <2> SUFFICES ASSUME NEW i \in Job, NEW b \in Attempts
                 PROVE  /\ b \in failure[i] => attempt'[i][b].status \in Active \cup {"failed"}
                        /\ b \in failure[i] \/ attempt'[i][b].status \in Ended => Quiet(i, b)'
                        /\ b > job[i].cur => /\ b \notin failure[i]
                                             /\ attempt'[i][b].status \in {"none", "starting"}
                                             /\ Quiet(i, b)'
      BY <1>2, <1>5 DEF SealInv
    <2>1. /\ b \in failure[i] => attempt[i][b].status \in Active \cup {"failed"}
          /\ b \in failure[i] \/ attempt[i][b].status \in Ended => Quiet(i, b)'
          /\ b > job[i].cur => /\ b \notin failure[i]
                               /\ attempt[i][b].status \in {"none", "starting"}
                               /\ Quiet(i, b)'
      BY DEF IInv, SealInv, StaysQuiet
    <2>2. job[i].cur \in Nat /\ b \in Nat
      BY DEF IInv, DiskType, Attempts
    <2>3. CASE attempt'[i][b].status = attempt[i][b].status
      BY <2>1, <2>3
    <2>4. CASE /\ b = job[i].cur /\ b \in failure[i] /\ attempt'[i][b].status = "failed"
      BY <2>1, <2>2, <2>4
    <2>5. CASE /\ b = job[i].cur /\ b \notin failure[i]
               /\ attempt'[i][b].status = "interrupted"
      BY <2>1, <2>2, <2>5 DEF Ended
    <2> QED
      BY <1>4, <2>3, <2>4, <2>5
  <1> QED
    BY <1>1, <1>3, <1>6, <1>7 DEF Kept

(***************************************************************************)
(* The steps that write                                                    *)
(***************************************************************************)
LEMMA SameKilled == IInv /\ UNCHANGED group => KilledInv'
  BY DEF IInv, KilledInv

LEMMA SameStaysQuiet ==
    ASSUME UNCHANGED group PROVE StaysQuiet
  BY DEF StaysQuiet, Quiet, Alive

\* The daemon is gone, with k writes done.
LEMMA GoneStaysQuiet ==
    ASSUME NEW left, \A j \in Job, a \in Attempts : Fading(left[j][a], group[j][a]), Gone(left)
    PROVE  StaysQuiet
  BY DEF Gone, Fading, StaysQuiet, Quiet, Alive

LEMMA GoneInv ==
    ASSUME IInv, Kept,
           NEW left \in [Job -> [Attempts -> Group]],
           Gone(left)
    PROVE  IInv'
  <1>1. GroupType'
    BY DEF Gone, GroupType, Group, Leader
  <1>2. LaunchType' /\ TaskType'
    BY DEF Gone, LaunchType, TaskType, Everywhere
  <1>3. CancelType'
    BY DEF Gone, CancelType, Everywhere, NoCalls
  <1>4. DaemonType'
    BY DEF IInv, Gone, DaemonType, NoTodo
  <1>5. DaemonInv' /\ LaunchInv' /\ WatchInv'
    BY DEF Gone, DaemonInv, LaunchInv, WatchInv, Everywhere
  <1>6. LiveInv'
    BY DEF Gone, LiveInv, Alive, Group, Leader
  <1>7. KilledInv'
    BY DEF Gone, KilledInv
  <1> QED
    BY <1>1, <1>2, <1>3, <1>4, <1>5, <1>6, <1>7 DEF Kept, IInv

LEMMA SameIsKept == IInv /\ UNCHANGED disk /\ StaysQuiet => Kept
  BY DEF IInv, Kept, DiskType, FreshInv, SealInv, StaysQuiet, EndsStay, disk

\* What each step is proved to do.
Step == IInv' /\ EndsStay

LEMMA DiesStep ==
    ASSUME IInv, StaysQuiet => Kept, Dies
    PROVE  Step
  <1>1. group \in [Job -> [Attempts -> Group]]
    BY DEF IInv, GroupType
  <1>2. StaysQuiet
    BY GoneStaysQuiet DEF Dies, Fading
  <1> QED
    BY <1>1, <1>2, GoneInv DEF Dies, Kept, Step

LEMMA CrashStep == IInv /\ Crash => Step
  BY DiesStep, SameIsKept DEF Crash

LEMMA ExitStep == IInv /\ Exit => Step
  <1> SUFFICES ASSUME IInv, Exit PROVE Step
    OBVIOUS
  <1>1. PICK collected \in SUBSET {p \in Job \X Attempts :
                Alive(p[1], p[2]) /\ ~group[p[1]][p[2]].adopted} :
        \E rest \in [collected -> Rest] :
            Gone([j \in Job |-> [a \in Attempts |->
                IF <<j, a>> \in collected
                THEN Becomes(group[j][a], "killed", rest[<<j, a>>]) ELSE group[j][a]]])
    BY DEF Exit
  <1>2. PICK rest \in [collected -> Rest] :
            Gone([j \in Job |-> [a \in Attempts |->
                IF <<j, a>> \in collected
                THEN Becomes(group[j][a], "killed", rest[<<j, a>>]) ELSE group[j][a]]])
    BY <1>1
  <1> DEFINE left == [j \in Job |-> [a \in Attempts |->
                IF <<j, a>> \in collected
                THEN Becomes(group[j][a], "killed", rest[<<j, a>>]) ELSE group[j][a]]]
  <1>3. \A j \in Job, a \in Attempts :
            /\ left[j][a] \in Group
            /\ Fading(left[j][a], group[j][a])
    <2> SUFFICES ASSUME NEW j \in Job, NEW a \in Attempts
                 PROVE  left[j][a] \in Group /\ Fading(left[j][a], group[j][a])
      OBVIOUS
    <2>1. group[j][a] \in Group
      BY DEF IInv, GroupType
    <2>2. CASE <<j, a>> \in collected
      <3>1. Alive(j, a) /\ rest[<<j, a>>] \in Rest
        BY <2>2
      <3> QED
        BY <2>1, <2>2, <3>1 DEF Group, Becomes, Leader, Alive, Fading
    <2>3. CASE <<j, a>> \notin collected
      BY <2>1, <2>3 DEF Fading
    <2> QED
      BY <2>2, <2>3
  <1>4. left \in [Job -> [Attempts -> Group]]
    BY <1>3
  <1>5. Gone(left)
    BY <1>2
  <1> HIDE DEF left
  <1>6. Kept
    BY <1>3, <1>5, GoneStaysQuiet, SameIsKept DEF Exit
  <1> QED
    BY <1>4, <1>5, <1>6, GoneInv DEF Kept, Step

\* A step of which only processes can be seen on disk.
LEMMA QuietStep == IInv' /\ UNCHANGED attempt => Step
  BY DEF Step, EndsStay

LEMMA BeginStep ==
    ASSUME IInv, NEW j \in Job, NEW by \in {"start", "retry"}, monitor[j] # "watching",
           Begin(j, by)
    PROVE  Step
  <1> DEFINE a == job[j].cur + 1
  <1>1. a \in Attempts /\ launch = NoLaunch
    BY DEF Begin
  <1>2. /\ a > job[j].cur
        /\ a \notin failure[j] /\ Quiet(j, a)
    BY <1>1 DEF IInv, DiskType, SealInv
  <1>3. \A b \in Attempts : j \notin damaged /\ Alive(j, b) => group[j][b].adopted
    BY <1>1 DEF IInv, LiveInv
  <1>4. ASSUME NEW k \in 0..3, WriteNew(j, a, k), UNCHANGED <<monitor, group>>
        PROVE  WatchInv'
    BY <1>4 DEF IInv, DiskType, WatchInv, WriteNew
  <1>5. CASE /\ WriteNew(j, a, 3)
             /\ launch' = [at |-> "spawning", by |-> by, job |-> j, att |-> a]
             /\ UNCHANGED <<group, daemon, todo, accepting, tasks, cancel, lives, errors, damaged>>
    <2>1. Kept
      BY <1>1, <1>5, SameStaysQuiet, WriteNewKeeps
    <2>2. GroupType' /\ TaskType' /\ CancelType' /\ DaemonType' /\ LaunchType'
      BY <1>1, <1>5 DEF IInv, GroupType, TaskType, CancelType, DaemonType, LaunchType, tasks
    <2>3. DaemonInv'
      BY <1>5 DEF Begin, IInv, DaemonInv
    <2>4. WatchInv'
      BY <1>4, <1>5 DEF tasks
    <2>5. LaunchInv'
      <3>1. attempt'[j][a].status = "starting" /\ job'[j].cur = a
        BY <1>1, <1>5 DEF IInv, DiskType, WriteNew
      <3> QED
        BY <3>1, <1>2, <1>5 DEF LaunchInv, WriteNew, Quiet, Alive, tasks
    <2>6. LiveInv'
      BY <1>1, <1>3, <1>5 DEF IInv, DiskType, LiveInv, WriteNew, Alive, tasks
    <2> QED
      BY <2>1, <2>2, <2>3, <2>4, <2>5, <2>6, <1>5, SameKilled DEF Kept, IInv, Step
  <1>6. ASSUME NEW k \in 0..3, WriteNew(j, a, k), Dies
        PROVE  Step
    BY <1>1, <1>6, WriteNewKeeps, DiesStep
  <1>7. ASSUME NEW k \in 0..3, WriteNew(j, a, k), Raises(j),
               UNCHANGED <<group, daemon, todo, accepting, launch, tasks, cancel, lives>>
        PROVE  Step
    <2>1. Kept
      BY <1>1, <1>7, SameStaysQuiet, WriteNewKeeps
    <2>2. GroupType' /\ TaskType' /\ CancelType' /\ LaunchType'
      BY <1>7 DEF IInv, GroupType, TaskType, CancelType, LaunchType, tasks
    <2>3. DaemonType' /\ DaemonInv'
      BY <1>7, SupervisorAssumption DEF IInv, DaemonType, DaemonInv, Raises, tasks
    <2>4. WatchInv'
      BY <1>4, <1>7 DEF tasks
    <2>5. LaunchInv'
      BY <1>1, <1>7 DEF LaunchInv
    <2>6. LiveInv'
      BY <1>1, <1>7 DEF IInv, DiskType, LiveInv, WriteNew, Alive, Raises, tasks
    <2> QED
      BY <2>1, <2>2, <2>3, <2>4, <2>5, <2>6, <1>7, SameKilled DEF Kept, IInv, Step
  <1> QED
    BY <1>5, <1>6, <1>7 DEF Begin

LEMMA StartStep ==
    ASSUME IInv, NEW j \in Job, Start(j) PROVE Step
  <1>1. monitor[j] # "watching"
    BY DEF Start, IInv, WatchInv
  <1> QED
    BY <1>1, BeginStep DEF Start

LEMMA RetryStep ==
    ASSUME IInv, NEW j \in Job, Retry(j) PROVE Step
  BY BeginStep DEF Retry

LEMMA SpawnStep == IInv /\ Spawn => Step
  <1> SUFFICES ASSUME IInv, Spawn PROVE Step
    OBVIOUS
  <1> DEFINE j == launch.job
             a == launch.att
  <1>1. /\ launch # NoLaunch
        /\ launch \in [at : {"spawning", "identifying"}, by : {"start", "retry"}, job : Job, att : Attempts]
    BY DEF Spawn, NoLaunch, IInv, LaunchType
  <1>2. /\ a = job[j].cur /\ monitor[j] # "watching"
        /\ attempt[j][a].status = "starting" /\ a \notin failure[j]
    BY <1>1 DEF IInv, LaunchInv
  <1>3. j \in Job /\ a \in Attempts
    BY <1>1
  <1>4. GroupType'
    BY <1>3 DEF Spawn, IInv, GroupType, Group, Rest, NoGroup, Leader
  <1>5. LaunchType'
    BY <1>1 DEF Spawn, LaunchType
  <1>6. launch'.at = "identifying" /\ launch'.job = j /\ launch'.att = a /\ launch' # NoLaunch
    BY <1>1 DEF Spawn, NoLaunch
  <1>7. DiskType' /\ FreshInv' /\ TaskType' /\ CancelType' /\ DaemonType'
    BY DEF Spawn, IInv, DiskType, FreshInv, TaskType, CancelType, DaemonType, disk, tasks
  <1>10. /\ \A i \in Job, b \in Attempts :
                group'[i][b] = group[i][b] \/ (i = j /\ b = a)
         /\ group'[j][a].adopted = FALSE
    BY <1>3 DEF Spawn, IInv, GroupType, NoGroup
  <1>8. DaemonInv' /\ WatchInv'
    BY <1>1, <1>2, <1>10 DEF Spawn, IInv, DaemonInv, WatchInv, disk, tasks
  <1>9. LaunchInv'
    BY <1>2, <1>6, <1>10 DEF Spawn, LaunchInv, disk, tasks
  <1>11. SealInv'
    <2>1. ~(a > job[j].cur)
      BY <1>2, <1>3 DEF Attempts
    <2> QED
      BY <1>2, <1>10, <2>1 DEF Spawn, IInv, SealInv, Quiet, Alive, Ended, disk
  <1>12. LiveInv'
    BY <1>2, <1>6, <1>10 DEF Spawn, IInv, LiveInv, Alive, disk, tasks
  <1>13. KilledInv'
    <2>1. group'[j][a].leader = "alive"
      BY <1>3 DEF Spawn, IInv, GroupType, NoGroup
    <2> QED
      BY <1>10, <2>1 DEF IInv, KilledInv
  <1> QED
    BY <1>4, <1>5, <1>7, <1>8, <1>9, <1>11, <1>12, <1>13, QuietStep DEF IInv, Spawn, disk

\* What holds of the attempt being launched.
LEMMA Launched ==
    ASSUME IInv, launch.at # "idle"
    PROVE  /\ launch # NoLaunch
           /\ launch.job \in Job /\ launch.att \in Attempts
           /\ launch.att = job[launch.job].cur /\ monitor[launch.job] # "watching"
           /\ attempt[launch.job][launch.att].status = "starting"
           /\ launch.att \notin failure[launch.job]
           /\ launch.at = "spawning" => Quiet(launch.job, launch.att)
  <1>1. launch # NoLaunch
    BY DEF NoLaunch
  <1> QED
    BY <1>1 DEF IInv, LaunchType, LaunchInv

\* The launch is over, with a write that failed: the job is damaged.
LEMMA LaunchRaises ==
    ASSUME IInv, launch.at # "idle", Kept, Raises(launch.job), launch' = NoLaunch,
           \A i \in Job : job'[i].cur = job[i].cur,
           \A i \in Job \ {launch.job} :
                job'[i] = job[i] /\ attempt'[i] = attempt[i] /\ failure'[i] = failure[i],
           UNCHANGED <<group, daemon, todo, accepting, tasks, cancel, lives>>
    PROVE  Step
  <1>1. GroupType' /\ TaskType' /\ CancelType' /\ LaunchType'
    BY DEF IInv, GroupType, TaskType, CancelType, LaunchType, tasks
  <1>2. DaemonType' /\ DaemonInv'
    BY Launched, SupervisorAssumption DEF IInv, DaemonType, DaemonInv, Raises, tasks
  <1>3. WatchInv'
    BY Launched DEF IInv, WatchInv, tasks
  <1>4. LaunchInv'
    BY DEF LaunchInv
  <1>5. LiveInv'
    BY Launched DEF IInv, LiveInv, Alive, Raises, tasks
  <1> QED
    BY <1>1, <1>2, <1>3, <1>4, <1>5, SameKilled DEF Kept, IInv, Step

LEMMA ExecFailsStep == IInv /\ ExecFails => Step
  <1> SUFFICES ASSUME IInv, ExecFails PROVE Step
    OBVIOUS
  <1> DEFINE j == launch.job
             a == launch.att
  <1>1. launch.at # "idle" /\ launch.at = "spawning"
    BY DEF ExecFails
  <1>2. /\ j \in Job /\ a \in Attempts /\ a = job[j].cur /\ monitor[j] # "watching"
        /\ attempt[j][a].status \in Active /\ a \notin failure[j] /\ Quiet(j, a)
    BY <1>1, Launched DEF Active
  <1>3. ASSUME NEW k \in 0..4, WriteEnd(j, a, "failed", k), StaysQuiet
        PROVE  Kept
    BY <1>2, <1>3, WriteEndKeeps DEF Ended
  <1>4. ASSUME NEW k \in 0..4, WriteEnd(j, a, "failed", k)
        PROVE  /\ \A i \in Job : job'[i].cur = job[i].cur
               /\ \A i \in Job \ {j} :
                    job'[i] = job[i] /\ attempt'[i] = attempt[i] /\ failure'[i] = failure[i]
    BY <1>4 DEF IInv, DiskType, WriteEnd
  <1>5. CASE /\ WriteEnd(j, a, "failed", 4)
             /\ launch' = NoLaunch
             /\ UNCHANGED <<group, daemon, todo, accepting, tasks, cancel, lives, errors, damaged>>
    <2>1. Kept
      BY <1>3, <1>5, SameStaysQuiet
    <2>2. GroupType' /\ TaskType' /\ CancelType' /\ LaunchType'
      BY <1>5 DEF IInv, GroupType, TaskType, CancelType, LaunchType, tasks
    <2>3. DaemonType' /\ DaemonInv'
      BY <1>5 DEF IInv, DaemonType, DaemonInv, tasks
    <2>4. WatchInv'
      BY <1>2, <1>4, <1>5 DEF IInv, WatchInv, tasks
    <2>5. LaunchInv'
      BY <1>5 DEF LaunchInv
    <2>6. LiveInv'
      BY <1>1, <1>4, <1>5 DEF IInv, LiveInv, Alive, tasks
    <2> QED
      BY <2>1, <2>2, <2>3, <2>4, <2>5, <2>6, <1>5, SameKilled DEF Kept, IInv, Step
  <1>6. ASSUME NEW k \in 0..3, WriteEnd(j, a, "failed", k), Dies
        PROVE  Step
    BY <1>3, <1>6, DiesStep
  <1>7. ASSUME NEW k \in 0..3, WriteEnd(j, a, "failed", k), Raises(j), launch' = NoLaunch,
               UNCHANGED <<group, daemon, todo, accepting, tasks, cancel, lives>>
        PROVE  Step
    <2>1. Kept
      BY <1>3, <1>7, SameStaysQuiet
    <2> QED
      BY <2>1, <1>1, <1>4, <1>7, LaunchRaises
  <1> QED
    BY <1>5, <1>6, <1>7 DEF ExecFails

LEMMA IdentifyStep == IInv /\ Identify => Step
  <1> SUFFICES ASSUME IInv, Identify PROVE Step
    OBVIOUS
  <1> DEFINE j == launch.job
             a == launch.att
  <1>1. launch.at # "idle"
    BY DEF Identify
  <1>2. /\ j \in Job /\ a \in Attempts /\ a = job[j].cur /\ monitor[j] # "watching"
        /\ attempt[j][a].status = "starting" /\ a \notin failure[j]
    BY <1>1, Launched
  <1>3. ASSUME NEW k \in 0..3, NEW identified \in BOOLEAN, WriteRunning(j, a, identified, k),
               StaysQuiet
        PROVE  Kept
    BY <1>2, <1>3, WriteRunningKeeps
  <1>4. ASSUME NEW k \in 0..3, NEW identified \in BOOLEAN, WriteRunning(j, a, identified, k)
        PROVE  /\ \A i \in Job : job'[i].cur = job[i].cur
               /\ \A i \in Job \ {j} :
                    job'[i] = job[i] /\ attempt'[i] = attempt[i] /\ failure'[i] = failure[i]
    BY <1>4 DEF IInv, DiskType, WriteRunning
  <1>5. ASSUME NEW identified \in BOOLEAN, WriteRunning(j, a, identified, 3),
               monitor' = [monitor EXCEPT ![j] = "watching"], launch' = NoLaunch,
               UNCHANGED <<group, daemon, todo, accepting, requested, logError, handling,
                           cancel, lives, errors, damaged>>
        PROVE  Step
    <2>1. Kept
      BY <1>3, <1>5, SameStaysQuiet
    <2>2. GroupType' /\ TaskType' /\ CancelType' /\ LaunchType'
      BY <1>5 DEF IInv, GroupType, TaskType, CancelType, LaunchType
    <2>3. DaemonType' /\ DaemonInv'
      BY <1>1, <1>5, Launched DEF IInv, DaemonType, DaemonInv
    <2>4. WatchInv'
      <3>1. job'[j].status = "running" /\ attempt'[j][a].status = "running" /\ failure' = failure
        BY <1>2, <1>5 DEF IInv, DiskType, WriteRunning
      <3>2. ~group[j][a].adopted
        BY <1>1 DEF Identify, NoLaunch, IInv, LaunchInv
      <3> QED
        BY <1>2, <1>4, <1>5, <3>1, <3>2 DEF IInv, TaskType, WatchInv
    <2>5. LaunchInv'
      BY <1>5 DEF LaunchInv
    <2>6. LiveInv'
      BY <1>2, <1>4, <1>5 DEF IInv, LiveInv, Alive, TaskType
    <2> QED
      BY <2>1, <2>2, <2>3, <2>4, <2>5, <2>6, <1>5, SameKilled DEF Kept, IInv, Step
  <1>6. ASSUME NEW k \in 0..2, NEW identified \in BOOLEAN, WriteRunning(j, a, identified, k), Dies
        PROVE  Step
    BY <1>3, <1>6, DiesStep
  <1>7. ASSUME NEW k \in 0..2, NEW identified \in BOOLEAN, WriteRunning(j, a, identified, k),
               Raises(j), launch' = NoLaunch,
               UNCHANGED <<group, daemon, todo, accepting, tasks, cancel, lives>>
        PROVE  Step
    <2>1. Kept
      BY <1>3, <1>7, SameStaysQuiet
    <2> QED
      BY <2>1, <1>1, <1>4, <1>7, LaunchRaises
  <1> QED
    BY <1>5, <1>6, <1>7 DEF Identify

LEMMA MonitorEndsStep ==
    ASSUME IInv, NEW j \in Job, MonitorEnds(j)
    PROVE  Step
  <1> DEFINE a == Current(j)
             s == Outcome(j)
  <1>1. /\ monitor[j] = "watching"
        /\ a \in Attempts /\ a = job[j].cur /\ attempt[j][a].status \in Active
        /\ a \notin failure[j] /\ Quiet(j, a)
    <2>1. /\ monitor[j] = "watching"
          /\ a \in Attempts /\ a = job[j].cur /\ attempt[j][a].status \in Active
          /\ a \notin failure[j]
      BY DEF MonitorEnds, Over, Watched, Current, Active, IInv, WatchInv
    <2>2. ~Alive(j, a) /\ group[j][a].rest # "pipes"
      BY DEF MonitorEnds, Over, Exited, Alive
    <2>3. ~group[j][a].adopted
      BY <2>1 DEF IInv, WatchInv
    <2> QED
      BY <2>1, <2>2, <2>3 DEF Quiet, IInv, KilledInv
  <1>2. s \in Ended
    BY DEF Outcome, Ended
  <1> HIDE DEF s
  <1>3. ASSUME NEW k \in 0..4, WriteEnd(j, a, s, k), StaysQuiet
        PROVE  Kept
    BY <1>1, <1>2, <1>3, WriteEndKeeps
  <1>4. ASSUME NEW k \in 0..4, WriteEnd(j, a, s, k)
        PROVE  /\ \A i \in Job : job'[i].cur = job[i].cur
               /\ \A i \in Job \ {j} :
                    job'[i] = job[i] /\ attempt'[i] = attempt[i] /\ failure'[i] = failure[i]
    BY <1>4 DEF IInv, DiskType, WriteEnd
  <1>5. daemon \in {"up", "sweeping"} /\ (launch # NoLaunch => launch.job # j /\ launch.job \in Job)
    BY <1>1 DEF IInv, DaemonInv, LaunchInv, LaunchType
  <1>6. \A b \in Attempts : j \notin damaged /\ Alive(j, b) => group[j][b].adopted
    BY <1>1 DEF IInv, LiveInv, Quiet
  <1>7. ASSUME NEW k \in 0..4, WriteEnd(j, a, s, k), NEW m \in {"none", "died"},
               monitor' = [monitor EXCEPT ![j] = m],
               UNCHANGED <<group, launch>>, damaged \subseteq damaged'
        PROVE  LaunchInv' /\ WatchInv' /\ LiveInv'
    <2>1. LaunchInv'
      BY <1>4, <1>5, <1>7 DEF IInv, LaunchInv, TaskType, Quiet, Alive
    <2>2. WatchInv'
      BY <1>4, <1>7 DEF IInv, WatchInv, TaskType
    <2>3. LiveInv'
      BY <1>4, <1>6, <1>7 DEF IInv, LiveInv, TaskType, Alive
    <2> QED
      BY <2>1, <2>2, <2>3
  <1>8. CASE /\ WriteEnd(j, a, s, 4)
             /\ monitor'   = [monitor EXCEPT ![j] = "none"]
             /\ requested' = [requested EXCEPT ![j] = FALSE]
             /\ logError'  = [logError EXCEPT ![j] = FALSE]
             /\ handling'  = [handling EXCEPT ![j] =
                                IF s = "failed" /\ ~logError[j] THEN @ \cup {a} ELSE @]
             /\ UNCHANGED <<group, daemon, todo, accepting, launch, cancel, lives, errors, damaged>>
    <2>1. Kept
      BY <1>3, <1>8, SameStaysQuiet
    <2>2. TaskType'
      BY <1>1, <1>8 DEF IInv, TaskType
    <2>3. GroupType' /\ CancelType' /\ LaunchType' /\ DaemonType' /\ DaemonInv'
      BY <1>5, <1>8 DEF IInv, GroupType, CancelType, LaunchType, DaemonType, DaemonInv
    <2> QED
      BY <2>1, <2>2, <2>3, <1>7, <1>8, SameKilled DEF Kept, IInv, Step
  <1>9. ASSUME NEW k \in 0..3, WriteEnd(j, a, s, k), Dies
        PROVE  Step
    BY <1>3, <1>9, DiesStep
  <1>10. ASSUME NEW k \in 0..3, WriteEnd(j, a, s, k), Raises(j),
                monitor' = [monitor EXCEPT ![j] = "died"],
                UNCHANGED <<group, daemon, todo, accepting, launch, requested, logError,
                            handling, cancel, lives>>
         PROVE  Step
    <2>1. Kept
      BY <1>3, <1>10, SameStaysQuiet
    <2>2. TaskType'
      BY <1>10 DEF IInv, TaskType
    <2>3. GroupType' /\ CancelType' /\ LaunchType' /\ DaemonType' /\ DaemonInv'
      BY <1>5, <1>10, SupervisorAssumption
         DEF IInv, GroupType, CancelType, LaunchType, DaemonType, DaemonInv, Raises
    <2> QED
      BY <2>1, <2>2, <2>3, <1>7, <1>10, SameKilled DEF Kept, IInv, Step, Raises
  <1> QED
    BY <1>8, <1>9, <1>10 DEF MonitorEnds, s

LEMMA SealStep ==
    ASSUME IInv, NEW j \in Job, Seal(j)
    PROVE  Step
  <1>1. daemon = "recovering"
    BY DEF Seal
  <1>2. ASSUME NEW k \in 0..3, WriteSeal(j, k), StaysQuiet
        PROVE  Kept
    BY <1>2, WriteSealKeeps
  <1>3. CASE /\ WriteSeal(j, 3)
             /\ todo' = [todo EXCEPT !.seal = @ \ {j}]
             /\ UNCHANGED <<group, daemon, accepting, launch, tasks, cancel, lives, errors, damaged>>
    <2>1. Kept
      BY <1>2, <1>3, SameStaysQuiet
    <2>2. GroupType' /\ TaskType' /\ CancelType' /\ LaunchType'
      BY <1>3 DEF IInv, GroupType, TaskType, CancelType, LaunchType, tasks
    <2>3. DaemonType' /\ DaemonInv'
      BY <1>3 DEF IInv, DaemonType, DaemonInv, tasks
    <2>4. LaunchInv' /\ WatchInv' /\ LiveInv'
      BY <1>1, <1>3 DEF IInv, DaemonInv, LaunchInv, WatchInv, LiveInv, Alive, tasks
    <2> QED
      BY <2>1, <2>2, <2>3, <2>4, <1>3, SameKilled DEF Kept, IInv, Step
  <1>4. ASSUME NEW k \in 0..2, WriteSeal(j, k), Dies
        PROVE  Step
    BY <1>2, <1>4, DiesStep
  <1> QED
    BY <1>3, <1>4 DEF Seal

LEMMA StutterStep == IInv /\ UNCHANGED vars => Step
  <1> SUFFICES ASSUME IInv, UNCHANGED vars PROVE Step
    OBVIOUS
  <1>1. AllCalmer /\ UNCHANGED <<disk, launch, monitor, damaged, attempt>>
    BY SameIsCalmer DEF vars, disk
  <1>2. GroupType' /\ TaskType' /\ CancelType' /\ DaemonType' /\ DaemonInv'
    BY DEF vars, IInv, GroupType, TaskType, CancelType, DaemonType, DaemonInv
  <1> QED
    BY <1>1, <1>2, CalmInv, QuietStep

(***************************************************************************)
(* The theorems                                                            *)
(***************************************************************************)
LEMMA InitInv == Init => IInv
  <1> SUFFICES ASSUME Init PROVE IInv
    OBVIOUS
  <1>1. DiskType
    <2>1. <<>> \in Seq([type : {"started"} \cup Final, att : 0..MaxAttempts])
      OBVIOUS
    <2> QED
      BY <2>1, SupervisorAssumption DEF Init, DiskType, Everywhere
  <1>2. GroupType
    BY DEF Init, GroupType, Group, Rest, Everywhere, NoGroup, Leader
  <1>3. LaunchType /\ TaskType
    BY DEF Init, LaunchType, TaskType, Everywhere
  <1>4. CancelType
    BY DEF Init, CancelType, Everywhere, NoCalls
  <1>5. DaemonType
    BY SupervisorAssumption DEF Init, DaemonType, NoTodo
  <1>6. DaemonInv /\ LaunchInv /\ WatchInv /\ FreshInv
    BY DEF Init, DaemonInv, LaunchInv, WatchInv, FreshInv, Everywhere
  <1>7. SealInv /\ LiveInv /\ KilledInv
    BY DEF Init, SealInv, LiveInv, KilledInv, Everywhere, NoGroup, Quiet, Alive, Ended
  <1> QED
    BY <1>1, <1>2, <1>3, <1>4, <1>5, <1>6, <1>7 DEF IInv

LEMMA NextStep == IInv /\ [Next]_vars => Step
  <1> SUFFICES ASSUME IInv, [Next]_vars PROVE Step
    OBVIOUS
  <1>1. ASSUME NEW j \in Job, Start(j) \/ Retry(j)
        PROVE  Step
    BY <1>1, StartStep, RetryStep
  <1>2. ASSUME NEW j \in Job, Cancel(j) \/ LogFails(j) \/ LogGraceEnds(j)
        PROVE  Step
    BY <1>2, CancelInv, LogFailsInv, LogGraceEndsInv, QuietStep
       DEF Cancel, LogFails, LogGraceEnds, disk
  <1>3. ASSUME NEW j \in Job, MonitorEnds(j)
        PROVE  Step
    BY <1>3, MonitorEndsStep
  <1>4. ASSUME NEW j \in Job, NEW a \in Attempts,
               CallbackEnds(j, a) \/ LeaderExits(j, a) \/ RestExits(j, a) \/ StraysExit(j, a)
        PROVE  Step
    BY <1>4, CallbackEndsInv, LeaderExitsInv, RestExitsInv, StraysExitInv, QuietStep
       DEF CallbackEnds, LeaderExits, RestExits, StraysExit, disk
  <1>5. ASSUME NEW j \in Job, NEW c \in Canceller, CancelGraceEnds(j, c) \/ CancelReturns(j, c)
        PROVE  Step
    BY <1>5, CancelGraceEndsInv, CancelReturnsInv, QuietStep
       DEF CancelGraceEnds, CancelReturns, disk
  <1>6. ASSUME Launching PROVE Step
    BY <1>6, SpawnStep, ExecFailsStep, IdentifyStep DEF Launching
  <1>7. ASSUME StopStarting \/ Sweep \/ Restart \/ Serve
        PROVE  Step
    BY <1>7, StopStartingInv, SweepInv, RestartInv, ServeInv, QuietStep
       DEF StopStarting, Sweep, Restart, Serve, disk
  <1>8. ASSUME NEW j \in Job, Terminate(j)
        PROVE  Step
    BY <1>8, TerminateInv, QuietStep DEF Terminate, disk
  <1>9. ASSUME NEW j \in Job, Seal(j)
        PROVE  Step
    BY <1>9, SealStep
  <1>10. ASSUME Exit \/ Crash PROVE Step
    BY <1>10, ExitStep, CrashStep
  <1> QED
    BY <1>1, <1>2, <1>3, <1>4, <1>5, <1>6, <1>7, <1>8, <1>9, <1>10, StutterStep
       DEF Next, Running, Monitor, Process, Cancelling, Recovery

LEMMA Inductive == Spec => []IInv
  <1>1. IInv /\ [Next]_vars => IInv'
    BY NextStep DEF Step
  <1> QED
    BY <1>1, InitInv, PTL DEF Spec

\* Every variable keeps its type: the records on disk, what the daemon has in
\* memory, the process groups.
THEOREM TypesHold == Spec => []TypeOK
  <1>1. IInv => TypeOK
    BY TypeParts DEF IInv
  <1> QED
    BY <1>1, Inductive, PTL

\* Of an attempt that is recorded as succeeded, failed or cancelled neither the
\* leader is left nor anybody who holds its output, and nobody at all if it was
\* killed: the monitor writes the end when both pipes are at theirs, the recovery
\* repeats only an end that a failure.json tells of.
THEOREM SealedOver == Spec => []SealedIsOver
  <1>1. IInv => SealedIsOver
    BY DEF IInv, SealInv, SealedIsOver, Quiet, Ended
  <1> QED
    BY <1>1, Inductive, PTL

\* A daemon has one live leader of a job, if it could write the job's files.
THEOREM OneLive == Spec => []OneLiveAttempt
  <1>1. IInv => OneLiveAttempt
    BY DEF IInv, LiveInv, OneLiveAttempt
  <1> QED
    BY <1>1, Inductive, PTL

\* The end of an attempt is recorded once, whatever crash or recovery follows.
THEOREM EndIsForever == Spec => FinalIsForever
  <1>1. IInv /\ [Next]_vars =>
            [\A j \in Job, a \in Attempts : attempt[j][a].status \in Final =>
                attempt'[j][a].status = attempt[j][a].status]_vars
    BY NextStep DEF Step, EndsStay
  <1> QED
    BY <1>1, Inductive, PTL DEF Spec, FinalIsForever

(***************************************************************************)
(* The books.  A second invariant, about jobs of which every write has     *)
(* been made and of others: what events.jsonl, job.json, attempt.json and  *)
(* failure.json say of each other between any two writes (Books), and what *)
(* a daemon that serves knows of the jobs that are recorded as active      *)
(* (Shown).                                                                *)
(***************************************************************************)
IsEnd(e) == e.type # "started"

\* No event tells the end of the attempt.
Unended(j, a) == \A i \in DOMAIN events[j] : events[j][i].att = a => ~IsEnd(events[j][i])

EventBooks(j) ==
    /\ \A i \in DOMAIN events[j] : events[j][i].att <= job[j].cur
    /\ job[j].status \in Active \cup {"none"} => Unended(j, job[j].cur)
    /\ \A i, k \in DOMAIN events[j] :
            IsEnd(events[j][i]) /\ IsEnd(events[j][k]) /\ events[j][i].att = events[j][k].att
            => i = k
    /\ \A a \in Attempts, i \in DOMAIN events[j] :
            events[j][i].att = a /\ IsEnd(events[j][i]) =>
                events[j][i].type \in {attempt[j][a].status, "interrupted"}

StatusBooks(j) ==
    /\ \A a \in Attempts : attempt[j][a].status = "failed" => a \in failure[j]
    /\ job[j].status \in Final /\ job[j].cur # 0 =>
            /\ job[j].cur \in failure[j] => attempt[j][job[j].cur].status = "failed"
            /\ job[j].status \in {attempt[j][job[j].cur].status, "interrupted"}

Books == \A j \in Job : EventBooks(j) /\ StatusBooks(j)

Shown ==
    /\ launch # NoLaunch => job[launch.job].status = "starting"
    /\ \A j \in Job : monitor[j] = "watching" => job[j].status = "running"
    /\ daemon \in {"up", "sweeping"} => \A j \in Job \ damaged :
            /\ job[j].status = "running" => monitor[j] = "watching"
            /\ job[j].status = "starting" => launch # NoLaunch /\ launch.job = j
    /\ daemon = "recovering" => todo.seal = {j \in Job : job[j].status \in Active}

BInv == IInv /\ Books /\ Shown

(***************************************************************************)
(* What a write does to the books                                          *)
(***************************************************************************)
LEMMA Appended ==
    ASSUME DiskType, NEW j \in Job, NEW e
    PROVE  LET es == Append(events[j], e) IN
           /\ \A i \in DOMAIN events[j] : es[i] = events[j][i]
           /\ es[Len(events[j]) + 1] = e
           /\ \A i \in DOMAIN es : i \in DOMAIN events[j] \/ i = Len(events[j]) + 1
           /\ Len(events[j]) + 1 \notin DOMAIN events[j]
  <1>1. events[j] \in Seq([type : {"started"} \cup Final, att : 0..MaxAttempts])
    BY DEF DiskType
  <1> DEFINE S == [type : {"started"} \cup Final, att : 0..MaxAttempts]
  <1>2. events[j] \in Seq(S)
    BY <1>1
  <1> HIDE DEF S
  <1>3. DOMAIN events[j] = 1..Len(events[j]) /\ Len(events[j]) \in Nat
    BY <1>2
  <1>4. /\ DOMAIN Append(events[j], e) = 1..(Len(events[j]) + 1)
        /\ \A i \in 1..Len(events[j]) : Append(events[j], e)[i] = events[j][i]
        /\ Append(events[j], e)[Len(events[j]) + 1] = e
    BY <1>2
  <1> QED
    BY <1>3, <1>4

LEMMA EventAtt ==
    ASSUME IInv, NEW j \in Job
    PROVE  \A i \in DOMAIN events[j] : events[j][i].att \in Nat
  <1> DEFINE E == [type : {"started"} \cup Final, att : 0..MaxAttempts]
  <1>1. events[j] \in Seq(E)
    BY DEF IInv, DiskType
  <1> HIDE DEF E
  <1>2. \A i \in DOMAIN events[j] : events[j][i] \in E
    BY <1>1
  <1>3. \A e \in E : e.att \in Nat
    BY DEF E
  <1> QED
    BY <1>2, <1>3

LEMMA NotAppended ==
    ASSUME NEW j \in Job, IInv, EventBooks(j),
           events'[j] = events[j],
           job'[j].cur = job[j].cur \/ (job'[j].cur \in Nat /\ job'[j].cur > job[j].cur),
           job'[j].status \in Active \cup {"none"} => Unended(j, job'[j].cur),
           \A a \in Attempts : attempt'[j][a].status = attempt[j][a].status \/ Unended(j, a)
    PROVE  EventBooks(j)'
  <1>1. /\ job[j].cur \in Nat
        /\ \A i \in DOMAIN events[j] : events[j][i].att \in Nat
    <2>1. job[j].cur \in Nat
      BY DEF IInv, DiskType
    <2> QED
      BY <2>1, EventAtt
  <1>2. \A i \in DOMAIN events'[j] : events'[j][i].att <= job'[j].cur
    BY <1>1 DEF EventBooks
  <1>3. job'[j].status \in Active \cup {"none"} => Unended(j, job[j].cur)'
    BY DEF Unended
  <1>4. \A i, k \in DOMAIN events'[j] :
            IsEnd(events'[j][i]) /\ IsEnd(events'[j][k]) /\ events'[j][i].att = events'[j][k].att
            => i = k
    BY DEF EventBooks
  <1>5. \A a \in Attempts, i \in DOMAIN events'[j] :
            events'[j][i].att = a /\ IsEnd(events'[j][i]) =>
                events'[j][i].type \in {attempt'[j][a].status, "interrupted"}
    BY DEF EventBooks, Unended
  <1> QED
    BY <1>2, <1>3, <1>4, <1>5 DEF EventBooks, Unended, IsEnd

LEMMA OneAppended ==
    ASSUME NEW j \in Job, IInv, EventBooks(j), NEW e,
           e.att = job[j].cur, Unended(j, job[j].cur),
           events'[j] = Append(events[j], e),
           job'[j].cur = job[j].cur,
           \A a \in Attempts : attempt'[j][a].status = attempt[j][a].status \/ Unended(j, a),
           IsEnd(e) => job'[j].status \in Final,
           IsEnd(e) /\ e.att \in Attempts =>
                e.type \in {attempt'[j][e.att].status, "interrupted"}
    PROVE  EventBooks(j)'
  <1> DEFINE n == Len(events[j]) + 1
  <1>1. /\ \A i \in DOMAIN events[j] : events'[j][i] = events[j][i]
        /\ events'[j][n] = e
        /\ \A i \in DOMAIN events'[j] : i \in DOMAIN events[j] \/ i = n
    BY Appended DEF IInv
  <1> HIDE DEF n
  <1>2. job[j].cur \in Nat
    BY DEF IInv, DiskType
  <1>3. \A i \in DOMAIN events'[j] : events'[j][i].att <= job'[j].cur
    BY <1>1, <1>2 DEF EventBooks
  <1>4. job'[j].status \in Active \cup {"none"} => Unended(j, job[j].cur)'
    BY <1>1 DEF Unended, Active, Final
  <1>5. \A i, k \in DOMAIN events'[j] :
            IsEnd(events'[j][i]) /\ IsEnd(events'[j][k]) /\ events'[j][i].att = events'[j][k].att
            => i = k
    BY <1>1 DEF EventBooks, Unended
  <1>6. \A a \in Attempts, i \in DOMAIN events'[j] :
            events'[j][i].att = a /\ IsEnd(events'[j][i]) =>
                events'[j][i].type \in {attempt'[j][a].status, "interrupted"}
    BY <1>1 DEF EventBooks, Unended
  <1> QED
    BY <1>3, <1>4, <1>5, <1>6 DEF EventBooks, Unended, IsEnd

(***************************************************************************)
(* The writes, k of them                                                   *)
(***************************************************************************)
LEMMA WriteNewBooks ==
    ASSUME IInv, NEW j \in Job, NEW k \in 0..3, job[j].cur + 1 \in Attempts,
           EventBooks(j), StatusBooks(j), WriteNew(j, job[j].cur + 1, k)
    PROVE  EventBooks(j)' /\ StatusBooks(j)'
  <1> DEFINE a == job[j].cur + 1
  <1>1. job[j].cur \in Nat
    BY DEF IInv, DiskType
  <1>2. \A i \in DOMAIN events[j] : events[j][i].att \in Nat
    BY EventAtt
  <1>3. Unended(j, a)
    BY <1>1, <1>2 DEF EventBooks, Unended
  <1>4. /\ events' = events /\ failure' = failure
        /\ job'[j].cur \in {job[j].cur, a}
        /\ job'[j].cur = a => job'[j].status = "starting"
        /\ job'[j].cur = job[j].cur => \/ job'[j].status = job[j].status
                                       \/ job[j].status = "none" /\ job'[j].status = "starting"
        /\ \A b \in Attempts : \/ attempt'[j][b] = attempt[j][b]
                               \/ b = a /\ attempt'[j][b].status = "starting"
    <2>1. /\ job'[j].cur \in {job[j].cur, a}
          /\ job'[j].cur = a => job'[j].status = "starting"
          /\ job'[j].cur = job[j].cur => \/ job'[j].status = job[j].status
                                         \/ job[j].status = "none" /\ job'[j].status = "starting"
      <3>1. CASE k = 3
        BY <3>1, <1>1 DEF IInv, DiskType, WriteNew
      <3>2. CASE k # 3
        BY <3>2, <1>1 DEF IInv, DiskType, FreshInv, WriteNew
      <3> QED
        BY <3>1, <3>2
    <2>2. \A b \in Attempts : \/ attempt'[j][b] = attempt[j][b]
                              \/ b = a /\ attempt'[j][b].status = "starting"
      BY DEF IInv, DiskType, WriteNew
    <2>3. events' = events /\ failure' = failure
      BY DEF WriteNew
    <2> QED
      BY <2>1, <2>2, <2>3
  <1>5. EventBooks(j)'
    BY <1>1, <1>3, <1>4, NotAppended DEF EventBooks
  <1>6. StatusBooks(j)'
    <2>1. \A b \in Attempts : attempt'[j][b].status = "failed" => b \in failure'[j]
      BY <1>4 DEF StatusBooks
    <2>2. job'[j].status \in Final => /\ job'[j].cur = job[j].cur
                                      /\ job'[j].status = job[j].status
      BY <1>1, <1>4 DEF Final
    <2>3. job[j].cur # 0 => job[j].cur \in Attempts /\ job[j].cur # a
      BY <1>1 DEF IInv, DiskType, Attempts
    <2>4. job[j].cur # 0 => attempt'[j][job[j].cur] = attempt[j][job[j].cur]
      BY <1>4, <2>3
    <2> QED
      BY <1>4, <2>1, <2>2, <2>4 DEF StatusBooks
  <1> QED
    BY <1>5, <1>6

LEMMA WriteEndBooks ==
    ASSUME IInv, NEW j \in Job, NEW a \in Attempts, NEW k \in 0..4, NEW s \in Ended,
           a = job[j].cur, job[j].status \in Active, a \notin failure[j],
           EventBooks(j), StatusBooks(j), WriteEnd(j, a, s, k)
    PROVE  EventBooks(j)' /\ StatusBooks(j)'
  <1>1. Unended(j, a)
    BY DEF EventBooks
  <1>2. /\ job'[j].cur = job[j].cur
        /\ job'[j].status = IF k >= 3 THEN s ELSE job[j].status
        /\ \A b \in Attempts :
                attempt'[j][b].status = IF b = a /\ k >= 2 THEN s ELSE attempt[j][b].status
        /\ failure'[j] = IF s = "failed" /\ k >= 1 THEN failure[j] \cup {a} ELSE failure[j]
        /\ events'[j] = IF k = 4 THEN Append(events[j], [type |-> s, att |-> a]) ELSE events[j]
    BY DEF IInv, DiskType, WriteEnd
  <1>3. StatusBooks(j)'
    BY <1>2 DEF StatusBooks, Active, Final, Ended
  <1>4. CASE k # 4
    <2>1. job'[j].status \in Active \cup {"none"} => Unended(j, job'[j].cur)
      BY <1>1, <1>2
    <2>2. \A b \in Attempts : attempt'[j][b].status = attempt[j][b].status \/ Unended(j, b)
      BY <1>1, <1>2
    <2> QED
      BY <2>1, <2>2, <1>2, <1>3, <1>4, NotAppended
  <1>5. CASE k = 4
    <2> DEFINE e == [type |-> s, att |-> a]
    <2>1. \A b \in Attempts : attempt'[j][b].status = attempt[j][b].status \/ Unended(j, b)
      BY <1>1, <1>2
    <2>2. e.att = job[j].cur /\ job'[j].status \in Final /\ e.type = attempt'[j][e.att].status
      BY <1>2, <1>5 DEF Ended, Final
    <2>3. events'[j] = Append(events[j], e)
      BY <1>2, <1>5
    <2> HIDE DEF e
    <2> QED
      BY <2>1, <2>2, <2>3, <1>1, <1>2, <1>3, OneAppended
  <1> QED
    BY <1>4, <1>5

LEMMA WriteRunningBooks ==
    ASSUME IInv, NEW j \in Job, NEW a \in Attempts, NEW k \in 0..3, NEW identified \in BOOLEAN,
           a = job[j].cur, job[j].status = "starting", attempt[j][a].status = "starting",
           EventBooks(j), StatusBooks(j), WriteRunning(j, a, identified, k)
    PROVE  EventBooks(j)' /\ StatusBooks(j)'
  <1>1. Unended(j, a)
    BY DEF EventBooks, Active
  <1>2. /\ job'[j].cur = job[j].cur
        /\ job'[j].status \in {"starting", "running"}
        /\ \A b \in Attempts : \/ attempt'[j][b].status = attempt[j][b].status
                               \/ b = a /\ attempt'[j][b].status = "running"
        /\ failure' = failure
        /\ events'[j] = IF k = 3 THEN Append(events[j], [type |-> "started", att |-> a])
                                 ELSE events[j]
    <2>1. job'[j].cur = job[j].cur /\ job'[j].status \in {"starting", "running"}
      BY DEF IInv, DiskType, WriteRunning
    <2>2. \A b \in Attempts : \/ attempt'[j][b].status = attempt[j][b].status
                              \/ b = a /\ attempt'[j][b].status = "running"
      BY DEF IInv, DiskType, WriteRunning
    <2>3. events'[j] = IF k = 3 THEN Append(events[j], [type |-> "started", att |-> a])
                                ELSE events[j]
      BY DEF IInv, DiskType, WriteRunning
    <2>4. failure' = failure
      BY DEF WriteRunning
    <2> QED
      BY <2>1, <2>2, <2>3, <2>4
  <1>3. StatusBooks(j)'
    BY <1>2 DEF StatusBooks, Final
  <1>4. CASE k # 3
    <2>1. \A b \in Attempts : attempt'[j][b].status = attempt[j][b].status \/ Unended(j, b)
      BY <1>1, <1>2
    <2> QED
      BY <2>1, <1>1, <1>2, <1>3, <1>4, NotAppended
  <1>5. CASE k = 3
    <2> DEFINE e == [type |-> "started", att |-> a]
    <2>1. \A b \in Attempts : attempt'[j][b].status = attempt[j][b].status \/ Unended(j, b)
      BY <1>1, <1>2
    <2>2. e.att = job[j].cur /\ ~IsEnd(e)
      BY DEF IsEnd
    <2>3. events'[j] = Append(events[j], e)
      BY <1>2, <1>5
    <2> HIDE DEF e
    <2> QED
      BY <2>1, <2>2, <2>3, <1>1, <1>2, <1>3, OneAppended
  <1> QED
    BY <1>4, <1>5

LEMMA WriteSealBooks ==
    ASSUME IInv, NEW j \in Job, NEW k \in 0..3, job[j].status \in Active,
           EventBooks(j), StatusBooks(j), WriteSeal(j, k)
    PROVE  EventBooks(j)' /\ StatusBooks(j)'
  <1> DEFINE a == Current(j)
             s == IF a \in failure[j] THEN "failed" ELSE "interrupted"
             e == [type |-> s, att |-> a]
  <1>1. Unended(j, a) /\ a = job[j].cur
    BY DEF EventBooks, Current
  <1>2. /\ job'[j].cur = job[j].cur
        /\ job'[j].status = IF k >= 2 THEN s ELSE job[j].status
        /\ \A b \in Attempts : attempt'[j][b].status =
                IF b = a /\ k >= 1 /\ (s = "failed" \/ attempt[j][b].status \in Active)
                THEN s ELSE attempt[j][b].status
        /\ failure' = failure
        /\ events'[j] = events[j] \/ (k = 3 /\ events'[j] = Append(events[j], e))
    BY DEF IInv, DiskType, WriteSeal
  <1>3. StatusBooks(j)'
    <2>1. \A b \in Attempts : attempt'[j][b].status = "failed" => b \in failure'[j]
      BY <1>2 DEF StatusBooks
    <2>2. ASSUME job'[j].status \in Final, job'[j].cur # 0
          PROVE  /\ job'[j].cur \in failure'[j] => attempt'[j][job'[j].cur].status = "failed"
                 /\ job'[j].status \in {attempt'[j][job'[j].cur].status, "interrupted"}
      <3>1. k >= 2 /\ job'[j].status = s
        BY <2>2, <1>2 DEF Active, Final
      <3>2. a \in Attempts
        BY <2>2, <1>1, <1>2 DEF IInv, DiskType, Attempts
      <3> QED
        BY <3>1, <3>2, <1>1, <1>2
    <2> QED
      BY <2>1, <2>2 DEF StatusBooks
  <1>4. \A b \in Attempts : attempt'[j][b].status = attempt[j][b].status \/ Unended(j, b)
    BY <1>1, <1>2
  <1>5. CASE events'[j] = events[j]
    <2>1. job'[j].status \in Active \cup {"none"} => Unended(j, job'[j].cur)
      BY <1>1, <1>2
    <2> QED
      BY <2>1, <1>2, <1>3, <1>4, <1>5, NotAppended
  <1>6. CASE k = 3 /\ events'[j] = Append(events[j], e)
    <2>1. job'[j].status = s /\ s \in Final
      BY <1>2, <1>6 DEF Final
    <2>2. a \in Attempts => s \in {attempt'[j][a].status, "interrupted"}
      BY <1>2, <1>6
    <2>3. e.att = a /\ e.type = s
      OBVIOUS
    <2> HIDE DEF e, s
    <2> QED
      BY <2>1, <2>2, <2>3, <1>1, <1>2, <1>3, <1>4, <1>6, OneAppended
  <1> QED
    BY <1>2, <1>5, <1>6

\* A job of which nothing is written.
LEMMA UntouchedBooks ==
    ASSUME NEW j \in Job, EventBooks(j), StatusBooks(j), job'[j] = job[j],
           attempt'[j] = attempt[j], failure'[j] = failure[j], events'[j] = events[j]
    PROVE  EventBooks(j)' /\ StatusBooks(j)'
  BY DEF EventBooks, StatusBooks, Unended, IsEnd

\* Only files of j are written.
OnlyJob(j) ==
    \A i \in Job \ {j} :
        /\ job'[i] = job[i] /\ attempt'[i] = attempt[i]
        /\ failure'[i] = failure[i] /\ events'[i] = events[i]

LEMMA OneJobsBooks ==
    ASSUME Books, NEW j \in Job, EventBooks(j)', StatusBooks(j)', OnlyJob(j)
    PROVE  Books'
  <1>1. ASSUME NEW i \in Job PROVE EventBooks(i)' /\ StatusBooks(i)'
    BY UntouchedBooks DEF Books, OnlyJob
  <1> QED
    BY <1>1 DEF Books

LEMMA WriteNewOnly ==
    ASSUME IInv, NEW j \in Job, NEW a, NEW k, WriteNew(j, a, k)
    PROVE  OnlyJob(j)
  BY DEF IInv, DiskType, WriteNew, OnlyJob

LEMMA WriteEndOnly ==
    ASSUME IInv, NEW j \in Job, NEW a, NEW s, NEW k, WriteEnd(j, a, s, k)
    PROVE  OnlyJob(j)
  BY DEF IInv, DiskType, WriteEnd, OnlyJob

LEMMA WriteRunningOnly ==
    ASSUME IInv, NEW j \in Job, NEW a, NEW identified, NEW k, WriteRunning(j, a, identified, k)
    PROVE  OnlyJob(j)
  BY DEF IInv, DiskType, WriteRunning, OnlyJob

LEMMA WriteSealOnly ==
    ASSUME IInv, NEW j \in Job, NEW k, WriteSeal(j, k)
    PROVE  OnlyJob(j)
  BY DEF IInv, DiskType, WriteSeal, OnlyJob

(***************************************************************************)
(* The steps                                                               *)
(***************************************************************************)
LEMMA SameBooks ==
    ASSUME Books, UNCHANGED disk
    PROVE  Books'
  BY UntouchedBooks DEF Books, disk

LEMMA SameShown ==
    ASSUME Shown, UNCHANGED <<disk, launch, monitor, daemon, damaged>>, todo'.seal = todo.seal
    PROVE  Shown'
  BY DEF Shown, disk

LEMMA DiesShown ==
    ASSUME NEW left, Gone(left)
    PROVE  Shown'
  BY DEF Gone, Shown, Everywhere

\* The job is damaged, or what is left of the launch is.
LEMMA RaisesShown ==
    ASSUME Shown, NEW j \in Job, OnlyJob(j), Raises(j), UNCHANGED <<daemon, todo>>,
           daemon \in {"up", "sweeping"},
           launch' = NoLaunch \/ (launch' = launch /\ (launch # NoLaunch => launch.job # j)),
           launch # NoLaunch => launch.job \in Job /\ (launch' = launch \/ launch.job = j),
           \A i \in Job \ {j} : monitor'[i] = monitor[i], monitor'[j] # "watching"
    PROVE  Shown'
  BY DEF Shown, OnlyJob, Raises

LEMMA BeginBooks ==
    ASSUME BInv, NEW j \in Job, NEW by, monitor[j] # "watching", Begin(j, by)
    PROVE  Books' /\ Shown'
  <1> DEFINE a == job[j].cur + 1
  <1>1. ASSUME NEW k \in 0..3, WriteNew(j, a, k)
        PROVE  Books' /\ OnlyJob(j)
    BY <1>1, WriteNewBooks, WriteNewOnly, OneJobsBooks DEF BInv, Books, Begin
  <1>2. daemon = "up" /\ launch = NoLaunch
    BY DEF Begin
  <1>3. CASE /\ WriteNew(j, a, 3)
             /\ launch' = [at |-> "spawning", by |-> by, job |-> j, att |-> a]
             /\ UNCHANGED <<group, daemon, todo, accepting, tasks, cancel, lives, errors, damaged>>
    <2>1. Books' /\ OnlyJob(j)
      BY <1>1, <1>3
    <2>2. job'[j].status = "starting"
      BY <1>3 DEF BInv, IInv, DiskType, WriteNew
    <2>3. launch' # NoLaunch /\ launch'.job = j /\ monitor' = monitor
      BY <1>3 DEF NoLaunch, tasks
    <2>4. Shown'
      BY <2>1, <2>2, <2>3, <1>2, <1>3 DEF BInv, Shown, OnlyJob
    <2> QED
      BY <2>1, <2>4
  <1>4. ASSUME NEW k \in 0..3, WriteNew(j, a, k), Dies
        PROVE  Books' /\ Shown'
    BY <1>1, <1>4, DiesShown DEF Dies
  <1>5. ASSUME NEW k \in 0..3, WriteNew(j, a, k), Raises(j),
               UNCHANGED <<group, daemon, todo, accepting, launch, tasks, cancel, lives>>
        PROVE  Books' /\ Shown'
    <2>1. Books' /\ OnlyJob(j)
      BY <1>1, <1>5
    <2>2. Shown'
      BY <2>1, <1>2, <1>5, RaisesShown DEF BInv, tasks
    <2> QED
      BY <2>1, <2>2
  <1> QED
    BY <1>3, <1>4, <1>5 DEF Begin

\* The launch under way, and the daemon that serves.
LEMMA LaunchServes ==
    ASSUME BInv, launch.at # "idle"
    PROVE  /\ daemon \in {"up", "sweeping"}
           /\ launch # NoLaunch /\ launch.job \in Job
           /\ job[launch.job].status = "starting"
  BY Launched DEF BInv, IInv, DaemonInv, DaemonType, Shown

LEMMA SpawnBooks ==
    ASSUME BInv, Spawn
    PROVE  Books' /\ Shown'
  <1>1. launch.at # "idle"
    BY DEF Spawn
  <1>2. launch' # NoLaunch /\ launch'.job = launch.job
    BY <1>1, Launched DEF BInv, IInv, LaunchType, Spawn, NoLaunch
  <1>3. Books'
    BY SameBooks DEF BInv, Spawn
  <1>4. Shown'
    BY <1>1, <1>2, LaunchServes DEF BInv, Shown, Spawn, disk, tasks
  <1> QED
    BY <1>3, <1>4

LEMMA ExecFailsBooks ==
    ASSUME BInv, ExecFails
    PROVE  Books' /\ Shown'
  <1>1. launch.at # "idle"
    BY DEF ExecFails
  <1> PICK j \in Job, a \in Attempts : j = launch.job /\ a = launch.att
    BY <1>1, Launched DEF BInv
  <1>2. /\ a = job[j].cur /\ monitor[j] # "watching"
        /\ a \notin failure[j]
        /\ job[j].status = "starting" /\ daemon \in {"up", "sweeping"} /\ launch # NoLaunch
    BY <1>1, Launched, LaunchServes DEF BInv
  <1>3. ASSUME NEW k \in 0..4, WriteEnd(j, a, "failed", k)
        PROVE  Books' /\ OnlyJob(j)
    <2>1. EventBooks(j)' /\ StatusBooks(j)'
      BY <1>2, <1>3, WriteEndBooks DEF BInv, Books, Ended, Active
    <2>2. OnlyJob(j)
      BY <1>2, <1>3, WriteEndOnly DEF BInv
    <2> QED
      BY <1>2, <2>1, <2>2, OneJobsBooks DEF BInv
  <1>4. CASE /\ WriteEnd(j, a, "failed", 4)
             /\ launch' = NoLaunch
             /\ UNCHANGED <<group, daemon, todo, accepting, tasks, cancel, lives, errors, damaged>>
    <2>1. Books' /\ OnlyJob(j)
      BY <1>3, <1>4
    <2>2. job'[j].status = "failed"
      BY <1>2, <1>4 DEF BInv, IInv, DiskType, WriteEnd
    <2>3. Shown'
      BY <2>1, <2>2, <1>2, <1>4 DEF BInv, Shown, OnlyJob, tasks
    <2> QED
      BY <2>1, <2>3
  <1>5. ASSUME NEW k \in 0..3, WriteEnd(j, a, "failed", k), Dies
        PROVE  Books' /\ Shown'
    BY <1>3, <1>5, DiesShown DEF Dies
  <1>6. ASSUME NEW k \in 0..3, WriteEnd(j, a, "failed", k), Raises(j), launch' = NoLaunch,
               UNCHANGED <<group, daemon, todo, accepting, tasks, cancel, lives>>
        PROVE  Books' /\ Shown'
    <2>1. Books' /\ OnlyJob(j)
      BY <1>3, <1>6
    <2>2. Shown'
      BY <2>1, <1>2, <1>6, RaisesShown DEF BInv, tasks
    <2> QED
      BY <2>1, <2>2
  <1> QED
    BY <1>4, <1>5, <1>6 DEF ExecFails

LEMMA IdentifyBooks ==
    ASSUME BInv, Identify
    PROVE  Books' /\ Shown'
  <1>1. launch.at # "idle"
    BY DEF Identify
  <1> PICK j \in Job, a \in Attempts : j = launch.job /\ a = launch.att
    BY <1>1, Launched DEF BInv
  <1>2. /\ a = job[j].cur /\ monitor[j] # "watching"
        /\ attempt[j][a].status = "starting"
        /\ job[j].status = "starting" /\ daemon \in {"up", "sweeping"} /\ launch # NoLaunch
    BY <1>1, Launched, LaunchServes DEF BInv
  <1>3. ASSUME NEW k \in 0..3, NEW identified \in BOOLEAN, WriteRunning(j, a, identified, k)
        PROVE  Books' /\ OnlyJob(j)
    <2>1. EventBooks(j)' /\ StatusBooks(j)'
      BY <1>2, <1>3, WriteRunningBooks DEF BInv, Books
    <2>2. OnlyJob(j)
      BY <1>2, <1>3, WriteRunningOnly DEF BInv
    <2> QED
      BY <1>2, <2>1, <2>2, OneJobsBooks DEF BInv
  <1>4. ASSUME NEW identified \in BOOLEAN, WriteRunning(j, a, identified, 3),
               monitor' = [monitor EXCEPT ![j] = "watching"], launch' = NoLaunch,
               UNCHANGED <<group, daemon, todo, accepting, requested, logError, handling,
                           cancel, lives, errors, damaged>>
        PROVE  Books' /\ Shown'
    <2>1. Books' /\ OnlyJob(j)
      BY <1>3, <1>4
    <2>2. job'[j].status = "running"
      BY <1>2, <1>4 DEF BInv, IInv, DiskType, WriteRunning
    <2>3. monitor'[j] = "watching" /\ \A i \in Job \ {j} : monitor'[i] = monitor[i]
      BY <1>2, <1>4 DEF BInv, IInv, TaskType
    <2>4. Shown'
      BY <2>1, <2>2, <2>3, <1>2, <1>4 DEF BInv, Shown, OnlyJob
    <2> QED
      BY <2>1, <2>4
  <1>5. ASSUME NEW k \in 0..2, NEW identified \in BOOLEAN, WriteRunning(j, a, identified, k), Dies
        PROVE  Books' /\ Shown'
    BY <1>3, <1>5, DiesShown DEF Dies
  <1>6. ASSUME NEW k \in 0..2, NEW identified \in BOOLEAN, WriteRunning(j, a, identified, k),
               Raises(j), launch' = NoLaunch,
               UNCHANGED <<group, daemon, todo, accepting, tasks, cancel, lives>>
        PROVE  Books' /\ Shown'
    <2>1. Books' /\ OnlyJob(j)
      BY <1>3, <1>6
    <2>2. Shown'
      BY <2>1, <1>2, <1>6, RaisesShown DEF BInv, tasks
    <2> QED
      BY <2>1, <2>2
  <1> QED
    BY <1>4, <1>5, <1>6 DEF Identify

LEMMA MonitorEndsBooks ==
    ASSUME BInv, NEW j \in Job, MonitorEnds(j)
    PROVE  Books' /\ Shown'
  <1> DEFINE a == Current(j)
             s == Outcome(j)
  <1>1. /\ monitor[j] = "watching" /\ job[j].status = "running"
        /\ a \in Attempts /\ a = job[j].cur /\ a \notin failure[j]
        /\ daemon \in {"up", "sweeping"}
    BY DEF MonitorEnds, Over, Watched, Current, BInv, Shown, IInv, WatchInv, DaemonInv, DaemonType
  <1>2. launch # NoLaunch => launch.job # j /\ launch.job \in Job
    BY <1>1 DEF BInv, IInv, LaunchInv, LaunchType
  <1>3. s \in Ended
    BY DEF Outcome, Ended
  <1> HIDE DEF s
  <1>4. ASSUME NEW k \in 0..4, WriteEnd(j, a, s, k)
        PROVE  Books' /\ OnlyJob(j)
    <2>1. EventBooks(j)' /\ StatusBooks(j)'
      BY <1>1, <1>3, <1>4, WriteEndBooks DEF BInv, Books, Active
    <2>2. OnlyJob(j)
      BY <1>4, WriteEndOnly DEF BInv
    <2> QED
      BY <2>1, <2>2, OneJobsBooks DEF BInv
  <1>5. CASE /\ WriteEnd(j, a, s, 4)
             /\ monitor'   = [monitor EXCEPT ![j] = "none"]
             /\ UNCHANGED <<group, daemon, todo, accepting, launch, cancel, lives, errors, damaged>>
    <2>1. Books' /\ OnlyJob(j)
      BY <1>4, <1>5
    <2>2. job'[j].status = s
      BY <1>5 DEF BInv, IInv, DiskType, WriteEnd
    <2>3. monitor'[j] = "none" /\ \A i \in Job \ {j} : monitor'[i] = monitor[i]
      BY <1>5 DEF BInv, IInv, TaskType
    <2>4. Shown'
      BY <2>1, <2>2, <2>3, <1>1, <1>2, <1>3, <1>5 DEF BInv, Shown, OnlyJob, Ended
    <2> QED
      BY <2>1, <2>4
  <1>6. ASSUME NEW k \in 0..3, WriteEnd(j, a, s, k), Dies
        PROVE  Books' /\ Shown'
    BY <1>4, <1>6, DiesShown DEF Dies
  <1>7. ASSUME NEW k \in 0..3, WriteEnd(j, a, s, k), Raises(j),
               monitor' = [monitor EXCEPT ![j] = "died"],
               UNCHANGED <<group, daemon, todo, accepting, launch, requested, logError,
                           handling, cancel, lives>>
        PROVE  Books' /\ Shown'
    <2>1. Books' /\ OnlyJob(j)
      BY <1>4, <1>7
    <2>2. monitor'[j] = "died" /\ \A i \in Job \ {j} : monitor'[i] = monitor[i]
      BY <1>7 DEF BInv, IInv, TaskType
    <2>3. Shown'
      BY <2>1, <2>2, <1>1, <1>2, <1>7, RaisesShown DEF BInv
    <2> QED
      BY <2>1, <2>3
  <1> QED
    BY <1>5, <1>6, <1>7 DEF MonitorEnds, s

LEMMA SealBooks ==
    ASSUME BInv, NEW j \in Job, Seal(j)
    PROVE  Books' /\ Shown'
  <1>1. daemon = "recovering" /\ job[j].status \in Active
    BY DEF Seal, BInv, Shown
  <1>2. ASSUME NEW k \in 0..3, WriteSeal(j, k)
        PROVE  Books' /\ OnlyJob(j)
    BY <1>1, <1>2, WriteSealBooks, WriteSealOnly, OneJobsBooks DEF BInv, Books
  <1>3. CASE /\ WriteSeal(j, 3)
             /\ todo' = [todo EXCEPT !.seal = @ \ {j}]
             /\ UNCHANGED <<group, daemon, accepting, launch, tasks, cancel, lives, errors, damaged>>
    <2>1. Books' /\ OnlyJob(j)
      BY <1>2, <1>3
    <2>2. job'[j].status \in Final
      BY <1>3 DEF BInv, IInv, DiskType, WriteSeal, Final
    <2>3. launch' = NoLaunch /\ \A i \in Job : monitor'[i] = "none"
      BY <1>1, <1>3 DEF BInv, IInv, DaemonInv, tasks
    <2>4. todo'.seal = {i \in Job : job'[i].status \in Active}
      <3>1. todo'.seal = {i \in Job : job[i].status \in Active} \ {j}
        BY <1>1, <1>3 DEF BInv, Shown, IInv, DaemonType
      <3> QED
        BY <3>1, <2>1, <2>2 DEF OnlyJob, Active, Final
    <2>5. Shown'
      BY <2>3, <2>4, <1>1, <1>3 DEF Shown
    <2> QED
      BY <2>1, <2>5
  <1>4. ASSUME NEW k \in 0..2, WriteSeal(j, k), Dies
        PROVE  Books' /\ Shown'
    BY <1>2, <1>4, DiesShown DEF Dies
  <1> QED
    BY <1>3, <1>4 DEF Seal

LEMMA RestartBooks == BInv /\ Restart => Books' /\ Shown'
  <1> SUFFICES ASSUME BInv, Restart PROVE Books' /\ Shown'
    OBVIOUS
  <1>1. Books'
    BY SameBooks DEF BInv, Restart
  <1>2. Shown'
    BY DEF BInv, Shown, Restart, IInv, DaemonInv, tasks, disk
  <1> QED
    BY <1>1, <1>2

\* Nothing is left to seal when the daemon comes to serve.
LEMMA ServeBooks == BInv /\ Serve => Books' /\ Shown'
  <1> SUFFICES ASSUME BInv, Serve PROVE Books' /\ Shown'
    OBVIOUS
  <1>1. Books'
    BY SameBooks DEF BInv, Serve
  <1>2. \A j \in Job : job[j].status \notin Active
    BY DEF BInv, Shown, Serve, NoTodo
  <1>3. Shown'
    BY <1>2 DEF BInv, Shown, Serve, tasks, disk, Active
  <1> QED
    BY <1>1, <1>3

LEMMA QuietBooks ==
    ASSUME BInv, UNCHANGED <<disk, launch, monitor, daemon, damaged>>, todo'.seal = todo.seal
    PROVE  Books' /\ Shown'
  BY SameBooks, SameShown DEF BInv

LEMMA BooksInit == Init => BInv
  <1> SUFFICES ASSUME Init PROVE BInv
    OBVIOUS
  <1>1. Books
    BY DEF Init, Books, EventBooks, StatusBooks, Unended, Everywhere, Active, Final
  <1>2. Shown
    BY DEF Init, Shown, Everywhere
  <1> QED
    BY <1>1, <1>2, InitInv DEF BInv

LEMMA BooksStep == BInv /\ [Next]_vars => BInv'
  <1> SUFFICES ASSUME BInv, [Next]_vars PROVE Books' /\ Shown'
    BY NextStep DEF BInv, Step
  <1>1. ASSUME NEW j \in Job, Start(j) \/ Retry(j)
        PROVE  Books' /\ Shown'
    BY <1>1, BeginBooks DEF Start, Retry, BInv, IInv, WatchInv
  <1>2. ASSUME NEW j \in Job, Cancel(j) \/ LogFails(j) \/ LogGraceEnds(j)
        PROVE  Books' /\ Shown'
    BY <1>2, QuietBooks DEF Cancel, LogFails, LogGraceEnds, tasks
  <1>3. ASSUME NEW j \in Job, NEW a \in Attempts,
               CallbackEnds(j, a) \/ LeaderExits(j, a) \/ RestExits(j, a) \/ StraysExit(j, a)
        PROVE  Books' /\ Shown'
    BY <1>3, QuietBooks DEF CallbackEnds, LeaderExits, RestExits, StraysExit, tasks
  <1>4. ASSUME NEW j \in Job, NEW c \in Canceller, CancelGraceEnds(j, c) \/ CancelReturns(j, c)
        PROVE  Books' /\ Shown'
    BY <1>4, QuietBooks DEF CancelGraceEnds, CancelReturns, tasks
  <1>5. ASSUME StopStarting PROVE Books' /\ Shown'
    BY <1>5, QuietBooks DEF StopStarting, tasks
  <1>6. ASSUME Sweep PROVE Books' /\ Shown'
    BY <1>6, SameBooks DEF Sweep, BInv, Shown, disk
  <1>7. ASSUME NEW j \in Job, Terminate(j) PROVE Books' /\ Shown'
    <2>1. todo'.seal = todo.seal
      BY <1>7 DEF Terminate, BInv, IInv, DaemonType
    <2> QED
      BY <1>7, <2>1, QuietBooks DEF Terminate, tasks
  <1>8. ASSUME Exit \/ Crash PROVE Books' /\ Shown'
    BY <1>8, SameBooks, DiesShown DEF Exit, Crash, Dies, BInv
  <1>9. ASSUME Launching PROVE Books' /\ Shown'
    BY <1>9, SpawnBooks, ExecFailsBooks, IdentifyBooks DEF Launching
  <1>10. ASSUME UNCHANGED vars PROVE Books' /\ Shown'
    BY <1>10, QuietBooks DEF vars, disk
  <1> QED
    BY <1>1, <1>2, <1>3, <1>4, <1>5, <1>6, <1>7, <1>8, <1>9, <1>10,
       MonitorEndsBooks, SealBooks, RestartBooks, ServeBooks
       DEF Next, Running, Monitor, Process, Cancelling, Recovery

LEMMA BooksHold == Spec => []BInv
  BY BooksInit, BooksStep, PTL DEF Spec

\* A job that a daemon which serves shows as starting or running is being launched
\* or watched, and the other way round, if the daemon could write its files.
THEOREM ActiveWatched == Spec => []ActiveIsWatched
  <1>1. BInv => ActiveIsWatched
    <2> SUFFICES ASSUME BInv, daemon \in {"up", "sweeping"}, NEW j \in Job \ damaged
                 PROVE  /\ job[j].status = "running" <=> Watched(j)
                        /\ job[j].status = "starting" <=> launch.at # "idle" /\ launch.job = j
      BY DEF ActiveIsWatched
    <2>1. launch # NoLaunch <=> launch.at # "idle"
      BY DEF BInv, IInv, LaunchType, NoLaunch
    <2> QED
      BY <2>1 DEF BInv, Shown, Watched
  <1> QED
    BY <1>1, BooksHold, PTL

LEMMA OneEnd ==
    ASSUME BInv, NEW j \in Job, NEW a \in Attempts
    PROVE  /\ Cardinality(Ends(j, a)) <= 1
           /\ \A i \in Ends(j, a) : events[j][i].type \in {attempt[j][a].status, "interrupted"}
  <1>1. \A i, k \in Ends(j, a) : i = k
    BY DEF BInv, Books, EventBooks, IsEnd, Ends
  <1>2. \A i \in Ends(j, a) : events[j][i].type \in {attempt[j][a].status, "interrupted"}
    BY DEF BInv, Books, EventBooks, IsEnd, Ends
  <1>3. CASE Ends(j, a) = {}
    <2>1. Cardinality({}) = 0
      BY FS_EmptySet
    <2> QED
      BY <1>3, <1>2, <2>1
  <1>4. CASE \E i : i \in Ends(j, a)
    <2>1. PICK i : i \in Ends(j, a)
      BY <1>4
    <2>2. Ends(j, a) = {i}
      BY <1>1, <2>1
    <2>3. Cardinality({i}) = 1
      BY FS_Singleton
    <2> QED
      BY <2>2, <2>3, <1>2
  <1> QED
    BY <1>3, <1>4

\* What a daemon which serves has recorded of a job agrees, whatever crashed between
\* two of the writes of an earlier one.
THEOREM RecordsHold == Spec => []RecordsAgree
  <1>1. BInv => RecordsAgree
    <2> SUFFICES ASSUME BInv, daemon \in {"up", "sweeping"}, NEW j \in Job \ damaged
                 PROVE  /\ \A a \in 1..Current(j) :
                            /\ Cardinality(Ends(j, a)) <= 1
                            /\ \A i \in Ends(j, a) :
                                events[j][i].type \in {attempt[j][a].status, "interrupted"}
                        /\ Current(j) # 0 =>
                            LET status == attempt[j][Current(j)].status IN
                            /\ Current(j) \in failure[j] <=> status = "failed"
                            /\ job[j].status \in {status, "interrupted"}
      BY DEF RecordsAgree
    <2>1. Current(j) \in 0..MaxAttempts /\ Current(j) = job[j].cur
      BY DEF BInv, IInv, DiskType, Current
    <2>2. 1..Current(j) \subseteq Attempts
      BY <2>1, SupervisorAssumption DEF Attempts
    <2>3. ASSUME Current(j) # 0
          PROVE  /\ Current(j) \in failure[j] <=> attempt[j][Current(j)].status = "failed"
                 /\ job[j].status \in {attempt[j][Current(j)].status, "interrupted"}
      <3>1. Current(j) \in Attempts
        BY <2>1, <2>3 DEF Attempts
      <3>2. CASE job[j].status = "running"
        BY <2>1, <3>2 DEF BInv, Shown, IInv, WatchInv
      <3>3. CASE job[j].status = "starting"
        BY <2>1, <3>3 DEF BInv, Shown, IInv, LaunchInv
      <3>4. CASE job[j].status \in Final
        BY <2>1, <2>3, <3>1, <3>4 DEF BInv, Books, StatusBooks
      <3>5. job[j].status # "none"
        BY <2>1, <2>3 DEF BInv, IInv, FreshInv
      <3> QED
        BY <3>2, <3>3, <3>4, <3>5 DEF BInv, IInv, DiskType, Active
    <2> QED
      BY <2>2, <2>3, OneEnd
  <1> QED
    BY <1>1, BooksHold, PTL
=============================================================================
