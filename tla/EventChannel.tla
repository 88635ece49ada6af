---------------------------- MODULE EventChannel ----------------------------
(***************************************************************************)
(* What a terminal may rely on: the events of a stream (a job, a run) are  *)
(* numbered as they are persisted, and each terminal sees them one after   *)
(* the other, none skipped, none before it is on disk -- whatever           *)
(* connections break, queues overflow or daemons crash on the way.  Only    *)
(* the loose ones, which it does not know again, may be seen more than once.*)
(***************************************************************************)
EXTENDS Naturals

CONSTANTS
    Readers,     \* the terminals
    Streams,     \* what they follow
    Loose        \* Loose[s]: the events of s without an identity of their own

VARIABLES
    persisted,   \* persisted[s]: how many events of s are on disk
    seen,        \* seen[r][s]: how many of them r has taken note of
    repeated     \* repeated[r][s]: those r has taken note of more than once

channelVars == <<persisted, seen, repeated>>

ChannelInit ==
    /\ persisted = [s \in Streams |-> 0]
    /\ seen = [r \in Readers |-> [s \in Streams |-> 0]]
    /\ repeated = [r \in Readers |-> [s \in Streams |-> {}]]

Persist(s) ==
    /\ persisted' = [persisted EXCEPT ![s] = @ + 1]
    /\ UNCHANGED <<seen, repeated>>

See(r, s) ==
    /\ seen[r][s] < persisted[s]
    /\ seen' = [seen EXCEPT ![r][s] = @ + 1]
    /\ UNCHANGED <<persisted, repeated>>

SeeAgain(r, s) ==
    /\ \E n \in Loose[s] :
        /\ n <= seen[r][s]
        /\ repeated' = [repeated EXCEPT ![r][s] = @ \cup {n}]
    /\ UNCHANGED <<persisted, seen>>

ChannelNext ==
    \/ \E s \in Streams : Persist(s)
    \/ \E r \in Readers, s \in Streams : See(r, s) \/ SeeAgain(r, s)

ChannelSpec == ChannelInit /\ [][ChannelNext]_channelVars
=============================================================================
