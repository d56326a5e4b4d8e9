---------------------------- MODULE SessionTable ----------------------------
(***************************************************************************)
(* The table of sessions SessionManager (src/core/session-manager.ts)      *)
(* keeps in memory: who may be in it, how it is kept from growing and who  *)
(* is thrown out.  createSession waits for cleanup before it adds the new  *)
(* session, so several calls can be in between.                            *)
(***************************************************************************)
EXTENDS Integers, Sequences, FiniteSets

CONSTANTS
    Ids,           \* session IDs
    Agents,        \* agents that take part
    MaxSessions,   \* MAX_SESSIONS
    MaxCreating    \* bound: createSession calls in progress at the same time

ASSUME SessionTableAssumption ==
    /\ IsFiniteSet(Ids)
    /\ MaxSessions \in Nat
    /\ MaxCreating \in Nat \ {0}

VARIABLES
    live,      \* the IDs in activeSessions
    status,    \* status of a session
    agents,    \* its agents, the initiator among them
    recency,   \* the live sessions by updatedAt, oldest first
    aged,      \* live sessions not updated for more than seven days
    used,      \* IDs given away so far
    creating   \* createSession calls that wait for cleanup, by their ID

tableVars == <<live, status, agents, recency, aged, used, creating>>

Status == {"active", "completed", "failed"}
Finished == {s \in live : status[s] # "active"}
getActiveSessions == {s \in live : status[s] = "active"}

TypeOK ==
    /\ live \subseteq used /\ used \subseteq Ids
    /\ creating \subseteq used /\ creating \cap live = {}
    /\ status \in [Ids -> Status]
    /\ agents \in [Ids -> SUBSET Agents]
    /\ {recency[i] : i \in DOMAIN recency} = live
    /\ Len(recency) = Cardinality(live)
    /\ aged \subseteq live

TableInit ==
    /\ live = {} /\ used = {} /\ creating = {} /\ aged = {}
    /\ status = [s \in Ids |-> "active"]
    /\ agents = [s \in Ids |-> {}]
    /\ recency = <<>>

Without(seq, gone) == SelectSeq(seq, LAMBDA s : s \notin gone)

\* updatedAt is set to now.
Touched(s) == Append(Without(recency, {s}), s)

-----------------------------------------------------------------------------
Older(s, t) ==
    \E i, j \in DOMAIN recency : i < j /\ recency[i] = s /\ recency[j] = t

\* Mutant: by age only.
GoesFirstByAge(s, t) == Older(s, t)

\* The order of cleanup: finished sessions before active ones, then by age.
GoesFirst(s, t) ==
    \/ s \in Finished /\ t \notin Finished
    \/ (s \in Finished <=> t \in Finished) /\ Older(s, t)

Surplus == Cardinality(live) - MaxSessions

\* What cleanup removes: nothing unless there are more than MaxSessions.
IsEvicted(gone) ==
    IF Surplus <= 0 THEN gone = {}
    ELSE /\ Cardinality(gone) = Surplus
         /\ \A s \in gone, t \in live \ gone : GoesFirst(s, t)

\* Mutant: no cleanup before the session is added.
BeginUncleaned(s) ==
    /\ s \notin used /\ Cardinality(creating) < MaxCreating
    /\ Cardinality(live) >= MaxSessions
    /\ used' = used \cup {s}
    /\ creating' = creating \cup {s}
    /\ UNCHANGED <<live, recency, aged, status, agents>>

\* createSession at the limit: it runs cleanup and waits for it.
BeginCreate(s) ==
    /\ s \notin used /\ Cardinality(creating) < MaxCreating
    /\ Cardinality(live) >= MaxSessions
    /\ used' = used \cup {s}
    /\ creating' = creating \cup {s}
    /\ \E gone \in SUBSET live :
         /\ IsEvicted(gone)
         /\ live' = live \ gone
         /\ recency' = Without(recency, gone)
         /\ aged' = aged \ gone
    /\ UNCHANGED <<status, agents>>

\* The session is added, then finished sessions that have aged are removed.
AddSession(s, a) ==
    LET gone == aged \cap Finished IN
    /\ live' = (live \cup {s}) \ gone
    /\ status' = [status EXCEPT ![s] = "active"]
    /\ agents' = [agents EXCEPT ![s] = {a}]
    /\ recency' = Append(Without(recency, gone), s)
    /\ aged' = aged \ gone

\* createSession, from its start when there is room, else behind its cleanup.
CreateSession(s, a) ==
    /\ \/ s \in creating
       \/ s \notin used /\ Cardinality(live) < MaxSessions
    /\ used' = used \cup {s}
    /\ creating' = creating \ {s}
    /\ AddSession(s, a)

-----------------------------------------------------------------------------
\* An agent that is in already leaves the session as it is.
AddAgent(s, a) ==
    /\ s \in live /\ a \notin agents[s]
    /\ agents' = [agents EXCEPT ![s] = @ \cup {a}]
    /\ recency' = Touched(s)
    /\ aged' = aged \ {s}
    /\ UNCHANGED <<live, status, used, creating>>

CompleteSession(s) ==
    /\ s \in live /\ status[s] # "completed"
    /\ status' = [status EXCEPT ![s] = "completed"]
    /\ recency' = Touched(s)
    /\ aged' = aged \ {s}
    /\ UNCHANGED <<live, agents, used, creating>>

\* Whatever the status was.
FailSession(s) ==
    /\ s \in live
    /\ status' = [status EXCEPT ![s] = "failed"]
    /\ recency' = Touched(s)
    /\ aged' = aged \ {s}
    /\ UNCHANGED <<live, agents, used, creating>>

UpdateMetadata(s) ==
    /\ s \in live
    /\ recency' = Touched(s)
    /\ aged' = aged \ {s}
    /\ UNCHANGED <<live, status, agents, used, creating>>

\* Seven days pass for the oldest session that has not aged yet.
Age ==
    \E i \in DOMAIN recency :
       /\ {recency[j] : j \in 1..i-1} = aged
       /\ aged' = aged \cup {recency[i]}
       /\ UNCHANGED <<live, status, agents, recency, used, creating>>

\* A new process loads the table the old one saved.
Restart ==
    /\ creating' = {}
    /\ UNCHANGED <<live, status, agents, recency, aged, used>>

(* The tools of the MCP server.  After its change each reads the session again, *)
(* and fails if cleanup has removed it since.                                   *)
session_create(s) == BeginCreate(s) \/ \E a \in Agents : CreateSession(s, a)
session_complete(s) == CompleteSession(s)
session_fail(s) == FailSession(s)

\* The agents of a session join it and change its metadata while they run.
TableNext ==
    \/ \E s \in Ids :
         \/ session_create(s) \/ session_complete(s) \/ session_fail(s)
         \/ UpdateMetadata(s)
         \/ \E a \in Agents : AddAgent(s, a)
    \/ Age
    \/ Restart

TableSpec == TableInit /\ [][TableNext]_tableVars

-----------------------------------------------------------------------------
\* Properties.

\* The table outgrows MAX_SESSIONS by no more than the createSession calls that
\* can be between their cleanup and the insertion: cleanup, which at exactly
\* MAX_SESSIONS removes nothing, catches up with what earlier calls added.
BoundedExcess ==
    Cardinality(live) + Cardinality(creating) <= MaxSessions + MaxCreating

\* An active session goes only for want of finished ones ("Prioritize removing
\* completed/failed sessions over active ones", session-manager.ts:515).
ActiveGoLast ==
    [][getActiveSessions \ live' # {} => Finished \cap live' = {}]_tableVars
=============================================================================
