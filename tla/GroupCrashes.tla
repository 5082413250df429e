---------------------------- MODULE GroupCrashes ----------------------------
(***************************************************************************)
(* The group coordinator when clients crash: what its timers owe the rest  *)
(* of the group.                                                           *)
(*                                                                         *)
(* A crashed client sends nothing more.  The coordinator is not told: the  *)
(* goroutine that serves a blocked call stays parked on its channel, and   *)
(* the member stays in the group until its session timer runs out.         *)
(***************************************************************************)
EXTENDS GroupCoordinator

VARIABLE crashed      \* the clients that have crashed

crashVars == <<vars, crashed>>

CrashInit == Init /\ crashed = {}

Crash(m) ==
    /\ m \notin crashed
    /\ crashed' = crashed \cup {m}
    /\ UNCHANGED vars

CrashNext ==
    \/ Timers /\ UNCHANGED crashed
    \/ \E m \in Member \ crashed : Request(m) /\ UNCHANGED crashed
    \/ \E m \in Member : Crash(m)

\* Nothing renews the member's session for ever: the client has crashed, or it is
\* parked in Sync on a generation that is over, so that even a heartbeat sent
\* beside the call is refused (coordinator.go:235).
Unrenewed(m) == m \in crashed \/ (call[m] = "sync" /\ clientGen[m] # generation)

\* An armed time.AfterFunc fires unless it is stopped, and its callback gets
\* c.mu, which nobody holds while blocked.  completeJoin and the leader's Sync
\* restart every session timer; they do so once per join window, and joins are
\* bounded by MaxJoins.  The timer of a client that heartbeats may be reset for
\* ever, that of an Unrenewed one may not.  Clients owe nothing: no fairness on
\* Request.
TimerFairness ==
    /\ WF_crashVars(JoinTimerFires /\ UNCHANGED crashed)
    /\ WF_crashVars(completeJoin /\ UNCHANGED crashed)
    /\ \A m \in Member :
          /\ WF_crashVars(Unrenewed(m) /\ SessionFires(m) /\ UNCHANGED crashed)
          /\ WF_crashVars(expireMember(m) /\ UNCHANGED crashed)

CrashSpec == CrashInit /\ [][CrashNext]_crashVars /\ TimerFairness
-----------------------------------------------------------------------------
(* Properties                                                              *)

\* A crashed client is put out of the group in the end and never returns, in
\* whatever call or state of the group the crash caught it: Join stops its
\* session timer, but the join window then closes and completeJoin arms it
\* again (coordinator.go:141, 278, 338-353).
CrashedAreEvicted ==
    \A m \in Member : m \in crashed ~> [](m \notin members)

\* PROGRESS.md:59-61: when a member stops heartbeating, "the coordinator
\* rebalances and the remaining members pick up its partitions".  So a survivor
\* that the rebalance has made leader of the group is not left in Sync for good,
\* neither parked as a member nor, once evicted, on a channel that was dropped
\* with it (coordinator.go:206, 270); its session had not run out before.
SurvivorIsReleased ==
    \A m \in Member :
        (call[m] = "sync" /\ members = {m} /\ leader = m /\ expiring = {}
            /\ crashed = Member \ {m})
        ~> (call[m] \notin {"sync", "lostSync"} \/ m \in crashed)
=============================================================================
