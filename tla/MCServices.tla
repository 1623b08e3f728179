------------------------------ MODULE MCServices ------------------------------
(* Small instances of the services that share nothing but the process.  The  *)
(* initial state chooses which one moves; the others stay as they begin, in  *)
(* which nothing fair of theirs is enabled, but for the flush of OfflineSync. *)
EXTENDS MusicReel, AccessCache, OfflineSync, Wrapped

VARIABLE focus

vars == <<reelVars, accessVars, offlineVars, wrappedVars, focus>>

Faults == {"enqueue", "server", "replace", "ffmpeg", "ack", "worker"}
OneOfEach == [k \in Faults \union {"create"} |-> 1]
TwoRequests == [k \in Faults \union {"create"} |-> CASE k = "create" -> 2 [] k = "worker" -> 1 [] OTHER -> 0]

\* One request with each fault once; two requests and a crash of the worker.
MCReelBudgets == {OneOfEach, TwoRequests}

Init ==
    /\ ReelInit /\ AccessInit /\ OfflineInit /\ WrappedInit
    /\ focus \in {"reels", "access", "offline", "log", "lock", "report"}
    /\ focus # "reels" => budget = OneOfEach
    /\ focus # "access" => whitelistEmpty

MCTrackLength == "t1" :> 2 @@ "t2" :> 0

\* Of Wrapped, the log, the lock and the report share nothing either.
WrappedMoves ==
    \/ focus = "log" /\ Recording
    \/ focus = "lock" /\ Opening
    \/ focus = "report" /\ Reporting

Next ==
    /\ \/ focus = "reels" /\ ReelNext /\ UNCHANGED <<accessVars, offlineVars, wrappedVars>>
       \/ focus = "access" /\ AccessNext /\ UNCHANGED <<reelVars, offlineVars, wrappedVars>>
       \/ focus = "offline" /\ OfflineNext /\ UNCHANGED <<reelVars, accessVars, wrappedVars>>
       \/ WrappedMoves /\ UNCHANGED <<reelVars, accessVars, offlineVars>>
    /\ UNCHANGED focus

Spec ==
    /\ Init /\ [][Next]_vars
    /\ ReelFairness /\ AccessFairness
    /\ WF_offlineVars(focus = "offline" /\ Flushing)
    /\ \A h \in Handler : WF_offlineVars(Handling(h))
=============================================================================
