-------------------------- MODULE SupervisorCancels --------------------------
(* ConversionSupervisor with a history: which requests somebody asked to     *)
(* cancel while they were open, as a test that holds their futures knows.    *)
EXTENDS ConversionSupervisor

VARIABLE cancelAsked

AskedNow(targets) == {r \in targets : r <= submitted /\ future[r] = "open"}

HistoryInit == Init /\ cancelAsked = {}

HistoryNext ==
    \/ \E targets \in CancelTargets :
          Cancel(targets) /\ cancelAsked' = cancelAsked \cup AskedNow(targets)
    \/ /\ Submit \/ Close \/ Coordinator \/ Worker \/ ClockPasses
       /\ UNCHANGED cancelAsked

HistorySpec == HistoryInit /\ [][HistoryNext]_<<vars, cancelAsked>>

(* A request that is cancelled while its future is open never yields a       *)
(* result: tests/test_phase15a_stress.py, tools/validate_phase15a.py.        *)
CancelledNeverYieldsResult == \A r \in cancelAsked : future[r] # "result"
=============================================================================
