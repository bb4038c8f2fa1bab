----------------------------- MODULE WsGetsAbort -----------------------------
(***************************************************************************)
(* MCWsGets with a history variable: the GETs that were unsettled when the *)
(* user left their page, that is, when abortContractGets was called with a *)
(* scope that matches them.                                                *)
(***************************************************************************)
EXTENDS MCWsGets

VARIABLE left

LeaveInit == Init /\ left = {}

LeaveNext ==
  \/ /\ Next
     /\ left' = left
  \/ \E s \in Scopes :
       /\ Abort(s)
       /\ left' = left \cup {j \in Job : outcome[j] = "waiting" /\ Matches(j, s)}

LeaveSpec == LeaveInit /\ [][LeaveNext]_<<vars, left>>

\* ws.ts says of abortContractGets that it drops "queued + in-flight contract
\* GETs for a cancel scope" and of the aborted flag that it stops retries: no
\* attempt of a GET is under way once its page was left.
LeftGetNotRetried ==
  \A j \in left : ~(run # None /\ run.job = j /\ run.phase = "wait")
=============================================================================
