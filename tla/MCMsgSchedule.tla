--------------------------- MODULE MCMsgSchedule ---------------------------
(* Instances of MsgSchedule with a few buffers for each service that        *)
(* allocates; the other services of an instance have none.                  *)
EXTENDS MsgSchedule, TLC

CONSTANTS r1, r2, n1, t1, p1

MCBuffer == {r1, r2, n1, t1, p1}
MCOwnBuffer ==
    "request" :> {r1, r2} @@ "nmac" :> {n1} @@ "timer" :> {t1} @@ "ptp" :> {p1}
\* The smaller instance for liveness: no configuration, no PTP.
MCLiveOwnBuffer ==
    "request" :> {r1, r2} @@ "nmac" :> {} @@ "timer" :> {t1} @@ "ptp" :> {}

\* The packets of the flow map and PTP, and one type that the scheduler frees.
MapAndPtp == {"rc", "unmapped", "nmac", "sync", "delayReq", "delayResp"}
\* Those of the other services beside the flow map.
OtherPackets == {"rc", "be", "arp", "regroup", "ts"}
Either == {"master", "slave"}
Slave == {"slave"}
MCSymmetry == Permutations({r1, r2})
=============================================================================
