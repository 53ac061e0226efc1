----------------------------- MODULE MCLinuxRun -----------------------------
(* LinuxRun on a stream that is read and written at once (l1 and l2 wait   *)
(* for its descriptor f1) beside a timer (l3 on f2).                       *)
EXTENDS LinuxRun, TLC

CONSTANTS l1, l2, l3, f1, f2

MCFdOf == l1 :> f1 @@ l2 :> f1 @@ l3 :> f2
=============================================================================
