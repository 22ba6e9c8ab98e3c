---------------------------- MODULE MCUsbInPool ----------------------------
(* Model values for UsbInPool, and the specifications its runs check. *)
EXTENDS UsbInPool, TLC

Symmetry == Permutations(Req)

\* without stream restarts, for the liveness property
StreamSpec == Init /\ [][Producer \/ UsbWorker \/ Completion \/ Host]_vars

(***************************************************************************)
(* Fairness.  The three threads and the interrupt handlers keep running;   *)
(* the host keeps reading what is armed.  The producer's pass runs the     *)
(* detector after the rate window in the same call, so a sweep cannot keep *)
(* it from its turn: strong fairness.                                      *)
(***************************************************************************)
HandlerStep(r) ==
  HandlerUntrack(r) \/ HandlerAdopt(r) \/ HandlerDec(r) \/ HandlerRecycle(r) \/ HandlerFree(r)

WorkerStep == UsbTrack \/ UsbCount \/ UsbQueue \/ UsbQueueFail \/ UsbUncount \/ UsbRecycle \/ UsbDiscard

ProducerStep ==
  FullCopy \/ FullCommit \/ FlushAdd \/ DetectRepair \/ (\E S \in SUBSET Req : DetectStall(S))
    \/ (\E r \in Req : Dequeue(r)) \/ DequeueDone

FairSpec ==
  /\ StreamSpec
  /\ \A r \in Req : WF_vars(HandlerStep(r)) /\ WF_vars(Complete(r, "ok")) /\ SF_vars(UsbTake(r))
  /\ WF_vars(WorkerStep) /\ WF_vars(ProducerStep)
  /\ SF_vars(DetectArm) /\ SF_vars(DetectCount)

\* The gate never stays shut for good while the host reads: a counter at the
\* cap comes down again, by completions or by the repair ("this gate then stays
\* shut FOREVER - the whole IN direction dies silently").
GateReopens == (cnt >= Cap) ~> (cnt < Cap)
=============================================================================
