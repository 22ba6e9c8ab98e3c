--------------------------- MODULE HostLinkProofs ---------------------------
(***************************************************************************)
(* Proofs about the host's two links.  UsbInPool, for any set of requests  *)
(* and any caps: a request is in one place.  TcpService, for any set of    *)
(* connections: no thread ever reaches a socket that has been freed.       *)
(***************************************************************************)
EXTENDS UsbInPool, TcpService, FiniteSetTheorems, TLAPS

(***************************************************************************)
(* UsbInPool: what OneHolder needs to be inductive.                        *)
(***************************************************************************)
EntryReq == {r \in Req : cpc[r] = "entry"}

\* a thread that is past its first step has a request in hand
HandsOK ==
  /\ ppc \in {"peeked", "copied"} => preq \in in
  /\ ppc = "popped" => preq \in Req
  /\ wpc \in {"took", "tracked", "counted", "failed", "dying", "recycle", "discard"} => wreq \in Req

\* between tracking and queueing, the worker's request is listed and nowhere else
TrackedOK ==
  wpc \in {"tracked", "counted"} => wreq \in inflight /\ wreq \notin udc /\ cpc[wreq] = "none"

\* req->context is set for what the list tracks, and for what the worker is
\* about to untrack after a failed queueing
ContextOK ==
  /\ inflight \subseteq context
  /\ context \subseteq inflight \cup {r \in Req : wpc \in {"failed", "dying"} /\ wreq = r}

\* nobody holds a freed request, so a minted one is nobody's
AllocOK == Held \cup udc \cup EntryReq \subseteq alloc

\* the reset works on lists only while both workers are gone
QuietOK == sm \in {"topup", "drain", "recycle", "start"} => ppc = "dead" /\ wpc = "dead"

IInv == TypeOK /\ OneHolder /\ HandsOK /\ TrackedOK /\ ContextOK /\ AllocOK /\ QuietOK

LEMMA InitInv == Init => IInv
<1> SUFFICES ASSUME Init PROVE IInv
  OBVIOUS
<1>1. FlagsOK
  BY Zenon DEF Init, FlagsOK
<1>2. TypeOK
  BY <1>1, CapAssumption DEF Init, TypeOK, ProducerPc, WorkerPc, HandlerPc, Status, RestartPc
<1>3. OneHolder
  BY DEF Init, OneHolder, PoppedReq, WorkerReq, HandlerReq
<1>4. HandsOK /\ TrackedOK /\ ContextOK /\ QuietOK
  BY DEF Init, HandsOK, TrackedOK, ContextOK, QuietOK
<1>5. AllocOK
  BY DEF Init, AllocOK, EntryReq, Held, PoppedReq, WorkerReq, HandlerReq
<1> QED BY <1>2, <1>3, <1>4, <1>5 DEF IInv

(***************************************************************************)
(* A step that moves no request: only the type needs a look.               *)
(***************************************************************************)
LEMMA QuietStep ==
  ASSUME IInv, TypeOK',
         UNCHANGED <<in, inUsb, inflight, context, udc, alloc, preq, wpc, wreq, cpc, sm>>,
         ppc' = ppc \/ {ppc, ppc'} \subseteq {"idle", "recount", "dequeue"}
  PROVE  IInv'
<1> USE DEF IInv, TypeOK
<1>1. OneHolder'
  BY DEF OneHolder, PoppedReq, WorkerReq, HandlerReq
<1>2. HandsOK' /\ TrackedOK' /\ ContextOK' /\ QuietOK'
  BY DEF HandsOK, TrackedOK, ContextOK, QuietOK
<1>3. AllocOK'
  BY DEF AllocOK, EntryReq, Held, PoppedReq, WorkerReq, HandlerReq
<1> QED BY <1>1, <1>2, <1>3

\* The producer: it takes requests out of the pool and stages them.
LEMMA ProducerInv == IInv /\ Producer => IInv'
<1> SUFFICES ASSUME IInv, Producer PROVE IInv'
  OBVIOUS
<1> USE DEF IInv, TypeOK, lists, track, evars, pvars, wvars, cvars, svars
<1>1. ASSUME NEW r \in Req, FullPeek(r) PROVE IInv'
  <2>1. TypeOK'
    BY <1>1 DEF FullPeek, FlagsOK, HandsOK, ProducerPc, WorkerPc, HandlerPc, Status, RestartPc
  <2>2. OneHolder'
    BY <1>1 DEF FullPeek, OneHolder, PoppedReq, WorkerReq, HandlerReq, EntryReq, HandsOK, TrackedOK, ContextOK, AllocOK, Held
  <2>3. HandsOK' /\ TrackedOK' /\ QuietOK'
    BY <1>1 DEF FullPeek, HandsOK, TrackedOK, QuietOK, OneHolder, WorkerReq, AllocOK, Held
  <2>4. ContextOK'
    BY <1>1 DEF FullPeek, ContextOK, HandsOK, QuietOK, OneHolder, WorkerReq
  <2>5. AllocOK'
    BY <1>1 DEF FullPeek, AllocOK, Held, EntryReq, PoppedReq, WorkerReq, HandlerReq, OneHolder, HandsOK
  <2> QED BY <2>1, <2>2, <2>3, <2>4, <2>5
<1>2. ASSUME NEW r \in Req, FlushPop(r) PROVE IInv'
  <2>0. FlagsOK'
    BY <1>2, Zenon DEF FlagsOK, FlushPop
  <2>1. TypeOK'
    BY <1>2, CapAssumption, <2>0 DEF FlushPop, HandsOK, ProducerPc, WorkerPc, HandlerPc, Status, RestartPc
  <2>2. OneHolder'
    BY <1>2 DEF FlushPop, OneHolder, PoppedReq, WorkerReq, HandlerReq, EntryReq, HandsOK, TrackedOK, ContextOK, AllocOK, Held
  <2>3. HandsOK' /\ TrackedOK' /\ QuietOK'
    BY <1>2 DEF FlushPop, HandsOK, TrackedOK, QuietOK, OneHolder, WorkerReq, AllocOK, Held
  <2>4. ContextOK'
    BY <1>2 DEF FlushPop, ContextOK, HandsOK, QuietOK, OneHolder, WorkerReq
  <2>5. AllocOK'
    BY <1>2 DEF FlushPop, AllocOK, Held, EntryReq, PoppedReq, WorkerReq, HandlerReq, OneHolder, HandsOK
  <2> QED BY <2>1, <2>2, <2>3, <2>4, <2>5
<1>3. ASSUME NEW r \in Req, Dequeue(r) PROVE IInv'
  <2>1. TypeOK'
    BY <1>3 DEF Dequeue, EpDequeue, Giveback, FlagsOK, HandsOK, ProducerPc, WorkerPc, HandlerPc, Status, RestartPc
  <2>2. OneHolder'
    BY <1>3 DEF Dequeue, EpDequeue, Giveback, OneHolder, PoppedReq, WorkerReq, HandlerReq, EntryReq, HandsOK, TrackedOK, ContextOK, AllocOK, Held
  <2>3. HandsOK' /\ TrackedOK' /\ QuietOK'
    BY <1>3 DEF Dequeue, EpDequeue, Giveback, HandsOK, TrackedOK, QuietOK, OneHolder, WorkerReq, AllocOK, Held
  <2>4. ContextOK'
    BY <1>3 DEF Dequeue, EpDequeue, Giveback, ContextOK, HandsOK, QuietOK, OneHolder, WorkerReq
  <2>5. AllocOK'
    BY <1>3 DEF Dequeue, EpDequeue, Giveback, AllocOK, Held, EntryReq, PoppedReq, WorkerReq, HandlerReq, OneHolder, HandsOK
  <2> QED BY <2>1, <2>2, <2>3, <2>4, <2>5
<1>4. ASSUME FullCopy PROVE IInv'
  <2>0. FlagsOK'
    BY <1>4, Zenon DEF FlagsOK, FullCopy
  <2>1. TypeOK'
    BY <1>4, <2>0 DEF FullCopy, HandsOK, ProducerPc, WorkerPc, HandlerPc, Status, RestartPc
  <2>2. OneHolder'
    BY <1>4 DEF FullCopy, OneHolder, PoppedReq, WorkerReq, HandlerReq, EntryReq, HandsOK, TrackedOK, ContextOK, AllocOK, Held
  <2>3. HandsOK' /\ TrackedOK' /\ QuietOK'
    BY <1>4 DEF FullCopy, HandsOK, TrackedOK, QuietOK, OneHolder, WorkerReq, AllocOK, Held
  <2>4. ContextOK'
    BY <1>4 DEF FullCopy, ContextOK, HandsOK, QuietOK, OneHolder, WorkerReq
  <2>5. AllocOK'
    BY <1>4 DEF FullCopy, AllocOK, Held, EntryReq, PoppedReq, WorkerReq, HandlerReq, OneHolder, HandsOK
  <2> QED BY <2>1, <2>2, <2>3, <2>4, <2>5
<1>5. ASSUME FullCommit PROVE IInv'
  <2>0. FlagsOK'
    BY <1>5, Zenon DEF FlagsOK, FullCommit
  <2>1. TypeOK'
    BY <1>5, <2>0 DEF FullCommit, HandsOK, ProducerPc, WorkerPc, HandlerPc, Status, RestartPc
  <2>2. OneHolder'
    BY <1>5 DEF FullCommit, OneHolder, PoppedReq, WorkerReq, HandlerReq, EntryReq, HandsOK, TrackedOK, ContextOK, AllocOK, Held
  <2>3. HandsOK' /\ TrackedOK' /\ QuietOK'
    BY <1>5 DEF FullCommit, HandsOK, TrackedOK, QuietOK, OneHolder, WorkerReq, AllocOK, Held
  <2>4. ContextOK'
    BY <1>5 DEF FullCommit, ContextOK, HandsOK, QuietOK, OneHolder, WorkerReq
  <2>5. AllocOK'
    BY <1>5 DEF FullCommit, AllocOK, Held, EntryReq, PoppedReq, WorkerReq, HandlerReq, OneHolder, HandsOK
  <2> QED BY <2>1, <2>2, <2>3, <2>4, <2>5
<1>6. ASSUME FlushRefused PROVE IInv'
  <2>0. FlagsOK'
    BY <1>6, Zenon DEF FlagsOK, FlushRefused
  <2>1. TypeOK'
    BY <1>6, CapAssumption, <2>0 DEF FlushRefused, HandsOK, ProducerPc, WorkerPc, HandlerPc, Status, RestartPc
  <2> QED BY <1>6, <2>1, QuietStep DEF FlushRefused
<1>7. ASSUME FlushAdd PROVE IInv'
  <2>1. TypeOK'
    BY <1>7 DEF FlushAdd, FlagsOK, HandsOK, ProducerPc, WorkerPc, HandlerPc, Status, RestartPc
  <2>2. OneHolder'
    BY <1>7 DEF FlushAdd, OneHolder, PoppedReq, WorkerReq, HandlerReq, EntryReq, HandsOK, TrackedOK, ContextOK, AllocOK, Held
  <2>3. HandsOK' /\ TrackedOK' /\ QuietOK'
    BY <1>7 DEF FlushAdd, HandsOK, TrackedOK, QuietOK, OneHolder, WorkerReq, AllocOK, Held
  <2>4. ContextOK'
    BY <1>7 DEF FlushAdd, ContextOK, HandsOK, QuietOK, OneHolder, WorkerReq
  <2>5. AllocOK'
    BY <1>7 DEF FlushAdd, AllocOK, Held, EntryReq, PoppedReq, WorkerReq, HandlerReq, OneHolder, HandsOK
  <2> QED BY <2>1, <2>2, <2>3, <2>4, <2>5
<1>8. ASSUME DetectArm PROVE IInv'
  <2>0. FlagsOK'
    BY <1>8, Zenon DEF FlagsOK, DetectArm
  <2>1. TypeOK'
    BY <1>8, <2>0 DEF DetectArm, HandsOK, ProducerPc, WorkerPc, HandlerPc, Status, RestartPc
  <2> QED BY <1>8, <2>1, QuietStep DEF DetectArm
<1>9. ASSUME DetectCount PROVE IInv'
  <2>1. TypeOK'
    BY <1>9, ReqAssumption, FS_Subset, FS_CardinalityType DEF DetectCount, FlagsOK, HandsOK, ProducerPc, WorkerPc, HandlerPc, Status, RestartPc
  <2> QED BY <1>9, <2>1, QuietStep DEF DetectCount
<1>10. ASSUME DetectRepair PROVE IInv'
  <2>0. FlagsOK'
    BY <1>10, Zenon DEF FlagsOK, DetectRepair
  <2>1. TypeOK'
    BY <1>10, <2>0 DEF DetectRepair, HandsOK, ProducerPc, WorkerPc, HandlerPc, Status, RestartPc
  <2> QED BY <1>10, <2>1, QuietStep DEF DetectRepair
<1>11. ASSUME NEW S \in SUBSET Req, DetectStall(S) PROVE IInv'
  <2>0. FlagsOK'
    BY <1>11, Zenon DEF FlagsOK, DetectStall
  <2>1. TypeOK'
    BY <1>11, CapAssumption, <2>0 DEF DetectStall, SweepTargets, HandsOK, ProducerPc, WorkerPc, HandlerPc, Status, RestartPc
  <2> QED BY <1>11, <2>1, QuietStep DEF DetectStall
<1>12. ASSUME NEW S \in SUBSET Req, RateSweep(S) PROVE IInv'
  <2>1. TypeOK'
    BY <1>12 DEF RateSweep, SweepTargets, FlagsOK, HandsOK, ProducerPc, WorkerPc, HandlerPc, Status, RestartPc
  <2> QED BY <1>12, <2>1, QuietStep DEF RateSweep
<1>13. ASSUME DequeueDone PROVE IInv'
  <2>1. TypeOK'
    BY <1>13 DEF DequeueDone, FlagsOK, HandsOK, ProducerPc, WorkerPc, HandlerPc, Status, RestartPc
  <2> QED BY <1>13, <2>1, QuietStep DEF DequeueDone
<1>14. ASSUME ProducerExit PROVE IInv'
  <2>1. TypeOK'
    BY <1>14 DEF ProducerExit, FlagsOK, HandsOK, ProducerPc, WorkerPc, HandlerPc, Status, RestartPc
  <2>2. OneHolder'
    BY <1>14 DEF ProducerExit, OneHolder, PoppedReq, WorkerReq, HandlerReq, EntryReq, HandsOK, TrackedOK, ContextOK, AllocOK, Held
  <2>3. HandsOK' /\ TrackedOK' /\ QuietOK'
    BY <1>14 DEF ProducerExit, HandsOK, TrackedOK, QuietOK, OneHolder, WorkerReq, AllocOK, Held
  <2>4. ContextOK'
    BY <1>14 DEF ProducerExit, ContextOK, HandsOK, QuietOK, OneHolder, WorkerReq
  <2>5. AllocOK'
    BY <1>14 DEF ProducerExit, AllocOK, Held, EntryReq, PoppedReq, WorkerReq, HandlerReq, OneHolder, HandsOK
  <2> QED BY <2>1, <2>2, <2>3, <2>4, <2>5
<1> QED BY <1>1, <1>2, <1>3, <1>4, <1>5, <1>6, <1>7, <1>8, <1>9, <1>10, <1>11, <1>12, <1>13, <1>14 DEF Producer

\* The USB worker: it tracks before it counts, and counts before it queues.
LEMMA UsbWorkerInv == IInv /\ UsbWorker => IInv'
<1> SUFFICES ASSUME IInv, UsbWorker PROVE IInv'
  OBVIOUS
<1> USE DEF IInv, TypeOK, lists, track, evars, pvars, wvars, cvars, svars
<1>1. ASSUME NEW r \in Req, UsbTake(r) PROVE IInv'
  <2>1. TypeOK'
    BY <1>1 DEF UsbTake, FlagsOK, HandsOK, ProducerPc, WorkerPc, HandlerPc, Status, RestartPc
  <2>2. OneHolder'
    BY <1>1 DEF UsbTake, OneHolder, PoppedReq, WorkerReq, HandlerReq, EntryReq, HandsOK, TrackedOK, ContextOK, AllocOK, Held
  <2>3. HandsOK' /\ TrackedOK' /\ QuietOK'
    BY <1>1 DEF UsbTake, HandsOK, TrackedOK, QuietOK, OneHolder, WorkerReq, AllocOK, Held
  <2>4. ContextOK'
    BY <1>1 DEF UsbTake, ContextOK, HandsOK, QuietOK, OneHolder, WorkerReq
  <2>5. AllocOK'
    BY <1>1 DEF UsbTake, AllocOK, Held, EntryReq, PoppedReq, WorkerReq, HandlerReq, OneHolder, HandsOK
  <2> QED BY <2>1, <2>2, <2>3, <2>4, <2>5
<1>2. ASSUME UsbTrack PROVE IInv'
  <2>1. TypeOK'
    BY <1>2 DEF UsbTrack, FlagsOK, HandsOK, ProducerPc, WorkerPc, HandlerPc, Status, RestartPc
  <2>2. OneHolder'
    BY <1>2 DEF UsbTrack, OneHolder, PoppedReq, WorkerReq, HandlerReq, EntryReq, HandsOK, TrackedOK, ContextOK, AllocOK, Held
  <2>3. HandsOK' /\ TrackedOK' /\ QuietOK'
    BY <1>2 DEF UsbTrack, HandsOK, TrackedOK, QuietOK, OneHolder, WorkerReq, HandlerReq, HandlerPc
  <2>4. ContextOK'
    BY <1>2 DEF UsbTrack, ContextOK, HandsOK, QuietOK, OneHolder, WorkerReq
  <2>5. AllocOK'
    BY <1>2 DEF UsbTrack, AllocOK, Held, EntryReq, PoppedReq, WorkerReq, HandlerReq, OneHolder, HandsOK
  <2> QED BY <2>1, <2>2, <2>3, <2>4, <2>5
<1>3. ASSUME UsbCount PROVE IInv'
  <2>1. TypeOK'
    BY <1>3 DEF UsbCount, FlagsOK, HandsOK, ProducerPc, WorkerPc, HandlerPc, Status, RestartPc
  <2>2. OneHolder'
    BY <1>3 DEF UsbCount, OneHolder, PoppedReq, WorkerReq, HandlerReq, EntryReq, HandsOK, TrackedOK, ContextOK, AllocOK, Held
  <2>3. HandsOK' /\ TrackedOK' /\ QuietOK'
    BY <1>3 DEF UsbCount, HandsOK, TrackedOK, QuietOK, OneHolder, WorkerReq, AllocOK, Held
  <2>4. ContextOK'
    BY <1>3 DEF UsbCount, ContextOK, HandsOK, QuietOK, OneHolder, WorkerReq
  <2>5. AllocOK'
    BY <1>3 DEF UsbCount, AllocOK, Held, EntryReq, PoppedReq, WorkerReq, HandlerReq, OneHolder, HandsOK
  <2> QED BY <2>1, <2>2, <2>3, <2>4, <2>5
<1>4. ASSUME UsbQueue PROVE IInv'
  <2>1. TypeOK'
    BY <1>4 DEF UsbQueue, FlagsOK, HandsOK, ProducerPc, WorkerPc, HandlerPc, Status, RestartPc
  <2>2. OneHolder'
    BY <1>4 DEF UsbQueue, OneHolder, PoppedReq, WorkerReq, HandlerReq, EntryReq, HandsOK, TrackedOK, ContextOK, AllocOK, Held
  <2>3. HandsOK' /\ TrackedOK' /\ QuietOK'
    BY <1>4 DEF UsbQueue, HandsOK, TrackedOK, QuietOK, OneHolder, WorkerReq, AllocOK, Held
  <2>4. ContextOK'
    BY <1>4 DEF UsbQueue, ContextOK, HandsOK, QuietOK, OneHolder, WorkerReq
  <2>5. AllocOK'
    BY <1>4 DEF UsbQueue, AllocOK, Held, EntryReq, PoppedReq, WorkerReq, HandlerReq, HandsOK, TrackedOK
  <2> QED BY <2>1, <2>2, <2>3, <2>4, <2>5
<1>5. ASSUME UsbQueueFail PROVE IInv'
  <2>1. TypeOK'
    BY <1>5 DEF UsbQueueFail, FlagsOK, HandsOK, ProducerPc, WorkerPc, HandlerPc, Status, RestartPc
  <2>2. OneHolder'
    BY <1>5 DEF UsbQueueFail, OneHolder, PoppedReq, WorkerReq, HandlerReq, EntryReq, HandsOK, TrackedOK, ContextOK, AllocOK, Held
  <2>3. HandsOK' /\ TrackedOK' /\ QuietOK'
    BY <1>5 DEF UsbQueueFail, HandsOK, TrackedOK, QuietOK, OneHolder, WorkerReq, AllocOK, Held
  <2>4. ContextOK'
    BY <1>5 DEF UsbQueueFail, ContextOK, HandsOK, QuietOK, OneHolder, WorkerReq
  <2>5. AllocOK'
    BY <1>5 DEF UsbQueueFail, AllocOK, Held, EntryReq, PoppedReq, WorkerReq, HandlerReq, HandsOK, TrackedOK
  <2> QED BY <2>1, <2>2, <2>3, <2>4, <2>5
<1>6. ASSUME UsbUncount PROVE IInv'
  <2>1. TypeOK'
    BY <1>6 DEF UsbUncount, FlagsOK, HandsOK, ProducerPc, WorkerPc, HandlerPc, Status, RestartPc
  <2>2. OneHolder'
    BY <1>6 DEF UsbUncount, OneHolder, PoppedReq, WorkerReq, HandlerReq, EntryReq, HandsOK, TrackedOK, ContextOK, AllocOK, Held
  <2>3. HandsOK' /\ TrackedOK' /\ QuietOK'
    BY <1>6 DEF UsbUncount, HandsOK, TrackedOK, QuietOK, OneHolder, WorkerReq, AllocOK, Held
  <2>4. ContextOK'
    BY <1>6 DEF UsbUncount, ContextOK, HandsOK, QuietOK, OneHolder, WorkerReq
  <2>5. AllocOK'
    BY <1>6 DEF UsbUncount, AllocOK, Held, EntryReq, PoppedReq, WorkerReq, HandlerReq, OneHolder, HandsOK
  <2> QED BY <2>1, <2>2, <2>3, <2>4, <2>5
<1>7. ASSUME UsbRecycle PROVE IInv'
  <2>1. TypeOK'
    BY <1>7 DEF UsbRecycle, FlagsOK, HandsOK, ProducerPc, WorkerPc, HandlerPc, Status, RestartPc
  <2>2. OneHolder'
    BY <1>7 DEF UsbRecycle, OneHolder, PoppedReq, WorkerReq, HandlerReq, EntryReq, HandsOK, TrackedOK, ContextOK, AllocOK, Held
  <2>3. HandsOK' /\ TrackedOK' /\ QuietOK'
    BY <1>7 DEF UsbRecycle, HandsOK, TrackedOK, QuietOK, OneHolder, WorkerReq, AllocOK, Held
  <2>4. ContextOK'
    BY <1>7 DEF UsbRecycle, ContextOK, HandsOK, QuietOK, OneHolder, WorkerReq
  <2>5. AllocOK'
    BY <1>7 DEF UsbRecycle, AllocOK, Held, EntryReq, PoppedReq, WorkerReq, HandlerReq, OneHolder, HandsOK
  <2> QED BY <2>1, <2>2, <2>3, <2>4, <2>5
<1>8. ASSUME UsbDiscard PROVE IInv'
  <2>1. TypeOK'
    BY <1>8 DEF UsbDiscard, FlagsOK, HandsOK, ProducerPc, WorkerPc, HandlerPc, Status, RestartPc
  <2>2. OneHolder'
    BY <1>8 DEF UsbDiscard, OneHolder, PoppedReq, WorkerReq, HandlerReq, EntryReq, HandsOK, TrackedOK, ContextOK, AllocOK, Held
  <2>3. HandsOK' /\ TrackedOK' /\ QuietOK'
    BY <1>8 DEF UsbDiscard, HandsOK, TrackedOK, QuietOK, OneHolder, WorkerReq, AllocOK, Held
  <2>4. ContextOK'
    BY <1>8 DEF UsbDiscard, ContextOK, HandsOK, QuietOK, OneHolder, WorkerReq
  <2>5. AllocOK'
    BY <1>8 DEF UsbDiscard, AllocOK, Held, EntryReq, PoppedReq, WorkerReq, HandlerReq, OneHolder, HandsOK
  <2> QED BY <2>1, <2>2, <2>3, <2>4, <2>5
<1>9. ASSUME UsbExit PROVE IInv'
  <2>1. TypeOK'
    BY <1>9 DEF UsbExit, FlagsOK, HandsOK, ProducerPc, WorkerPc, HandlerPc, Status, RestartPc
  <2>2. OneHolder'
    BY <1>9 DEF UsbExit, OneHolder, PoppedReq, WorkerReq, HandlerReq, EntryReq, HandsOK, TrackedOK, ContextOK, AllocOK, Held
  <2>3. HandsOK' /\ TrackedOK' /\ QuietOK'
    BY <1>9 DEF UsbExit, HandsOK, TrackedOK, QuietOK, OneHolder, WorkerReq, AllocOK, Held
  <2>4. ContextOK'
    BY <1>9 DEF UsbExit, ContextOK, HandsOK, QuietOK, OneHolder, WorkerReq
  <2>5. AllocOK'
    BY <1>9 DEF UsbExit, AllocOK, Held, EntryReq, PoppedReq, WorkerReq, HandlerReq, OneHolder, HandsOK
  <2> QED BY <2>1, <2>2, <2>3, <2>4, <2>5
<1> QED BY <1>1, <1>2, <1>3, <1>4, <1>5, <1>6, <1>7, <1>8, <1>9 DEF UsbWorker

\* The completion handler: what it adopts is in no list, since every listed
\* request has its context.
LEMMA CompletionInv == IInv /\ Completion => IInv'
<1> SUFFICES ASSUME IInv, Completion PROVE IInv'
  OBVIOUS
<1> USE DEF IInv, TypeOK, lists, track, evars, pvars, wvars, cvars, svars
<1>1. ASSUME NEW r \in Req, NEW status \in Status, Complete(r, status) PROVE IInv'
  <2>1. TypeOK'
    BY <1>1 DEF Complete, Giveback, FlagsOK, HandsOK, ProducerPc, WorkerPc, HandlerPc, Status, RestartPc
  <2>2. OneHolder'
    BY <1>1 DEF Complete, Giveback, OneHolder, PoppedReq, WorkerReq, HandlerReq, EntryReq, HandsOK, TrackedOK, ContextOK, AllocOK, Held
  <2>3. HandsOK' /\ TrackedOK' /\ QuietOK'
    BY <1>1 DEF Complete, Giveback, HandsOK, TrackedOK, QuietOK, OneHolder, WorkerReq, AllocOK, Held
  <2>4. ContextOK'
    BY <1>1 DEF Complete, Giveback, ContextOK, HandsOK, QuietOK, OneHolder, WorkerReq
  <2>5. AllocOK'
    BY <1>1 DEF Complete, Giveback, AllocOK, Held, EntryReq, PoppedReq, WorkerReq, HandlerReq, OneHolder, HandsOK
  <2> QED BY <2>1, <2>2, <2>3, <2>4, <2>5
<1>2. ASSUME NEW r \in Req, HandlerUntrack(r) PROVE IInv'
  <2>1. TypeOK'
    BY <1>2 DEF HandlerUntrack, FlagsOK, HandsOK, ProducerPc, WorkerPc, HandlerPc, Status, RestartPc
  <2>2. OneHolder'
    BY <1>2 DEF HandlerUntrack, OneHolder, PoppedReq, WorkerReq, HandlerReq, EntryReq, HandsOK, TrackedOK, ContextOK, AllocOK, Held
  <2>3. HandsOK' /\ TrackedOK' /\ QuietOK'
    BY <1>2 DEF HandlerUntrack, HandsOK, TrackedOK, QuietOK, OneHolder, WorkerReq, AllocOK, Held
  <2>4. ContextOK'
    BY <1>2 DEF HandlerUntrack, ContextOK, HandsOK, QuietOK, OneHolder, WorkerReq
  <2>5. AllocOK'
    BY <1>2 DEF HandlerUntrack, AllocOK, Held, EntryReq, PoppedReq, WorkerReq, HandlerReq, OneHolder, HandsOK
  <2> QED BY <2>1, <2>2, <2>3, <2>4, <2>5
<1>3. ASSUME NEW r \in Req, HandlerAdopt(r) PROVE IInv'
  <2>1. TypeOK'
    BY <1>3 DEF HandlerAdopt, HandlerReturn, FlagsOK, HandsOK, ProducerPc, WorkerPc, HandlerPc, Status, RestartPc
  <2>2. OneHolder'
    BY <1>3 DEF HandlerAdopt, HandlerReturn, OneHolder, PoppedReq, WorkerReq, HandlerReq, EntryReq, HandsOK, TrackedOK, ContextOK, AllocOK, Held
  <2>3. HandsOK' /\ TrackedOK' /\ QuietOK'
    BY <1>3 DEF HandlerAdopt, HandlerReturn, HandsOK, TrackedOK, QuietOK, OneHolder, WorkerReq, AllocOK, Held
  <2>4. ContextOK'
    BY <1>3 DEF HandlerAdopt, HandlerReturn, ContextOK, HandsOK, QuietOK, OneHolder, WorkerReq
  <2>5. AllocOK'
    BY <1>3 DEF HandlerAdopt, HandlerReturn, AllocOK, Held, EntryReq, PoppedReq, WorkerReq, HandlerReq, OneHolder, HandsOK
  <2> QED BY <2>1, <2>2, <2>3, <2>4, <2>5
<1>4. ASSUME NEW r \in Req, HandlerDec(r) PROVE IInv'
  <2>1. TypeOK'
    BY <1>4 DEF HandlerDec, FlagsOK, HandsOK, ProducerPc, WorkerPc, HandlerPc, Status, RestartPc
  <2>2. OneHolder'
    BY <1>4 DEF HandlerDec, OneHolder, PoppedReq, WorkerReq, HandlerReq, EntryReq, HandsOK, TrackedOK, ContextOK, AllocOK, Held
  <2>3. HandsOK' /\ TrackedOK' /\ QuietOK'
    BY <1>4 DEF HandlerDec, HandsOK, TrackedOK, QuietOK, OneHolder, WorkerReq, AllocOK, Held
  <2>4. ContextOK'
    BY <1>4 DEF HandlerDec, ContextOK, HandsOK, QuietOK, OneHolder, WorkerReq
  <2>5. AllocOK'
    BY <1>4 DEF HandlerDec, AllocOK, Held, EntryReq, PoppedReq, WorkerReq, HandlerReq, OneHolder, HandsOK
  <2> QED BY <2>1, <2>2, <2>3, <2>4, <2>5
<1>5. ASSUME NEW r \in Req, HandlerRecycle(r) PROVE IInv'
  <2>0. FlagsOK'
    BY <1>5, Zenon DEF FlagsOK, HandlerRecycle
  <2>1. TypeOK'
    BY <1>5, <2>0 DEF HandlerRecycle, HandlerReturn, HandsOK, ProducerPc, WorkerPc, HandlerPc, Status, RestartPc
  <2>2. OneHolder'
    BY <1>5 DEF HandlerRecycle, HandlerReturn, OneHolder, PoppedReq, WorkerReq, HandlerReq, EntryReq, HandsOK, TrackedOK, ContextOK, AllocOK, Held
  <2>3. HandsOK' /\ TrackedOK' /\ QuietOK'
    BY <1>5 DEF HandlerRecycle, HandlerReturn, HandsOK, TrackedOK, QuietOK, OneHolder, WorkerReq, AllocOK, Held
  <2>4. ContextOK'
    BY <1>5 DEF HandlerRecycle, HandlerReturn, ContextOK, HandsOK, QuietOK, OneHolder, WorkerReq
  <2>5. AllocOK'
    BY <1>5 DEF HandlerRecycle, HandlerReturn, AllocOK, Held, EntryReq, PoppedReq, WorkerReq, HandlerReq, OneHolder, HandsOK
  <2> QED BY <2>1, <2>2, <2>3, <2>4, <2>5
<1>6. ASSUME NEW r \in Req, HandlerFree(r) PROVE IInv'
  <2>1. TypeOK'
    BY <1>6 DEF HandlerFree, HandlerReturn, FlagsOK, HandsOK, ProducerPc, WorkerPc, HandlerPc, Status, RestartPc
  <2>2. OneHolder'
    BY <1>6 DEF HandlerFree, HandlerReturn, OneHolder, PoppedReq, WorkerReq, HandlerReq, EntryReq, HandsOK, TrackedOK, ContextOK, AllocOK, Held
  <2>3. HandsOK' /\ TrackedOK' /\ QuietOK'
    BY <1>6 DEF HandlerFree, HandlerReturn, HandsOK, TrackedOK, QuietOK, OneHolder, WorkerReq, AllocOK, Held
  <2>4. ContextOK'
    BY <1>6 DEF HandlerFree, HandlerReturn, ContextOK, HandsOK, QuietOK, OneHolder, WorkerReq
  <2>5. AllocOK'
    BY <1>6 DEF HandlerFree, HandlerReturn, AllocOK, Held, EntryReq, PoppedReq, WorkerReq, HandlerReq, OneHolder, HandsOK
  <2> QED BY <2>1, <2>2, <2>3, <2>4, <2>5
<1> QED BY <1>1, <1>2, <1>3, <1>4, <1>5, <1>6 DEF Completion

\* The endpoints: what they mint is nobody's.
LEMMA HostInv == IInv /\ Host => IInv'
<1> SUFFICES ASSUME IInv, Host PROVE IInv'
  OBVIOUS
<1> USE DEF IInv, TypeOK, lists, track, evars, pvars, wvars, cvars, svars
<1>1. ASSUME EpDisable PROVE IInv'
  <2>0. FlagsOK'
    BY <1>1, Zenon DEF FlagsOK, EpDisable
  <2>1. TypeOK'
    BY <1>1, <2>0 DEF EpDisable, Giveback, HandsOK, ProducerPc, WorkerPc, HandlerPc, Status, RestartPc
  <2>2. OneHolder'
    BY <1>1 DEF EpDisable, Giveback, OneHolder, PoppedReq, WorkerReq, HandlerReq, EntryReq, HandsOK, TrackedOK, ContextOK, AllocOK, Held
  <2>3. HandsOK' /\ TrackedOK' /\ QuietOK'
    BY <1>1 DEF EpDisable, Giveback, HandsOK, TrackedOK, QuietOK, OneHolder, WorkerReq, AllocOK, Held
  <2>4. ContextOK'
    BY <1>1 DEF EpDisable, Giveback, ContextOK, HandsOK, QuietOK, OneHolder, WorkerReq
  <2>5. AllocOK'
    BY <1>1 DEF EpDisable, Giveback, AllocOK, Held, EntryReq, PoppedReq, WorkerReq, HandlerReq, OneHolder, HandsOK
  <2> QED BY <2>1, <2>2, <2>3, <2>4, <2>5
<1>2. ASSUME NEW S \in SUBSET Req, EpEnable(S) PROVE IInv'
  <2>0. FlagsOK'
    BY <1>2, Zenon DEF FlagsOK, EpEnable
  <2>1. TypeOK'
    BY <1>2, <2>0 DEF EpEnable, Fresh, HandsOK, ProducerPc, WorkerPc, HandlerPc, Status, RestartPc
  <2>2. OneHolder'
    BY <1>2 DEF EpEnable, Fresh, OneHolder, PoppedReq, WorkerReq, HandlerReq, EntryReq, AllocOK, Held, HandlerPc
  <2>3. HandsOK' /\ TrackedOK' /\ QuietOK'
    BY <1>2 DEF EpEnable, Fresh, HandsOK, TrackedOK, QuietOK, OneHolder, WorkerReq, AllocOK, Held
  <2>4. ContextOK'
    BY <1>2 DEF EpEnable, Fresh, ContextOK, HandsOK, QuietOK, OneHolder, WorkerReq
  <2>5. AllocOK'
    BY <1>2 DEF EpEnable, Fresh, AllocOK, Held, EntryReq, PoppedReq, WorkerReq, HandlerReq, OneHolder, HandsOK
  <2> QED BY <2>1, <2>2, <2>3, <2>4, <2>5
<1>3. ASSUME ConsumerStale PROVE IInv'
  <2>0. FlagsOK'
    BY <1>3, Zenon DEF FlagsOK, ConsumerStale
  <2>1. TypeOK'
    BY <1>3, <2>0 DEF ConsumerStale, HandsOK, ProducerPc, WorkerPc, HandlerPc, Status, RestartPc
  <2> QED BY <1>3, <2>1, QuietStep DEF ConsumerStale
<1>4. ASSUME GraceExpires PROVE IInv'
  <2>0. FlagsOK'
    BY <1>4, Zenon DEF FlagsOK, GraceExpires
  <2>1. TypeOK'
    BY <1>4, <2>0 DEF GraceExpires, HandsOK, ProducerPc, WorkerPc, HandlerPc, Status, RestartPc
  <2> QED BY <1>4, <2>1, QuietStep DEF GraceExpires
<1> QED BY <1>1, <1>2, <1>3, <1>4 DEF Host

\* The restart touches lists only while the workers are gone.
LEMMA RestartInv == IInv /\ Restart => IInv'
<1> SUFFICES ASSUME IInv, Restart PROVE IInv'
  OBVIOUS
<1> USE DEF IInv, TypeOK, lists, track, evars, pvars, wvars, cvars, svars
<1>1. ASSUME RestartBegin PROVE IInv'
  <2>1. TypeOK'
    BY <1>1 DEF RestartBegin, Workers, FlagsOK, HandsOK, ProducerPc, WorkerPc, HandlerPc, Status, RestartPc
  <2>2. OneHolder'
    BY <1>1 DEF RestartBegin, Workers, OneHolder, PoppedReq, WorkerReq, HandlerReq, EntryReq, HandsOK, TrackedOK, ContextOK, AllocOK, Held
  <2>3. HandsOK' /\ TrackedOK' /\ QuietOK'
    BY <1>1 DEF RestartBegin, Workers, HandsOK, TrackedOK, QuietOK, OneHolder, WorkerReq, AllocOK, Held
  <2>4. ContextOK'
    BY <1>1 DEF RestartBegin, Workers, ContextOK, HandsOK, QuietOK, OneHolder, WorkerReq
  <2>5. AllocOK'
    BY <1>1 DEF RestartBegin, Workers, AllocOK, Held, EntryReq, PoppedReq, WorkerReq, HandlerReq, OneHolder, HandsOK
  <2> QED BY <2>1, <2>2, <2>3, <2>4, <2>5
<1>2. ASSUME RestartTimeout PROVE IInv'
  <2>1. TypeOK'
    BY <1>2 DEF RestartTimeout, FlagsOK, HandsOK, ProducerPc, WorkerPc, HandlerPc, Status, RestartPc
  <2>2. OneHolder'
    BY <1>2 DEF RestartTimeout, OneHolder, PoppedReq, WorkerReq, HandlerReq, EntryReq, HandsOK, TrackedOK, ContextOK, AllocOK, Held
  <2>3. HandsOK' /\ TrackedOK' /\ QuietOK'
    BY <1>2 DEF RestartTimeout, HandsOK, TrackedOK, QuietOK, OneHolder, WorkerReq, AllocOK, Held
  <2>4. ContextOK'
    BY <1>2 DEF RestartTimeout, ContextOK, HandsOK, QuietOK, OneHolder, WorkerReq
  <2>5. AllocOK'
    BY <1>2 DEF RestartTimeout, AllocOK, Held, EntryReq, PoppedReq, WorkerReq, HandlerReq, OneHolder, HandsOK
  <2> QED BY <2>1, <2>2, <2>3, <2>4, <2>5
<1>3. ASSUME TopupRead PROVE IInv'
  <2>1. TypeOK'
    BY <1>3 DEF TopupRead, Workers, FlagsOK, HandsOK, ProducerPc, WorkerPc, HandlerPc, Status, RestartPc
  <2>2. OneHolder'
    BY <1>3 DEF TopupRead, Workers, OneHolder, PoppedReq, WorkerReq, HandlerReq, EntryReq, HandsOK, TrackedOK, ContextOK, AllocOK, Held
  <2>3. HandsOK' /\ TrackedOK' /\ QuietOK'
    BY <1>3 DEF TopupRead, Workers, HandsOK, TrackedOK, QuietOK, OneHolder, WorkerReq, AllocOK, Held
  <2>4. ContextOK'
    BY <1>3 DEF TopupRead, Workers, ContextOK, HandsOK, QuietOK, OneHolder, WorkerReq
  <2>5. AllocOK'
    BY <1>3 DEF TopupRead, Workers, AllocOK, Held, EntryReq, PoppedReq, WorkerReq, HandlerReq, OneHolder, HandsOK
  <2> QED BY <2>1, <2>2, <2>3, <2>4, <2>5
<1>4. ASSUME NEW S \in SUBSET Req, TopupMint(S) PROVE IInv'
  <2>1. TypeOK'
    BY <1>4, ReqAssumption, FS_Subset, FS_CardinalityType DEF TopupMint, Fresh, FlagsOK, HandsOK, ProducerPc, WorkerPc, HandlerPc, Status, RestartPc
  <2>2. OneHolder'
    BY <1>4 DEF TopupMint, Fresh, OneHolder, PoppedReq, WorkerReq, HandlerReq, EntryReq, HandsOK, TrackedOK, ContextOK, AllocOK, Held
  <2>3. HandsOK' /\ TrackedOK' /\ QuietOK'
    BY <1>4 DEF TopupMint, Fresh, HandsOK, TrackedOK, QuietOK, OneHolder, WorkerReq, AllocOK, Held
  <2>4. ContextOK'
    BY <1>4 DEF TopupMint, Fresh, ContextOK, HandsOK, QuietOK, OneHolder, WorkerReq
  <2>5. AllocOK'
    BY <1>4 DEF TopupMint, Fresh, AllocOK, Held, EntryReq, PoppedReq, WorkerReq, HandlerReq, OneHolder, HandsOK
  <2> QED BY <2>1, <2>2, <2>3, <2>4, <2>5
<1>5. ASSUME NEW r \in Req, DrainOne(r) PROVE IInv'
  <2>1. TypeOK'
    BY <1>5, CapAssumption DEF DrainOne, EpDequeue, Giveback, FlagsOK, HandsOK, ProducerPc, WorkerPc, HandlerPc, Status, RestartPc
  <2>2. OneHolder'
    BY <1>5 DEF DrainOne, EpDequeue, Giveback, OneHolder, PoppedReq, WorkerReq, HandlerReq, EntryReq, HandsOK, TrackedOK, ContextOK, AllocOK, Held
  <2>3. HandsOK' /\ TrackedOK' /\ QuietOK'
    BY <1>5 DEF DrainOne, EpDequeue, Giveback, HandsOK, TrackedOK, QuietOK, OneHolder, WorkerReq, AllocOK, Held
  <2>4. ContextOK'
    BY <1>5 DEF DrainOne, EpDequeue, Giveback, ContextOK, HandsOK, QuietOK, OneHolder, WorkerReq
  <2>5. AllocOK'
    BY <1>5 DEF DrainOne, EpDequeue, Giveback, AllocOK, Held, EntryReq, PoppedReq, WorkerReq, HandlerReq, OneHolder, HandsOK
  <2> QED BY <2>1, <2>2, <2>3, <2>4, <2>5
<1>6. ASSUME DrainEnd PROVE IInv'
  <2>1. TypeOK'
    BY <1>6, CapAssumption DEF DrainEnd, FlagsOK, HandsOK, ProducerPc, WorkerPc, HandlerPc, Status, RestartPc
  <2>2. OneHolder'
    BY <1>6 DEF DrainEnd, OneHolder, PoppedReq, WorkerReq, HandlerReq, EntryReq, HandsOK, TrackedOK, ContextOK, AllocOK, Held
  <2>3. HandsOK' /\ TrackedOK' /\ QuietOK'
    BY <1>6 DEF DrainEnd, HandsOK, TrackedOK, QuietOK, OneHolder, WorkerReq, AllocOK, Held
  <2>4. ContextOK'
    BY <1>6 DEF DrainEnd, ContextOK, HandsOK, QuietOK, OneHolder, WorkerReq
  <2>5. AllocOK'
    BY <1>6 DEF DrainEnd, AllocOK, Held, EntryReq, PoppedReq, WorkerReq, HandlerReq, OneHolder, HandsOK
  <2> QED BY <2>1, <2>2, <2>3, <2>4, <2>5
<1>7. ASSUME RecycleStaged PROVE IInv'
  <2>0. FlagsOK'
    BY <1>7, Zenon DEF FlagsOK, RecycleStaged
  <2>1. TypeOK'
    BY <1>7, <2>0 DEF RecycleStaged, HandsOK, ProducerPc, WorkerPc, HandlerPc, Status, RestartPc
  <2>2. OneHolder'
    BY <1>7 DEF RecycleStaged, OneHolder, PoppedReq, WorkerReq, HandlerReq, EntryReq, HandsOK, TrackedOK, ContextOK, AllocOK, Held
  <2>3. HandsOK' /\ TrackedOK' /\ QuietOK'
    BY <1>7 DEF RecycleStaged, HandsOK, TrackedOK, QuietOK, OneHolder, WorkerReq, AllocOK, Held
  <2>4. ContextOK'
    BY <1>7 DEF RecycleStaged, ContextOK, HandsOK, QuietOK, OneHolder, WorkerReq
  <2>5. AllocOK'
    BY <1>7 DEF RecycleStaged, AllocOK, Held, EntryReq, PoppedReq, WorkerReq, HandlerReq, OneHolder, HandsOK
  <2> QED BY <2>1, <2>2, <2>3, <2>4, <2>5
<1>8. ASSUME StartWorkers PROVE IInv'
  <2>1. TypeOK'
    BY <1>8 DEF StartWorkers, FlagsOK, HandsOK, ProducerPc, WorkerPc, HandlerPc, Status, RestartPc
  <2>2. OneHolder'
    BY <1>8 DEF StartWorkers, OneHolder, PoppedReq, WorkerReq, HandlerReq, EntryReq, HandsOK, TrackedOK, ContextOK, AllocOK, Held
  <2>3. HandsOK' /\ TrackedOK' /\ QuietOK'
    BY <1>8 DEF StartWorkers, HandsOK, TrackedOK, QuietOK, OneHolder, WorkerReq, AllocOK, Held
  <2>4. ContextOK'
    BY <1>8 DEF StartWorkers, ContextOK, HandsOK, QuietOK, OneHolder, WorkerReq
  <2>5. AllocOK'
    BY <1>8 DEF StartWorkers, AllocOK, Held, EntryReq, PoppedReq, WorkerReq, HandlerReq, OneHolder, HandsOK
  <2> QED BY <2>1, <2>2, <2>3, <2>4, <2>5
<1> QED BY <1>1, <1>2, <1>3, <1>4, <1>5, <1>6, <1>7, <1>8 DEF Restart

LEMMA StepInv == IInv /\ [Next]_vars => IInv'
<1> SUFFICES ASSUME IInv, [Next]_vars PROVE IInv'
  OBVIOUS
<1>1. CASE UNCHANGED vars
  <2>1. TypeOK'
    BY <1>1 DEF IInv, TypeOK, FlagsOK, vars
  <2> QED BY <1>1, <2>1, QuietStep DEF vars
<1>2. CASE Next
  BY <1>2, ProducerInv, UsbWorkerInv, CompletionInv, HostInv, RestartInv DEF Next
<1> QED BY <1>1, <1>2

\* Every variable of the request pool keeps its type in every behaviour.
THEOREM TypeCorrect == Spec => []TypeOK
<1>1. IInv => TypeOK
  BY DEF IInv
<1> QED BY <1>1, InitInv, StepInv, PTL DEF Spec

\* No request ever has two holders: whatever the producer, the worker, the
\* completion handlers, the host and the restart do, in whatever order.
THEOREM SingleHolder == Spec => []OneHolder
<1>1. IInv => OneHolder
  BY DEF IInv
<1> QED BY <1>1, InitInv, StepInv, PTL DEF Spec

(***************************************************************************)
(* The in-flight counter.  Every step but the repair leaves the distance   *)
(* between the counter and the set it counts where it was.                 *)
(***************************************************************************)
LEMMA CountedFinite ==
  ASSUME TypeOK PROVE IsFiniteSet(Counted) /\ Cardinality(Counted) \in Nat
<1>1. Counted \subseteq Req
  BY DEF Counted, TypeOK
<1> QED BY <1>1, ReqAssumption, FS_Subset, FS_CardinalityType

LEMMA DriftFrame == ASSUME Counted' = Counted, cnt' = cnt PROVE Drift' = Drift
BY DEF Drift

LEMMA DriftUp ==
  ASSUME TypeOK, NEW r, r \notin Counted, Counted' = Counted \cup {r}, cnt' = cnt + 1
  PROVE  Drift' = Drift
<1>1. Cardinality(Counted') = Cardinality(Counted) + 1
  BY CountedFinite, FS_AddElement
<1> QED BY <1>1, CountedFinite DEF Drift, TypeOK

LEMMA DriftDown ==
  ASSUME TypeOK, NEW r, r \in Counted, Counted' = Counted \ {r}, cnt' = cnt - 1
  PROVE  Drift' = Drift
<1>1. Cardinality(Counted') = Cardinality(Counted) - 1
  BY CountedFinite, FS_RemoveElement
<1> QED BY <1>1, CountedFinite DEF Drift, TypeOK

LEMMA DriftStep == IInv /\ Next => DetectRepair \/ Drift' = Drift
<1> SUFFICES ASSUME IInv, Next, ~DetectRepair PROVE Drift' = Drift
  OBVIOUS
<1> USE DEF IInv, lists, track, evars, pvars, wvars, cvars, svars
<1>1. CASE Producer
  <2>1. cnt' = cnt
    BY <1>1 DEF Producer, FullPeek, FlushPop, Dequeue, FullCopy, FullCommit, FlushRefused, FlushAdd,
       DetectArm, DetectCount, DetectStall, RateSweep, DequeueDone, ProducerExit
  <2>2. ASSUME NEW r \in Req, Dequeue(r) PROVE Counted' = Counted
    BY <2>2 DEF Dequeue, EpDequeue, Giveback, Counted, OneHolder, TypeOK
  <2>3. ASSUME UNCHANGED <<inflight, wpc, wreq, cpc>> PROVE Counted' = Counted
    BY <2>3 DEF Counted
  <2>4. Counted' = Counted
    BY <1>1, <2>2, <2>3 DEF Producer, FullPeek, FlushPop, FullCopy, FullCommit, FlushRefused, FlushAdd,
       DetectArm, DetectCount, DetectStall, RateSweep, DequeueDone, ProducerExit
  <2> QED BY <2>1, <2>4, DriftFrame
<1>2. CASE UsbWorker
  <2>1. ASSUME NEW r \in Req, UsbTake(r) PROVE Drift' = Drift
    BY <2>1, DriftFrame DEF UsbTake, Counted
  <2>2. CASE UsbTrack
    BY <2>2, DriftFrame DEF UsbTrack, Counted, HandsOK, OneHolder, WorkerReq
  <2>3. CASE UsbCount
    <3>1. wreq \notin Counted /\ Counted' = Counted \cup {wreq}
      BY <2>3 DEF UsbCount, Counted, TrackedOK, HandsOK
    <3> QED BY <2>3, <3>1, DriftUp DEF UsbCount
  <2>4. CASE UsbQueue
    BY <2>4, DriftFrame DEF UsbQueue, Counted
  <2>5. CASE UsbQueueFail
    BY <2>5, DriftFrame DEF UsbQueueFail, Counted, TrackedOK, HandsOK
  <2>6. CASE UsbUncount
    <3>1. wreq \in Counted /\ Counted' = Counted \ {wreq}
      BY <2>6 DEF UsbUncount, Counted, HandsOK, OneHolder, WorkerReq, HandlerReq
    <3> QED BY <2>6, <3>1, DriftDown DEF UsbUncount
  <2>7. CASE UsbRecycle \/ UsbDiscard \/ UsbExit
    BY <2>7, DriftFrame DEF UsbRecycle, UsbDiscard, UsbExit, Counted
  <2> QED BY <1>2, <2>1, <2>2, <2>3, <2>4, <2>5, <2>6, <2>7 DEF UsbWorker
<1>3. CASE Completion
  <2>1. ASSUME NEW r \in Req, NEW status \in Status, Complete(r, status) PROVE Drift' = Drift
    BY <2>1, DriftFrame DEF Complete, Giveback, Counted, OneHolder, TypeOK
  <2>2. ASSUME NEW r \in Req, HandlerUntrack(r) PROVE Drift' = Drift
    <3>1. r \in inflight /\ ~(wpc = "tracked" /\ wreq = r)
      BY <2>2 DEF HandlerUntrack, ContextOK, TrackedOK, OneHolder, WorkerReq
    <3>2. Counted' = Counted
      BY <2>2, <3>1 DEF HandlerUntrack, Counted, TypeOK
    <3> QED BY <2>2, <3>2, DriftFrame DEF HandlerUntrack
  <2>3. ASSUME NEW r \in Req, HandlerAdopt(r) PROVE Drift' = Drift
    BY <2>3, DriftFrame DEF HandlerAdopt, HandlerReturn, Counted, TypeOK
  <2>4. ASSUME NEW r \in Req, HandlerDec(r) PROVE Drift' = Drift
    <3>1. r \in Counted /\ Counted' = Counted \ {r}
      BY <2>4 DEF HandlerDec, Counted, OneHolder, WorkerReq, HandlerReq, TypeOK
    <3> QED BY <2>4, <3>1, DriftDown DEF HandlerDec
  <2>5. ASSUME NEW r \in Req, HandlerRecycle(r) \/ HandlerFree(r) PROVE Drift' = Drift
    BY <2>5, DriftFrame DEF HandlerRecycle, HandlerFree, HandlerReturn, Counted, TypeOK
  <2> QED BY <1>3, <2>1, <2>2, <2>3, <2>4, <2>5 DEF Completion
<1>4. CASE Host
  BY <1>4, DriftFrame DEF Host, EpDisable, EpEnable, ConsumerStale, GraceExpires, Giveback, Counted, OneHolder, TypeOK
<1>5. CASE Restart
  <2>1. ASSUME NEW r \in Req, DrainOne(r) PROVE Drift' = Drift
    BY <2>1, DriftFrame DEF DrainOne, EpDequeue, Giveback, Counted, OneHolder, TypeOK
  <2>2. CASE StartWorkers
    BY <2>2, DriftFrame DEF StartWorkers, QuietOK, Counted
  <2>3. ASSUME UNCHANGED <<inflight, wpc, wreq, cpc, cnt>> PROVE Drift' = Drift
    BY <2>3, DriftFrame DEF Counted
  <2> QED
    BY <1>5, <2>1, <2>2, <2>3 DEF Restart, RestartBegin, RestartTimeout, TopupRead, TopupMint, DrainEnd, RecycleStaged
<1> QED BY <1>1, <1>2, <1>3, <1>4, <1>5 DEF Next

\* Counter and list move together on every path; only the repair sets them apart.
THEOREM CounterSettled == Spec => DriftOnlyByRepair
<1>1. IInv /\ [Next]_vars => [DetectRepair \/ Drift' = Drift]_vars
  BY DriftStep
<1> QED BY <1>1, InitInv, StepInv, PTL DEF Spec, DriftOnlyByRepair

(***************************************************************************)
(* The population.  Every step but the ship with a stale copy leaves the   *)
(* number of missing requests where it was.                                *)
(***************************************************************************)
LEMMA HeldFinite ==
  ASSUME TypeOK PROVE IsFiniteSet(Held) /\ Cardinality(Held) \in Nat
<1>1. Held \subseteq Req
  BY DEF Held, PoppedReq, WorkerReq, HandlerReq, TypeOK
<1> QED BY <1>1, ReqAssumption, FS_Subset, FS_CardinalityType

LEMMA MissingFrame == ASSUME Held' = Held, population' = population PROVE Missing' = Missing
BY DEF Missing

LEMMA MissingUp ==
  ASSUME TypeOK, NEW S \in SUBSET Req, S \cap Held = {}, Held' = Held \cup S,
         population' = population + Cardinality(S)
  PROVE  Missing' = Missing
<1>1. IsFiniteSet(S) /\ Cardinality(S) \in Nat
  BY ReqAssumption, FS_Subset, FS_CardinalityType
<1>2. Cardinality(Held') = Cardinality(Held) + Cardinality(S)
  <2>1. Cardinality(Held \cup S) = Cardinality(Held) + Cardinality(S) - Cardinality(Held \cap S)
    BY <1>1, HeldFinite, FS_Union
  <2>2. Cardinality(Held \cap S) = 0
    BY FS_EmptySet
  <2> QED BY <1>1, <2>1, <2>2, HeldFinite
<1> QED BY <1>1, <1>2, HeldFinite DEF Missing, TypeOK

LEMMA MissingDown ==
  ASSUME TypeOK, NEW r, r \in Held, Held' = Held \ {r}, population' = population - 1
  PROVE  Missing' = Missing
<1>1. Cardinality(Held') = Cardinality(Held) - 1
  BY HeldFinite, FS_RemoveElement
<1> QED BY <1>1, HeldFinite DEF Missing, TypeOK

LEMMA MissingStep ==
  IInv /\ Next => (FullCommit /\ lone /\ in # {preq}) \/ Missing' = Missing
<1> SUFFICES ASSUME IInv, Next, ~(FullCommit /\ lone /\ in # {preq}) PROVE Missing' = Missing
  OBVIOUS
<1> USE DEF IInv, lists, track, evars, pvars, wvars, cvars, svars
<1>0. ASSUME UNCHANGED <<in, inUsb, inflight, ppc, preq, wpc, wreq, cpc, population>>
      PROVE  Missing' = Missing
  BY <1>0, MissingFrame DEF Held, PoppedReq, WorkerReq, HandlerReq
<1>1. CASE Producer
  <2>1. ASSUME NEW r \in Req, FullPeek(r) \/ FlushPop(r) PROVE Missing' = Missing
    BY <2>1, MissingFrame DEF FullPeek, FlushPop, Held, PoppedReq, WorkerReq, HandlerReq
  <2>2. ASSUME NEW r \in Req, Dequeue(r) PROVE Missing' = Missing
    BY <2>2, MissingFrame DEF Dequeue, EpDequeue, Giveback, Held, PoppedReq, WorkerReq, HandlerReq, OneHolder, TypeOK
  <2>3. CASE FullCommit
    BY <2>3, MissingFrame DEF FullCommit, Held, PoppedReq, WorkerReq, HandlerReq, HandsOK
  <2>4. CASE FullCopy \/ FlushAdd
    BY <2>4, MissingFrame DEF FullCopy, FlushAdd, Held, PoppedReq, WorkerReq, HandlerReq, HandsOK
  <2>5. CASE FlushRefused \/ DetectArm
    BY <1>0, <2>5 DEF FlushRefused, DetectArm
  <2>6. CASE DetectCount \/ DetectRepair \/ DequeueDone \/ ProducerExit
    BY <2>6, MissingFrame DEF DetectCount, DetectRepair, DequeueDone, ProducerExit, Held, PoppedReq, WorkerReq, HandlerReq
  <2>7. ASSUME NEW S \in SUBSET Req, DetectStall(S) \/ RateSweep(S) PROVE Missing' = Missing
    BY <2>7, MissingFrame DEF DetectStall, RateSweep, Held, PoppedReq, WorkerReq, HandlerReq
  <2> QED BY <1>1, <2>1, <2>2, <2>3, <2>4, <2>5, <2>6, <2>7 DEF Producer
<1>2. CASE UsbWorker
  <2>1. ASSUME NEW r \in Req, UsbTake(r) PROVE Missing' = Missing
    BY <2>1, MissingFrame DEF UsbTake, Held, PoppedReq, WorkerReq, HandlerReq
  <2>2. CASE UsbTrack
    BY <2>2, MissingFrame DEF UsbTrack, Held, PoppedReq, WorkerReq, HandlerReq, HandsOK
  <2>3. CASE UsbCount \/ UsbQueue \/ UsbExit
    BY <2>3, MissingFrame DEF UsbCount, UsbQueue, UsbExit, Held, PoppedReq, WorkerReq, HandlerReq
  <2>4. CASE UsbQueueFail
    BY <2>4, MissingFrame DEF UsbQueueFail, Held, PoppedReq, WorkerReq, HandlerReq, TrackedOK, HandsOK
  <2>5. CASE UsbUncount \/ UsbRecycle
    BY <2>5, MissingFrame DEF UsbUncount, UsbRecycle, Held, PoppedReq, WorkerReq, HandlerReq, HandsOK
  <2>6. CASE UsbDiscard
    <3>1. wreq \in Held /\ Held' = Held \ {wreq}
      BY <2>6 DEF UsbDiscard, Held, PoppedReq, WorkerReq, HandlerReq, HandsOK, OneHolder
    <3> QED BY <2>6, <3>1, MissingDown DEF UsbDiscard
  <2> QED BY <1>2, <2>1, <2>2, <2>3, <2>4, <2>5, <2>6 DEF UsbWorker
<1>3. CASE Completion
  <2>1. ASSUME NEW r \in Req, NEW status \in Status, Complete(r, status) PROVE Missing' = Missing
    BY <2>1, MissingFrame DEF Complete, Giveback, Held, PoppedReq, WorkerReq, HandlerReq, OneHolder, TypeOK
  <2>2. ASSUME NEW r \in Req, HandlerUntrack(r) PROVE Missing' = Missing
    <3>1. r \in inflight
      BY <2>2 DEF HandlerUntrack, ContextOK, OneHolder, WorkerReq
    <3>2. Held' = Held
      BY <2>2, <3>1 DEF HandlerUntrack, Held, PoppedReq, WorkerReq, HandlerReq, TypeOK
    <3> QED BY <2>2, <3>2, MissingFrame DEF HandlerUntrack
  <2>3. ASSUME NEW r \in Req, HandlerAdopt(r) PROVE Missing' = Missing
    <3>1. CASE HandlerReturn(r) /\ population' = population
      BY <2>3, <3>1, MissingFrame DEF HandlerAdopt, HandlerReturn, Held, PoppedReq, WorkerReq, HandlerReq, TypeOK
    <3>2. CASE cpc' = [cpc EXCEPT ![r] = "finish"] /\ population' = population + 1
      <4>1. {r} \cap Held = {} /\ Held' = Held \cup {r}
        BY <2>3, <3>2 DEF HandlerAdopt, Held, PoppedReq, WorkerReq, HandlerReq, ContextOK, OneHolder, TypeOK
      <4>2. Cardinality({r}) = 1
        BY FS_Singleton
      <4> QED BY <3>2, <4>1, <4>2, MissingUp
    <3> QED BY <2>3, <3>1, <3>2 DEF HandlerAdopt
  <2>4. ASSUME NEW r \in Req, HandlerDec(r) \/ HandlerRecycle(r) PROVE Missing' = Missing
    BY <2>4, MissingFrame DEF HandlerDec, HandlerRecycle, HandlerReturn, Held, PoppedReq, WorkerReq, HandlerReq, TypeOK
  <2>5. ASSUME NEW r \in Req, HandlerFree(r) PROVE Missing' = Missing
    <3>1. r \in Held /\ Held' = Held \ {r}
      BY <2>5 DEF HandlerFree, HandlerReturn, Held, PoppedReq, WorkerReq, HandlerReq, OneHolder, TypeOK
    <3> QED BY <2>5, <3>1, MissingDown DEF HandlerFree
  <2> QED BY <1>3, <2>1, <2>2, <2>3, <2>4, <2>5 DEF Completion
<1>4. CASE Host
  <2>1. CASE EpDisable
    BY <2>1, MissingFrame DEF EpDisable, Giveback, Held, PoppedReq, WorkerReq, HandlerReq, OneHolder, TypeOK
  <2> QED BY <1>0, <1>4, <2>1 DEF Host, EpEnable, ConsumerStale, GraceExpires
<1>5. CASE Restart
  <2>1. CASE RestartBegin \/ RestartTimeout \/ TopupRead \/ DrainEnd
    BY <1>0, <2>1 DEF RestartBegin, RestartTimeout, TopupRead, DrainEnd
  <2>2. ASSUME NEW S \in SUBSET Req, TopupMint(S) PROVE Missing' = Missing
    <3>1. S \cap Held = {} /\ Held' = Held \cup S
      BY <2>2 DEF TopupMint, Fresh, AllocOK, Held, PoppedReq, WorkerReq, HandlerReq
    <3> QED BY <2>2, <3>1, MissingUp DEF TopupMint
  <2>3. ASSUME NEW r \in Req, DrainOne(r) PROVE Missing' = Missing
    BY <2>3, MissingFrame DEF DrainOne, EpDequeue, Giveback, Held, PoppedReq, WorkerReq, HandlerReq, OneHolder, TypeOK
  <2>4. CASE RecycleStaged
    BY <2>4, MissingFrame DEF RecycleStaged, Held, PoppedReq, WorkerReq, HandlerReq
  <2>5. CASE StartWorkers
    BY <2>5, MissingFrame DEF StartWorkers, QuietOK, Held, PoppedReq, WorkerReq, HandlerReq
  <2> QED BY <1>5, <2>1, <2>2, <2>3, <2>4, <2>5 DEF Restart
<1> QED BY <1>1, <1>2, <1>3, <1>4, <1>5 DEF Next

\* Requests are conserved on every path, failures and teardown included; only
\* the full-packet ship whose copied list pointers went stale loses any.
THEOREM PopulationSettled == Spec => LossOnlyByStaleCopy
<1>1. IInv /\ [Next]_vars => [(FullCommit /\ lone /\ in # {preq}) \/ Missing' = Missing]_vars
  BY MissingStep
<1> QED BY <1>1, InitInv, StepInv, PTL DEF Spec, LossOnlyByStaleCopy

(***************************************************************************)
(* TcpService: its inductive invariant.                                    *)
(***************************************************************************)

\* nobody has s
Unreached(s) ==
  /\ s \notin {conn, dead, hand}
  /\ \A w \in Worker : held[w] # s
  /\ \A c \in Closer : old[c] # s

Away == \A s \in Sock : st[s] \in {"new", "freed"} => Unreached(s)

\* a connection is in one place: handed over, current, detached or retired
Apart ==
  /\ conn # No => conn \notin {dead, hand, old["accept"], old["unload"]}
  /\ dead # No => dead \notin {hand, old["accept"], old["unload"]}
  /\ hand # No => hand \notin {old["accept"], old["unload"]}
  /\ old["accept"] # No => old["accept"] # old["unload"]

\* what a closer has, by where it is
ClosersOK ==
  /\ \A c \in Closer : old[c] # No <=> cstep[c] = "wait"
  /\ hand # No <=> cstep["accept"] \in {"close", "wait", "wire"}
  /\ cstep["unload"] \in {"workers", "gone"} => cstep["accept"] = "gone"
  /\ cstep["unload"] # "wire"

\* what a worker has, by where it is; the other service's workers do not run
WorkersOK ==
  /\ \A w \in Worker : wstep[w] \in {"io", "drop"} => held[w] # No
  /\ \A w \in Worker : wstep[w] = "gone" => held[w] = No
  /\ \A w \in Worker \ Serving : wstep[w] = "top" /\ held[w] = No
  /\ \A w \in Worker \ {"ingest"} : wstep[w] \notin {"drop", "free"}
  /\ wstep["ctrl"] # "io" => held["ctrl"] = No

\* dead_users counts at least the data workers that still have dead_sock, and
\* the worker on its way to free it is the last
UsersOK ==
  /\ kind = "data" /\ dead # No =>
       /\ held["ingest"] = dead \/ held["sender"] = dead => users >= 1
       /\ held["ingest"] = dead /\ held["sender"] = dead => users = 2
  /\ wstep["ingest"] = "free" => dead # No /\ users = 0

TInv == SvcTypeOK /\ Away /\ Apart /\ ClosersOK /\ WorkersOK /\ UsersOK

LEMMA SvcInitInv == SvcInit => TInv
<1> SUFFICES ASSUME SvcInit PROVE TInv
  OBVIOUS
<1> USE NoAssumption DEF SvcInit, SvcTypeOK, Worker, Closer, Serving
<1>1. SvcTypeOK
  OBVIOUS
<1>2. Away /\ Apart
  BY DEF Away, Unreached, Apart
<1>3. ClosersOK /\ WorkersOK /\ UsersOK
  BY DEF ClosersOK, WorkersOK, UsersOK
<1> QED BY <1>1, <1>2, <1>3 DEF TInv

(***************************************************************************)
(* The accept thread and the unload.                                       *)
(***************************************************************************)
LEMMA CloserInv == ASSUME TInv, NEW c \in Closer, CloserNext(c) PROVE TInv'
<1> USE NoAssumption DEF TInv, SvcTypeOK, worker, Mark, Closed
<1>1. CASE Detach(c)
  <2>1. SvcTypeOK'
    BY <1>1 DEF Detach, Closer
  <2>2. Away'
    BY <1>1 DEF Detach, Away, Apart, Unreached, Closer
  <2>3. Apart' /\ ClosersOK'
    BY <1>1 DEF Detach, Apart, ClosersOK, Closer
  <2>4. WorkersOK' /\ UsersOK'
    BY <1>1 DEF Detach, WorkersOK, UsersOK, Serving
  <2> QED BY <2>1, <2>2, <2>3, <2>4
<1>2. CASE Retire(c)
  <2>1. SvcTypeOK'
    BY <1>2 DEF Retire, Closer
  <2>2. Away'
    BY <1>2 DEF Retire, Away, Unreached, Closer
  <2>3. Apart' /\ ClosersOK'
    BY <1>2 DEF Retire, Apart, ClosersOK, Closer
  <2>4. WorkersOK' /\ UsersOK'
    BY <1>2 DEF Retire, WorkersOK, UsersOK, Serving, Patience, Worker
  <2> QED BY <2>1, <2>2, <2>3, <2>4
<1>3. CASE Wire
  <2>1. SvcTypeOK'
    BY <1>3 DEF Wire, Closer
  <2>2. Away'
    BY <1>3 DEF Wire, Away, Unreached, Closer
  <2>3. Apart' /\ ClosersOK'
    BY <1>3 DEF Wire, Apart, ClosersOK, Closer
  <2>4. WorkersOK' /\ UsersOK'
    BY <1>3 DEF Wire, WorkersOK, UsersOK, Serving
  <2> QED BY <2>1, <2>2, <2>3, <2>4
<1> QED BY <1>1, <1>2, <1>3 DEF CloserNext

LEMMA AcceptInv ==
  ASSUME TInv, (\E s \in Sock : Accept(s) \/ PeerCloses(s)) \/ AcceptEnds
  PROVE  TInv'
<1> USE NoAssumption DEF TInv, SvcTypeOK, service, worker, closer, Mark
<1>1. SvcTypeOK'
  BY DEF Accept, PeerCloses, AcceptEnds, Closer
<1>2. Away'
  BY DEF Accept, PeerCloses, AcceptEnds, Away, Unreached, Closer
<1>3. Apart' /\ ClosersOK'
  BY DEF Accept, PeerCloses, AcceptEnds, Apart, ClosersOK, Away, Unreached, Closer
<1>4. WorkersOK' /\ UsersOK'
  BY DEF Accept, PeerCloses, AcceptEnds, WorkersOK, UsersOK, Serving
<1> QED BY <1>1, <1>2, <1>3, <1>4

LEMMA UnloadInv ==
  ASSUME TInv, Destroy \/ StopAccept \/ StopWorkers
  PROVE  TInv'
<1> USE NoAssumption DEF TInv, SvcTypeOK, service, worker, Mark
<1>1. SvcTypeOK'
  <2>1. CASE StopWorkers
    BY <2>1 DEF StopWorkers, Closer
  <2>2. CASE Destroy \/ StopAccept
    BY <2>2, ZenonT(60) DEF Destroy, StopAccept, Closer
  <2> QED BY <2>1, <2>2
<1>2. Away'
  <2>1. CASE StopWorkers
    BY <2>1 DEF StopWorkers, Away, Apart, Unreached, ClosersOK, WorkersOK, Serving, Worker, Closer
  <2>2. CASE Destroy \/ StopAccept
    BY <2>2 DEF Destroy, StopAccept, Away, Unreached
  <2> QED BY <2>1, <2>2
<1>3. Apart' /\ ClosersOK'
  BY DEF Destroy, StopAccept, StopWorkers, Apart, ClosersOK, Closer
<1>4. WorkersOK' /\ UsersOK'
  <2>1. CASE StopWorkers
    BY <2>1 DEF StopWorkers, WorkersOK, UsersOK, Serving, Worker
  <2>2. CASE Destroy \/ StopAccept
    BY <2>2 DEF Destroy, StopAccept, WorkersOK, UsersOK, Serving
  <2> QED BY <2>1, <2>2
<1> QED BY <1>1, <1>2, <1>3, <1>4

(***************************************************************************)
(* The workers.                                                            *)
(***************************************************************************)
LEMMA CtrlInv == ASSUME TInv, CtrlTake \/ CtrlCommand \/ CtrlLost PROVE TInv'
<1> USE NoAssumption DEF TInv, SvcTypeOK, service, closer, Mark, At, To, Holds, Worker, Serving
<1>1. SvcTypeOK'
  BY DEF CtrlTake, CtrlCommand, CtrlLost
<1>2. Away'
  <2>1. CASE CtrlTake
    BY <2>1 DEF CtrlTake, Away, Apart, Unreached, WorkersOK, Closer
  <2>2. CASE CtrlCommand
    BY <2>2 DEF CtrlCommand, Away, Unreached
  <2>3. CASE CtrlLost
    BY <2>3 DEF CtrlLost, Away, Apart, Unreached, WorkersOK, Closer
  <2> QED BY <2>1, <2>2, <2>3
<1>3. Apart' /\ ClosersOK'
  BY DEF CtrlTake, CtrlCommand, CtrlLost, Apart, ClosersOK
<1>4. WorkersOK' /\ UsersOK'
  BY DEF CtrlTake, CtrlCommand, CtrlLost, WorkersOK, UsersOK
<1> QED BY <1>1, <1>2, <1>3, <1>4

\* The data workers let go of the retired connection.
LEMMA TrackInv == ASSUME TInv, NEW w \in Worker, Track(w) PROVE TInv'
<1> USE NoAssumption DEF TInv, SvcTypeOK, closer, Mark, At, To, Holds, Worker, Serving, Track, LetGo
<1>1. SvcTypeOK'
  BY DEF UsersOK, WorkersOK
<1>2. Away'
  BY DEF Away, Apart, Unreached, UsersOK, WorkersOK, Closer
<1>3. Apart' /\ ClosersOK'
  BY DEF Apart, ClosersOK
<1>4. WorkersOK'
  BY DEF WorkersOK
<1>5. UsersOK'
  BY DEF UsersOK, Apart, WorkersOK
<1> QED BY <1>1, <1>2, <1>3, <1>4, <1>5

LEMMA IngestInv ==
  ASSUME TInv, Ingest \/ IngestEnd \/ IngestDrop \/ IngestFree
  PROVE  TInv'
<1> USE NoAssumption DEF TInv, SvcTypeOK, service, closer, Mark, At, To, Holds, Worker, Serving
<1>1. CASE Ingest
  <2>1. SvcTypeOK'
    BY <1>1 DEF Ingest
  <2>2. Away' /\ Apart' /\ ClosersOK' /\ WorkersOK' /\ UsersOK'
    BY <1>1 DEF Ingest, Away, Unreached, Apart, ClosersOK, WorkersOK, UsersOK
  <2> QED BY <2>1, <2>2
<1>2. CASE IngestEnd
  <2>1. SvcTypeOK'
    BY <1>2 DEF IngestEnd
  <2>2. Away' /\ Apart' /\ ClosersOK'
    BY <1>2 DEF IngestEnd, Away, Unreached, Apart, ClosersOK
  <2>3. WorkersOK' /\ UsersOK'
    BY <1>2 DEF IngestEnd, WorkersOK, UsersOK
  <2> QED BY <2>1, <2>2, <2>3
<1>3. CASE IngestDrop
  <2>1. SvcTypeOK'
    BY <1>3 DEF IngestDrop, UsersOK, WorkersOK
  <2>2. Away' /\ Apart' /\ ClosersOK'
    BY <1>3 DEF IngestDrop, Away, Unreached, Apart, ClosersOK
  <2>3. WorkersOK' /\ UsersOK'
    BY <1>3 DEF IngestDrop, WorkersOK, UsersOK
  <2> QED BY <2>1, <2>2, <2>3
<1>4. CASE IngestFree
  <2>1. SvcTypeOK'
    BY <1>4 DEF IngestFree
  <2>2. Away' /\ Apart' /\ ClosersOK'
    BY <1>4 DEF IngestFree, Away, Unreached, Apart, ClosersOK, WorkersOK, UsersOK, Closer
  <2>3. WorkersOK' /\ UsersOK'
    BY <1>4 DEF IngestFree, WorkersOK, UsersOK
  <2> QED BY <2>1, <2>2, <2>3
<1> QED BY <1>1, <1>2, <1>3, <1>4

\* A worker's turn begins and ends, the sender sends: nothing changes hands
\* but what a worker that returns still had.
LEMMA TurnInv ==
  ASSUME TInv, NEW w \in Worker, Loop(w) \/ Exit(w) \/ SendBatch
  PROVE  TInv'
<1> USE NoAssumption DEF TInv, SvcTypeOK, service, closer, At, To, Holds, Worker, Serving, Loop,
        Exit, SendBatch
<1>1. SvcTypeOK'
  OBVIOUS
<1>2. Away' /\ Apart' /\ ClosersOK'
  BY DEF Away, Unreached, Apart, ClosersOK
<1>3. WorkersOK' /\ UsersOK'
  BY DEF WorkersOK, UsersOK
<1> QED BY <1>1, <1>2, <1>3

LEMMA SvcStepInv == TInv /\ [SvcNext]_svcvars => TInv'
<1> SUFFICES ASSUME TInv, [SvcNext]_svcvars PROVE TInv'
  OBVIOUS
<1>1. CASE UNCHANGED svcvars
  BY <1>1 DEF svcvars, service, worker, closer, TInv, SvcTypeOK, Away, Unreached, Apart, ClosersOK,
     WorkersOK, UsersOK, Serving
<1>2. CASE (\E s \in Sock : Accept(s) \/ PeerCloses(s)) \/ AcceptEnds
  BY <1>2, AcceptInv
<1>3. CASE \E c \in Closer : CloserNext(c)
  BY <1>3, CloserInv
<1>4. CASE Destroy \/ StopAccept \/ StopWorkers
  BY <1>4, UnloadInv
<1>5. ASSUME NEW w \in Worker, WorkerNext(w) PROVE TInv'
  BY <1>5, CtrlInv, TrackInv, IngestInv, TurnInv DEF WorkerNext
<1>6. CASE CtrlCommand
  BY <1>6, CtrlInv
<1> QED BY <1>1, <1>2, <1>3, <1>4, <1>5, <1>6 DEF SvcNext

LEMMA Invariant == SvcSpec => []TInv
BY SvcInitInv, SvcStepInv, PTL DEF SvcSpec

\* Type correctness of the service; dead_users stays between 0 and 2.
THEOREM ServiceTypes == SvcSpec => []SvcTypeOK
<1>1. TInv => SvcTypeOK
  BY DEF TInv
<1> QED BY <1>1, Invariant, PTL

\* NothingFreed, for any number of connections: whoever retires, replaces and
\* reaps them, no thread has a socket that was freed, and none is freed twice.
THEOREM NoUseAfterFree == SvcSpec => []NothingFreed
<1>1. TInv => NothingFreed
  BY DEF TInv, SvcTypeOK, Away, Unreached, NothingFreed, Serving, Worker
<1> QED BY <1>1, Invariant, PTL

=============================================================================
