-------------------------- MODULE ControlPlaneProofs --------------------------
(***************************************************************************)
(* Proofs about the control plane.  Session: the stream state is the lock  *)
(* holder's alone while it is reset, and the session layer implements      *)
(* SessionService.  Control, which runs over SessionService: an answer is  *)
(* about the list that was applied, and an accepted rate can be served,    *)
(* for every rate.                                                         *)
(***************************************************************************)
EXTENDS Control, Session, WellFoundedInduction, TLAPS

(***************************************************************************)
(* The inductive invariant of Session.                                     *)
(***************************************************************************)
Holding == {"stop", "wait", "board", "io", "probe", "bump", "relatch", "start", "out"}
Alone   == {"board", "io", "probe", "bump", "relatch", "start"}

\* only the holder of the lock is between its lock and its unlock
HolderOK == \A j \in Job : pc[j] \in Holding => lock = j

\* there the workers are gone from the end of stop_sm to their start
AloneOK == \A j \in Job : pc[j] \in Alone => alive = {}

\* restarts neither drain nor reset the chip, resets neither reset the boards
\* nor latch, and a kernel swap does not bump the generation
PathOK ==
  /\ \A j \in Restart : pc[j] \notin {"drain", "probe", "bump", "relatch", "out"}
  /\ \A j \in Reset : pc[j] \notin {"board", "latch"}
  /\ kind = "swap" => pc["apply"] \notin {"bump", "relatch"}

\* a job has no result before it has failed, and the next one starts afresh
RetOK ==
  /\ \A j \in Job : pc[j] \in {"drain", "lock", "stop", "wait", "board", "io", "probe",
                               "bump", "relatch", "latch"} => ret[j]
  /\ \A j \in Job : pc[j] = "start" /\ (j \in Restart \/ IsReset(j)) => ret[j]
  /\ \A j \in Job \ {"hard"} : pc[j] = "idle" => ret[j]

SInv == STypeOK /\ HolderOK /\ AloneOK /\ PathOK /\ RetOK

LEMMA SessionInit == SInit => SInv
<1> SUFFICES ASSUME SInit PROVE SInv
  OBVIOUS
<1> USE DEF SInit, Pc, Job, Restart, Reset
<1>1. STypeOK
  BY DEF STypeOK
<1>2. HolderOK /\ AloneOK
  BY DEF HolderOK, AloneOK, Holding, Alone
<1>3. PathOK /\ RetOK
  BY DEF PathOK, RetOK
<1> QED BY <1>1, <1>2, <1>3 DEF SInv

(***************************************************************************)
(* Requests, and the ends of jobs: nothing is locked or unlocked.          *)
(***************************************************************************)
LEMMA RequestInv ==
  ASSUME SInv, ScheduleRestart \/ CallRestart \/ ScheduleHardReset
               \/ \E k \in {"reset", "swap"} : CallReset(k)
  PROVE  SInv'
<1> USE DEF SInv, Goto, Finish
<1>1. STypeOK'
  BY DEF STypeOK, ScheduleRestart, CallRestart, ScheduleHardReset, CallReset,
         Pc, Job, Restart, Reset
<1>2. HolderOK' /\ AloneOK'
  BY DEF STypeOK, HolderOK, AloneOK, Holding, Alone, ScheduleRestart, CallRestart,
         ScheduleHardReset, CallReset
<1>3. PathOK' /\ RetOK'
  BY DEF STypeOK, PathOK, RetOK, ScheduleRestart, CallRestart, ScheduleHardReset, CallReset,
         RestartRunning, HardResetRunning, IsReset, Job, Restart, Reset
<1> QED BY <1>1, <1>2, <1>3

LEMMA EndInv ==
  ASSUME SInv, WorkEnds \/ HardEnds \/ \E j \in Job : CallEnds(j)
  PROVE  SInv'
<1> USE DEF SInv, Goto, Finish, WorkEnds, HardEnds, CallEnds
<1>1. STypeOK'
  BY DEF STypeOK, Pc, Job, Restart, Reset
<1>2. HolderOK' /\ AloneOK'
  BY DEF STypeOK, HolderOK, AloneOK, Holding, Alone
<1>3. PathOK' /\ RetOK'
  BY DEF STypeOK, PathOK, RetOK, IsReset, Job, Restart, Reset
<1> QED BY <1>1, <1>2, <1>3

\* What happens around the jobs leaves every job where it is; workers only go.
LEMMA WorldInv ==
  ASSUME SInv, (\E w \in Worker : WorkerExit(w) \/ Fault(w)) \/ SamplerBump
  PROVE  SInv'
BY DEF SInv, STypeOK, HolderOK, AloneOK, PathOK, RetOK, IsReset, WorkerExit, Fault, SamplerBump

(***************************************************************************)
(* The steps of a job.                                                     *)
(***************************************************************************)
LEMMA SessionJob == ASSUME SInv, NEW j \in Job, JobStep(j) PROVE SInv'
<1> USE DEF SInv, Goto, Finish
<1>1. STypeOK'
  BY DEF STypeOK, JobStep, Drain, Lock, Stop, Wait, Timeout, Board, ResetIo, Reprobe, Swap,
         Bump, Relatch, Start, Latch, Out, Stopped, Pc
<1>2. HolderOK'
  <2>1. CASE Lock(j)
    BY <2>1, NoJobAssumption DEF Lock, HolderOK, Holding, STypeOK
  <2>2. CASE JobStep(j) /\ ~Lock(j)
    BY <2>2, NoJobAssumption DEF STypeOK, HolderOK, Holding, JobStep, Drain, Stop, Wait, Timeout,
       Board, ResetIo, Reprobe, Swap, Bump, Relatch, Start, Latch, Out, Stopped
  <2> QED BY <2>1, <2>2
<1>3. AloneOK'
  <2>1. CASE Start(j)
    BY <2>1 DEF Start, AloneOK, HolderOK, Holding, Alone, STypeOK
  <2>2. CASE JobStep(j) /\ ~Start(j)
    BY <2>2 DEF STypeOK, AloneOK, Alone, JobStep, Drain, Lock, Stop, Wait, Timeout,
       Board, ResetIo, Reprobe, Swap, Bump, Relatch, Latch, Out, Stopped
  <2> QED BY <2>1, <2>2
<1>4. PathOK'
  BY DEF STypeOK, PathOK, JobStep, Drain, Lock, Stop, Wait, Timeout, Board, ResetIo, Reprobe,
         Swap, Bump, Relatch, Start, Latch, Out, Stopped, IsReset, Job, Restart, Reset
<1>5. RetOK'
  BY DEF STypeOK, PathOK, RetOK, JobStep, Drain, Lock, Stop, Wait, Timeout, Board, ResetIo, Reprobe,
         Swap, Bump, Relatch, Start, Latch, Out, Stopped, IsReset, Job, Restart, Reset
<1> QED BY <1>1, <1>2, <1>3, <1>4, <1>5

LEMMA SessionStep == SInv /\ [SNext]_svars => SInv'
<1> SUFFICES ASSUME SInv, [SNext]_svars PROVE SInv'
  OBVIOUS
<1>1. CASE UNCHANGED svars
  BY <1>1 DEF svars, SInv, STypeOK, HolderOK, AloneOK, PathOK, RetOK, IsReset
<1>2. CASE ScheduleRestart \/ CallRestart \/ ScheduleHardReset
           \/ \E k \in {"reset", "swap"} : CallReset(k)
  BY <1>2, RequestInv
<1>3. CASE WorkEnds \/ HardEnds \/ \E j \in Job : CallEnds(j)
  BY <1>3, EndInv
<1>4. CASE (\E w \in Worker : WorkerExit(w) \/ Fault(w)) \/ SamplerBump
  BY <1>4, WorldInv
<1>5. CASE \E j \in Job : JobStep(j)
  BY <1>5, SessionJob
<1> QED BY <1>1, <1>2, <1>3, <1>4, <1>5 DEF SNext, Around

LEMMA SessionInvariant == SSpec => []SInv
BY SessionInit, SessionStep, PTL DEF SSpec

\* Type correctness of the session layer.
THEOREM SessionTypes == SSpec => []STypeOK
<1>1. SInv => STypeOK
  BY DEF SInv
<1> QED BY <1>1, SessionInvariant, PTL

\* ResetAlone, for any set of workers: whoever resets the staging, the queues
\* or the chip holds the lock and no worker runs, whatever timed out before.
THEOREM ResetsRunAlone == SSpec => []ResetAlone
<1>1. SInv => ResetAlone
  BY DEF SInv, ResetAlone, HolderOK, AloneOK, Holding, Alone
<1> QED BY <1>1, SessionInvariant, PTL

-----------------------------------------------------------------------------
(***************************************************************************)
(* Session implements SessionService: each step of a job is a step of the  *)
(* abstract job or leaves it alone.                                        *)
(***************************************************************************)
Res(j) == pc[j] = "idle" \/ ret[j]

\* The other jobs keep their phase and result; kind is read for "apply" only.
Others(j) ==
  /\ \A k \in Job \ {j} : pc'[k] = pc[k] /\ ret'[k] = ret[k]
  /\ kind' = kind \/ j = "apply"

LEMMA OthersStay ==
  ASSUME NEW j, Others(j), NEW k \in Job \ {j}
  PROVE  Phase(k)' = Phase(k) /\ Res(k)' = Res(k)
BY DEF Others, Phase, Asked, Committed, IsReset, Res, Job, Restart, Reset

\* One job changes its phase.
LEMMA Becoming ==
  ASSUME NEW j \in Job, Others(j), NEW s, NEW r, Phase(j)' = s, Res(j)' = r
  PROVE  Service!Becomes(j, s, r)
<1>1. \A k \in Job \ {j} : Phase(k)' = Phase(k) /\ Res(k)' = Res(k)
  BY OthersStay
<1>2. [k \in Job |-> Phase(k)]' = [[k \in Job |-> Phase(k)] EXCEPT ![j] = s]
  BY <1>1
<1>3. [k \in Job |-> Res(k)]' = [[k \in Job |-> Res(k)] EXCEPT ![j] = r]
  BY <1>1
<1> QED BY <1>2, <1>3 DEF Service!Becomes, Res

\* The job stays in its phase.
LEMMA Staying ==
  ASSUME NEW j \in Job, Others(j), Phase(j)' = Phase(j), Res(j)' = Res(j)
  PROVE  /\ [k \in Job |-> Phase(k)]' = [k \in Job |-> Phase(k)]
         /\ [k \in Job |-> pc[k] = "idle" \/ ret[k]]' = [k \in Job |-> pc[k] = "idle" \/ ret[k]]
<1>1. \A k \in Job : Phase(k)' = Phase(k) /\ Res(k)' = Res(k)
  BY OthersStay
<1> QED BY <1>1 DEF Res

LEMMA StartsIdle == SInit => Service!SSInit
BY DEF SInit, Service!SSInit, Phase, SessionOk, Service!Jobs, Job, Restart, Reset,
       Service!Restarts, Service!Resets

\* The steps of job j that SessionService allows, from the phase o to s with
\* the result r; the end of a restart is apart, it accepts the session too.
Moves(j, o, s, r) ==
  \/ o = "idle" /\ s = "asked" /\ r = TRUE
  \/ o = "asked" /\ s = "committed" /\ r = TRUE
  \/ o = "asked" /\ s = "committed" /\ r = FALSE /\ j = "apply"
  \/ o = "asked" /\ s = "done" /\ r = FALSE
  \/ o = "committed" /\ s = "done" /\ r = Res(j) /\ j \in Reset
  \/ o = "done" /\ s = "idle" /\ r = TRUE

LEMMA JobMoves ==
  ASSUME NEW j \in Job, Others(j), UNCHANGED <<fresh, dead>>,
         NEW o, NEW s, NEW r \in BOOLEAN,
         Phase(j) = o, Phase(j)' = s, Res(j)' = r, Res(j) \in BOOLEAN,
         Moves(j, o, s, r)
  PROVE  Service!SSNext
<1>1. Service!Becomes(j, s, r)
  BY Becoming
<1>2. [k \in Job |-> Phase(k)][j] = o
  OBVIOUS
<1>3. [k \in Job |-> pc[k] = "idle" \/ ret[k]][j] = Res(j)
  BY DEF Res
<1>4. SessionOk' = SessionOk /\ SessionOk \in BOOLEAN
  BY DEF SessionOk
<1>5. j \in Service!Jobs /\ (j \in Reset => j \notin Service!Restarts)
  BY DEF Job, Restart, Reset, Service!Jobs, Service!Restarts, Service!Resets
<1>6. CASE o = "idle" /\ s = "asked" /\ r = TRUE
  <2>1. Service!Ask(j)
    BY <1>1, <1>2, <1>4, <1>6 DEF Service!Ask
  <2> QED BY <2>1, <1>5 DEF Service!SSNext
<1>7. CASE o = "asked" /\ s = "committed" /\ r = TRUE
  <2>1. Service!Commit(j)
    BY <1>1, <1>2, <1>4, <1>7 DEF Service!Commit
  <2> QED BY <2>1, <1>5 DEF Service!SSNext
<1>8. CASE o = "asked" /\ s = "committed" /\ r = FALSE /\ j = "apply"
  <2>1. Service!CommitBadly
    BY <1>1, <1>2, <1>4, <1>8 DEF Service!CommitBadly
  <2> QED BY <2>1 DEF Service!SSNext
<1>9. CASE o = "asked" /\ s = "done" /\ r = FALSE
  <2>1. Service!Abort(j)
    BY <1>1, <1>2, <1>4, <1>9 DEF Service!Abort
  <2> QED BY <2>1, <1>5 DEF Service!SSNext
<1>10. CASE o = "committed" /\ s = "done" /\ r = Res(j) /\ j \in Reset
  <2>1. r = [k \in Job |-> pc[k] = "idle" \/ ret[k]][j] /\ s = "done"
    BY <1>3, <1>10
  <2>2. Service!Becomes(j, "done", [k \in Job |-> pc[k] = "idle" \/ ret[k]][j])
    BY <2>1, <1>1 DEF Service!Becomes
  <2>3. SessionOk' = (SessionOk \/ j \in Service!Restarts)
    BY <1>4, <1>5, <1>10
  <2>4. Service!Done(j)
    BY <2>2, <2>3, <1>2, <1>10 DEF Service!Done, Service!Becomes
  <2> QED BY <2>4, <1>5 DEF Service!SSNext
<1>11. CASE o = "done" /\ s = "idle" /\ r = TRUE
  <2>1. Service!Take(j)
    BY <1>1, <1>2, <1>4, <1>11 DEF Service!Take
  <2> QED BY <2>1, <1>5 DEF Service!SSNext
<1> QED BY <1>6, <1>7, <1>8, <1>9, <1>10, <1>11 DEF Moves

\* A step that leaves its job's phase and result, and the session, alone.
LEMMA JobStays ==
  ASSUME NEW j \in Job, Others(j), Phase(j)' = Phase(j), Res(j)' = Res(j),
         UNCHANGED <<fresh, dead>>
  PROVE  UNCHANGED Service!ssvars
<1>1. SessionOk' = SessionOk
  BY DEF SessionOk
<1> QED BY <1>1, Staying DEF Service!ssvars

LEMMA JobOthers ==
  ASSUME SInv, NEW j \in Job, JobStep(j)
  PROVE  Others(j)
BY DEF SInv, STypeOK, Others, JobStep, Drain, Lock, Stop, Wait, Timeout, Board, ResetIo, Reprobe,
       Swap, Bump, Relatch, Start, Latch, Out, Goto, Finish

\* Waiting for the lock and the workers, and resetting the stream state: the
\* control plane sees nothing of it.
LEMMA QuietSteps ==
  ASSUME SInv, NEW j \in Job, Drain(j) \/ Lock(j) \/ Stop(j) \/ Wait(j) \/ ResetIo(j) \/ Start(j)
  PROVE  UNCHANGED Service!ssvars
<1>1. Others(j)
  BY JobOthers DEF JobStep
<1>2. UNCHANGED <<fresh, dead>>
  BY DEF Drain, Lock, Stop, Wait, ResetIo, Start
<1>3. Phase(j)' = Phase(j)
  BY DEF SInv, STypeOK, PathOK, RetOK, Drain, Lock, Stop, Wait, ResetIo, Start, Goto, Stopped,
     Phase, Asked, Committed, IsReset, Job, Restart, Reset
<1>4. Res(j)' = Res(j)
  BY DEF SInv, STypeOK, RetOK, Drain, Lock, Stop, Wait, ResetIo, Start, Goto, Stopped, Res
<1> QED BY <1>1, <1>2, <1>3, <1>4, JobStays

\* The board reset commits a restart, a kernel swap or the new chip a reset; a
\* time-out or a lost chip ends the job, but a swap starts the workers anyway.
LEMMA MovingSteps ==
  ASSUME SInv, NEW j \in Job,
         Timeout(j) \/ Board(j) \/ Reprobe(j) \/ Swap(j) \/ Out(j)
  PROVE  Service!SSNext \/ UNCHANGED Service!ssvars
<1>1. Others(j) /\ UNCHANGED <<fresh, dead>>
  BY JobOthers DEF JobStep, Timeout, Board, Reprobe, Swap, Out
<1>2. Res(j) \in BOOLEAN /\ Res(j)' \in BOOLEAN
  BY DEF SInv, STypeOK, Timeout, Board, Reprobe, Swap, Out, Goto, Finish, Res
<1>3. ASSUME NEW s, NEW r \in BOOLEAN, s = Phase(j)', r = Res(j)', Moves(j, Phase(j), s, r)
      PROVE  Service!SSNext
  BY <1>1, <1>2, <1>3, JobMoves
<1> USE DEF SInv, STypeOK, PathOK, RetOK, Goto, Finish, Phase, Asked, Committed, IsReset, Res,
        Moves, Job, Restart, Reset
<1>4. CASE Timeout(j)
  <2>1. Phase(j) = "asked" /\ Phase(j)' \in {"committed", "done"} /\ Res(j)' = FALSE
        /\ (Phase(j)' = "committed" => j = "apply")
    BY <1>4 DEF Timeout
  <2> QED BY <2>1, <1>3
<1>5. CASE Board(j)
  <2>1. Phase(j) = "asked" /\ Phase(j)' = "committed" /\ Res(j)' = TRUE
    BY <1>5 DEF Board
  <2> QED BY <2>1, <1>3
<1>6. CASE Reprobe(j)
  <2>1. Phase(j) = "asked" /\ \/ Phase(j)' = "committed" /\ Res(j)' = TRUE
                              \/ Phase(j)' = "done" /\ Res(j)' = FALSE
    BY <1>6 DEF Reprobe
  <2> QED BY <2>1, <1>3
<1>7. CASE Swap(j)
  <2>1. Phase(j) = "asked" /\ Phase(j)' = "committed" /\ j = "apply"
    BY <1>7 DEF Swap
  <2> QED BY <2>1, <1>2, <1>3
<1>8. CASE Out(j)
  <2>1. Phase(j)' = "done" /\ Res(j)' = Res(j) /\ j \in Reset
        /\ Phase(j) \in {"committed", "done"}
    BY <1>8 DEF Out
  <2>2. CASE Phase(j) = "committed"
    BY <2>1, <2>2, <1>2, <1>3
  <2>3. CASE Phase(j) = "done"
    BY <2>1, <2>3, <1>1, JobStays
  <2> QED BY <2>1, <2>2, <2>3
<1> QED BY <1>4, <1>5, <1>6, <1>7, <1>8

LEMMA RequestMoves ==
  ASSUME SInv, ScheduleRestart \/ CallRestart \/ ScheduleHardReset
               \/ \E k \in {"reset", "swap"} : CallReset(k)
  PROVE  Service!SSNext
<1> USE DEF SInv, STypeOK, RetOK, RestartRunning, HardResetRunning, Goto, Finish, Others, Phase,
        Asked, Committed, IsReset, Res, Moves, Job, Restart, Reset
<1>1. ASSUME NEW j \in Job, Others(j), UNCHANGED <<fresh, dead>>, Res(j) \in BOOLEAN,
             NEW s, NEW r \in BOOLEAN, s = Phase(j)', r = Res(j)', Moves(j, Phase(j), s, r)
      PROVE  Service!SSNext
  BY <1>1, JobMoves
<1>2. CASE ScheduleRestart
  <2>1. Others("work") /\ Phase("work") = "idle" /\ Phase("work")' = "asked" /\ Res("work")' = TRUE
    BY <1>2 DEF ScheduleRestart
  <2> QED BY <2>1, <1>1, <1>2 DEF ScheduleRestart
<1>3. CASE CallRestart
  <2>1. Others("call") /\ Phase("call") = "idle" /\ Phase("call")' = "asked" /\ Res("call")' = TRUE
    BY <1>3 DEF CallRestart
  <2> QED BY <2>1, <1>1, <1>3 DEF CallRestart
<1>4. CASE ScheduleHardReset
  <2>1. Others("hard") /\ Phase("hard") = "idle" /\ Phase("hard")' = "asked" /\ Res("hard")' = TRUE
    BY <1>4 DEF ScheduleHardReset
  <2> QED BY <2>1, <1>1, <1>4 DEF ScheduleHardReset
<1>5. ASSUME NEW k \in {"reset", "swap"}, CallReset(k) PROVE Service!SSNext
  <2>1. Others("apply") /\ Phase("apply") = "idle" /\ Phase("apply")' = "asked" /\ Res("apply")' = TRUE
    BY <1>5 DEF CallReset
  <2> QED BY <2>1, <1>1, <1>5 DEF CallReset
<1> QED BY <1>2, <1>3, <1>4, <1>5

LEMMA EndMoves ==
  ASSUME SInv, WorkEnds \/ HardEnds \/ \E j \in Job : CallEnds(j)
  PROVE  Service!SSNext
<1> USE DEF SInv, STypeOK, Goto, Finish, Others, Phase, Asked, Committed, Res, Moves,
        Job, Restart, Reset
<1>1. PICK j \in Job : /\ pc[j] = "end" /\ pc' = [pc EXCEPT ![j] = "idle"]
                       /\ \A k \in Job \ {j} : ret'[k] = ret[k]
                       /\ UNCHANGED <<kind, fresh, dead>>
  BY DEF WorkEnds, HardEnds, CallEnds
<1>2. Others(j) /\ Phase(j) = "done" /\ Phase(j)' = "idle" /\ Res(j)' = TRUE /\ Res(j) \in BOOLEAN
  BY <1>1
<1> QED BY <1>1, <1>2, JobMoves

\* The generation bump of a reset voids the session, its relatch carries the
\* session over, and the end of a restart accepts the new one.
LEMMA GenerationMoves ==
  ASSUME SInv, NEW j \in Job, Bump(j) \/ Relatch(j) \/ Latch(j)
  PROVE  Service!SSNext \/ UNCHANGED Service!ssvars
<1> USE DEF SInv, STypeOK, PathOK, RetOK, Goto, Phase, Asked, Committed, Res, Job, Restart, Reset
<1>1. Others(j)
  BY JobOthers DEF JobStep
<1>2. CASE Bump(j) \/ Relatch(j)
  <2>1. Phase(j) = "committed" /\ Phase(j)' = Phase(j) /\ Res(j)' = Res(j) /\ j \in Reset
    BY <1>2 DEF Bump, Relatch
  <2>2. /\ [k \in Job |-> Phase(k)]' = [k \in Job |-> Phase(k)]
        /\ [k \in Job |-> pc[k] = "idle" \/ ret[k]]' = [k \in Job |-> pc[k] = "idle" \/ ret[k]]
    BY <1>1, <2>1, Staying
  <2>3. [k \in Job |-> Phase(k)][j] = "committed" /\ j \in Service!Jobs /\ j \in Service!Resets
    BY <2>1 DEF Service!Jobs, Service!Restarts, Service!Resets
  <2>4. Service!Lapse \/ UNCHANGED Service!ssvars \/ Service!CarryOver(j)
    <3>1. SessionOk \in BOOLEAN /\ SessionOk' \in BOOLEAN
      BY DEF SessionOk
    <3>2. CASE SessionOk' = SessionOk
      BY <3>2, <2>2 DEF Service!ssvars
    <3>3. CASE SessionOk /\ SessionOk' = FALSE
      BY <3>3, <2>2 DEF Service!Lapse
    <3>4. CASE SessionOk' = TRUE
      BY <3>4, <2>2, <2>3 DEF Service!CarryOver
    <3> QED BY <3>1, <3>2, <3>3, <3>4
  <2> QED BY <2>3, <2>4 DEF Service!SSNext
<1>3. CASE Latch(j)
  <2>1. j \in Restart /\ Phase(j) = "committed" /\ Phase(j)' = "done" /\ Res(j)' = Res(j)
    BY <1>3 DEF Latch
  <2>2. PICK r \in BOOLEAN : r = Res(j)
    OBVIOUS
  <2>3. Service!Becomes(j, "done", r)
    BY <1>1, <2>1, <2>2, Becoming
  <2>4. [k \in Job |-> Phase(k)][j] = "committed"
        /\ [k \in Job |-> pc[k] = "idle" \/ ret[k]][j] = Res(j)
    BY <2>1
  <2>5. SessionOk' = (SessionOk \/ j \in Service!Restarts) /\ j \in Service!Jobs
    BY <1>3, <2>1 DEF Latch, SessionOk, Service!Jobs, Service!Restarts, Service!Resets
  <2>6. Service!Done(j)
    BY <2>2, <2>3, <2>4, <2>5 DEF Service!Done, Service!Becomes
  <2> QED BY <2>5, <2>6 DEF Service!SSNext
<1> QED BY <1>2, <1>3

\* Workers that leave show nothing; a fault or a chip restart lapses a session.
LEMMA WorldMoves ==
  ASSUME SInv, (\E w \in Worker : WorkerExit(w) \/ Fault(w)) \/ SamplerBump
  PROVE  Service!SSNext \/ UNCHANGED Service!ssvars
<1>1. UNCHANGED <<pc, ret, kind>>
  BY DEF WorkerExit, Fault, SamplerBump
<1>2. /\ [k \in Job |-> Phase(k)]' = [k \in Job |-> Phase(k)]
      /\ [k \in Job |-> pc[k] = "idle" \/ ret[k]]' = [k \in Job |-> pc[k] = "idle" \/ ret[k]]
  BY <1>1 DEF Phase, Asked, Committed, IsReset
<1>3. SessionOk' = SessionOk \/ (SessionOk /\ SessionOk' = FALSE)
  BY DEF WorkerExit, Fault, SamplerBump, SessionOk, SInv, STypeOK
<1>4. CASE SessionOk' = SessionOk
  BY <1>2, <1>4 DEF Service!ssvars
<1>5. CASE SessionOk /\ SessionOk' = FALSE
  BY <1>2, <1>5 DEF Service!Lapse, Service!SSNext
<1> QED BY <1>3, <1>4, <1>5

LEMMA StepMoves == SInv /\ [SNext]_svars => [Service!SSNext]_(Service!ssvars)
<1> SUFFICES ASSUME SInv, [SNext]_svars
             PROVE  Service!SSNext \/ UNCHANGED Service!ssvars
  OBVIOUS
<1>1. CASE UNCHANGED svars
  BY <1>1 DEF svars, Service!ssvars, Phase, Asked, Committed, IsReset, SessionOk
<1>2. CASE ScheduleRestart \/ CallRestart \/ ScheduleHardReset
           \/ \E k \in {"reset", "swap"} : CallReset(k)
  BY <1>2, RequestMoves
<1>3. CASE WorkEnds \/ HardEnds \/ \E j \in Job : CallEnds(j)
  BY <1>3, EndMoves
<1>4. CASE (\E w \in Worker : WorkerExit(w) \/ Fault(w)) \/ SamplerBump
  BY <1>4, WorldMoves
<1>5. ASSUME NEW j \in Job, JobStep(j) PROVE Service!SSNext \/ UNCHANGED Service!ssvars
  BY <1>5, QuietSteps, MovingSteps, GenerationMoves DEF JobStep
<1> QED BY <1>1, <1>2, <1>3, <1>4, <1>5 DEF SNext, Around

\* Session implements SessionService: whatever locks, workers, time-outs and
\* chip resets do, the control plane sees a request that commits or fails and
\* a session that only a completed restart or a commanded reset revives.
THEOREM SessionImplementsService == SSpec => ServiceSpec
BY StartsIdle, SessionInvariant, StepMoves, PTL DEF SSpec, ServiceSpec, Service!SSSpec

(***************************************************************************)
(* The planner.  The ten powers a rung multiplies by, kept as a table so   *)
(* that the provers meet numerals and not exponents.                       *)
(***************************************************************************)
Pow2 == [k \in 0..9 |-> 2^k]

LEMMA Powers ==
  /\ Pow2[0] = 1 /\ Pow2[1] = 2 /\ Pow2[2] = 4 /\ Pow2[3] = 8 /\ Pow2[4] = 16
  /\ Pow2[5] = 32 /\ Pow2[6] = 64 /\ Pow2[7] = 128 /\ Pow2[8] = 256 /\ Pow2[9] = 512
<1>1. Pow2[0] = 1 /\ Pow2[1] = 2 /\ Pow2[2] = 4 /\ Pow2[3] = 8 /\ Pow2[4] = 16
  BY DEF Pow2
<1>2. Pow2[5] = 32 /\ Pow2[6] = 64 /\ Pow2[7] = 128 /\ Pow2[8] = 256 /\ Pow2[9] = 512
  BY DEF Pow2
<1> QED BY <1>1, <1>2

LEMMA PowerOf == ASSUME NEW k \in 0..9 PROVE 2^k = Pow2[k]
BY DEF Pow2

LEMMA Least == ASSUME NEW S \in SUBSET Nat, S # {} PROVE \E v \in S : \A w \in S : v <= w
<1>1. PICK v \in S : \A w \in S : <<w, v>> \notin OpToRel(<, Nat)
  BY NatLessThanWellFounded, WFMin
<1>2. OpToRel(<, Nat) = {ss \in Nat \X Nat : ss[1] < ss[2]}
  BY Zenon DEF OpToRel
<1>3. ASSUME NEW R, R = OpToRel(<, Nat) PROVE \A w \in S : ~ (w < v)
  <2>1. R = {ss \in Nat \X Nat : ss[1] < ss[2]}
    BY <1>2, <1>3, Zenon
  <2>2. \A w \in S : <<w, v>> \notin R
    BY <1>1, <1>3, Zenon
  <2> QED BY <2>1, <2>2
<1>4. \A w \in S : ~ (w < v)
  BY <1>3
<1> QED BY <1>4

\* Deepest finds one of the rungs.
LEMMA DeepestRung ==
  ASSUME NEW S \in SUBSET ((0..8) \X {0, 1}), S # {}
  PROVE  Deepest(S) \in S
<1> DEFINE K == {18 - (2 * x[1] + x[2]) : x \in S}
<1>1. K \in SUBSET Nat /\ K # {}
  OBVIOUS
<1>2. PICK v \in K : \A w \in K : v <= w
  BY <1>1, Least
<1>3. PICK x \in S : v = 18 - (2 * x[1] + x[2])
  BY <1>2
<1>4. ASSUME NEW y \in S PROVE 2 * x[1] + x[2] >= 2 * y[1] + y[2]
  <2>1. v <= 18 - (2 * y[1] + y[2])
    BY <1>2
  <2>2. x[1] \in Nat /\ x[2] \in Nat /\ y[1] \in Nat /\ y[2] \in Nat
    OBVIOUS
  <2> HIDE DEF K
  <2> QED BY <2>1, <2>2, <1>3
<1> QED BY <1>4 DEF Deepest

\* What a plan's clock is, and when there is one.
LEMMA RxClock ==
  ASSUME NEW r \in Nat, PlanRx(r) # NoPlan
  PROVE  \E e \in 0..9 : PlanRx(r).dcs = r * Pow2[e] /\ InWindow(r * Pow2[e])
<1> DEFINE S == IF RxRungs(r, 0) # {} THEN RxRungs(r, 0) ELSE RxRungs(r, 1)
           x == Deepest(S)
<1>1. S \in SUBSET ((0..8) \X {0, 1}) /\ S # {}
  BY DEF PlanRx, RxRungs
<1>2. x \in S
  BY <1>1, DeepestRung
<1>3. x[1] + x[2] \in 0..9
  BY <1>1, <1>2
<1>4. InWindow(r * 2^(x[1] + x[2]))
  BY <1>2 DEF RxRungs, RxRung
<1>5. PlanRx(r) = [NoPlan EXCEPT !.dcs = r * 2^(x[1] + x[2]), !.rx = <<x[2], x[1]>>]
  BY <1>1 DEF PlanRx
<1>6. PlanRx(r).dcs = r * 2^(x[1] + x[2])
  BY <1>5 DEF NoPlan
<1> QED BY <1>3, <1>4, <1>6, PowerOf

LEMMA RxExists ==
  ASSUME NEW r \in Nat, NEW e \in 0..9, InWindow(r * Pow2[e])
  PROVE  PlanRx(r) # NoPlan
<1> DEFINE k == IF e <= 3 THEN e ELSE e - 1
           d == IF e <= 3 THEN 0 ELSE 1
<1>1. k \in 0..8 /\ d \in {0, 1} /\ k + d = e /\ (d = 0 => k <= 3) /\ (d = 1 => k >= 3)
  OBVIOUS
<1>2. InWindow(r * 2^(k + d))
  BY <1>1, PowerOf
<1> HIDE DEF k, d
<1>3. RxRung(r, 1, k, d)
  BY <1>1, <1>2 DEF RxRung
<1>4. <<k, d>> \in RxRungs(r, 1)
  BY <1>1, <1>3 DEF RxRungs
<1> DEFINE S == IF RxRungs(r, 0) # {} THEN RxRungs(r, 0) ELSE RxRungs(r, 1)
           x == Deepest(S)
<1>5. S \in SUBSET ((0..8) \X {0, 1}) /\ S # {}
  BY <1>4 DEF RxRungs
<1>6. x \in S
  BY <1>5, DeepestRung
<1>7. InWindow(r * 2^(x[1] + x[2]))
  BY <1>6 DEF RxRungs, RxRung
<1>8. PlanRx(r) = [NoPlan EXCEPT !.dcs = r * 2^(x[1] + x[2]), !.rx = <<x[2], x[1]>>]
  BY <1>5 DEF PlanRx
<1> DEFINE f == r * 2^(x[1] + x[2])
<1>9. PlanRx(r).dcs = f
  BY <1>8 DEF NoPlan
<1>10. InWindow(f)
  BY <1>7
<1> HIDE DEF f
<1>11. f # 0
  BY <1>10 DEF InWindow, DcsMin, DcsMax, MHz
<1> QED BY <1>9, <1>11 DEF NoPlan

LEMMA TxClock ==
  ASSUME NEW r \in Nat, NEW e \in 0..9, InWindow(r * Pow2[e])
  PROVE  \E g \in 0..9 : PlanTx(r).dcs = r * Pow2[g] /\ InWindow(r * Pow2[g])
<1>1. CASE TxRungs(r) # {}
  <2> DEFINE u == CHOOSE v \in TxRungs(r) : \A w \in TxRungs(r) : v <= w
  <2>1. TxRungs(r) \in SUBSET Nat
    BY DEF TxRungs
  <2>2. \E v \in TxRungs(r) : \A w \in TxRungs(r) : v <= w
    BY <1>1, <2>1, Least
  <2>3. u \in TxRungs(r)
    BY <2>2
  <2> HIDE DEF u
  <2>4. u \in 0..8 /\ InWindow(r * 2^(u + 1))
    BY <2>3 DEF TxRungs
  <2>5. PlanTx(r).dcs = r * 2^(u + 1)
    BY <1>1 DEF PlanTx, NoPlan, u
  <2>6. u + 1 \in 0..9
    BY <2>4
  <2> QED BY <2>6, <2>4, <2>5, PowerOf
<1>2. CASE TxRungs(r) = {}
  <2>1. e = 0
    <3>1. SUFFICES ASSUME e # 0 PROVE FALSE
      OBVIOUS
    <3>2. e - 1 \in 0..8 /\ (e - 1) + 1 = e
      BY <3>1
    <3>3. InWindow(r * 2^((e - 1) + 1))
      BY <3>2, PowerOf
    <3> QED BY <1>2, <3>2, <3>3 DEF TxRungs
  <2>2. r * Pow2[0] = r
    BY Powers
  <2>3. PlanTx(r).dcs = r
    BY <1>2, <2>1, <2>2 DEF PlanTx, NoPlan
  <2> QED BY <2>1, <2>2, <2>3
<1> QED BY <1>1, <1>2

\* Every sample rate between the limits hwinfo announces has an RX plan, as
\* the comment over rfnm_la9310_samp_rate_ok says of them.
THEOREM RatesInRangePlan ==
  ASSUME NEW r \in Nat, RateMin <= r, r <= RateMax
  PROVE  PlanRx(r) # NoPlan
<1>1. \E e \in 0..9 : 800000 <= r * Pow2[e] /\ r * Pow2[e] <= 1600000
  BY Powers DEF RateMin, RateMax, MHz
<1>2. \E e \in 0..9 : InWindow(r * Pow2[e])
  BY <1>1 DEF InWindow, DcsMin, DcsMax, MHz
<1> QED BY <1>2, RxExists

\* A rate whose RX clock the synthesizer can make has a TX clock it can make:
\* the window is an octave wide, so the two are the same or both on its edges.
LEMMA AcceptedRate ==
  ASSUME NEW r \in Nat, RateOk(r)
  PROVE  PlanTx(r) # NoPlan /\ InWindow(PlanTx(r).dcs) /\ Synthesizable(PlanTx(r).dcs)
<1>1. PICK e \in 0..9 : PlanRx(r).dcs = r * Pow2[e] /\ InWindow(r * Pow2[e])
  BY RxClock DEF RateOk
<1>2. PICK g \in 0..9 : PlanTx(r).dcs = r * Pow2[g] /\ InWindow(r * Pow2[g])
  BY <1>1, TxClock
<1>3. (r * Pow2[e]) % 8 = 0
  BY <1>1 DEF RateOk, Synthesizable
<1>4. /\ 800000 <= r * Pow2[e] /\ r * Pow2[e] <= 1600000
      /\ 800000 <= r * Pow2[g] /\ r * Pow2[g] <= 1600000
  BY <1>1, <1>2 DEF InWindow, DcsMin, DcsMax, MHz
<1>5. (r * Pow2[g]) % 8 = 0
  BY <1>3, <1>4, Powers
<1>6. PlanTx(r).dcs # 0
  BY <1>2, <1>4, Powers
<1> QED BY <1>2, <1>5, <1>6 DEF NoPlan, Synthesizable

\* A plan's clock is a number, 0 without a plan.
LEMMA PlanType ==
  ASSUME NEW r \in Nat, NEW dirs, NEW fdx
  PROVE  Plan(r, dirs, fdx).dcs \in Nat
<1>1. NoPlan.dcs \in Nat
  BY DEF NoPlan
<1>2. PlanRx(r).dcs \in Nat
  BY <1>1, RxClock, Powers
<1>3. PlanTx(r).dcs \in Nat
  <2>1. CASE \E e \in 0..9 : InWindow(r * Pow2[e])
    BY <2>1, TxClock, Powers
  <2>2. CASE ~ \E e \in 0..9 : InWindow(r * Pow2[e])
    <3>1. TxRungs(r) = {}
      <4>1. SUFFICES ASSUME NEW u \in 0..8, InWindow(r * 2^(u + 1)) PROVE FALSE
        BY DEF TxRungs
      <4>2. u + 1 \in 0..9
        OBVIOUS
      <4> QED BY <4>1, <4>2, <2>2, PowerOf
    <3> QED BY <3>1 DEF PlanTx, NoPlan
  <2> QED BY <2>1, <2>2
<1>4. PlanBoth(r, fdx).dcs \in Nat
  BY <1>1 DEF PlanBoth
<1> QED BY <1>2, <1>3, <1>4 DEF Plan

(***************************************************************************)
(* The inductive invariant of Control.                                     *)
(***************************************************************************)

\* from the copy to the answer the TX work and the TX verb agree on the list
Kept ==
  wpc["tx"] \in {"stream", "reset", "swap", "again", "send", "publish"} => took["tx"] = list["tx"]

\* the rate is the one at load or was accepted
Accepted == rate = BootRate \/ RateOk(rate)

\* a waiting open holds off the others, so the session it opens is within the bound
Room == job["call"] # "idle" => sess < MaxSess

CInv == TypeOK /\ sent \in [Dir -> Nat] /\ Room /\ Kept /\ TxTruth /\ Accepted

(***************************************************************************)
(* The session jobs under the control plane stay jobs of SessionService.   *)
(***************************************************************************)
LEMMA ServiceStep == ASSUME Next PROVE SSNext \/ UNCHANGED ssvars
<1> USE DEF Jobs, Restarts, Resets
<1>1. CASE UsbSetup \/ EthControl \/ LocalIoctl \/ SetVerbs \/ BringUp \/ Park
  BY <1>1 DEF UsbSetup, EthControl, LocalIoctl, SetVerbs, BringUp, Park, OpenUsb, OpenCall, EthAnswer,
     LocalAnswer, HardResetVerb, Dropped, ApplyRx, ApplyTx, SetRate, SSNext
<1>2. ASSUME NEW d \in Dir, WorkNext(d) PROVE SSNext \/ UNCHANGED ssvars
  BY <1>2 DEF WorkNext, WorkBegins, LockApply, Idle, IdleTimeout, Copy, StreamPlan, ResetReturns,
     SwapReturns, SwapAgain, Send, Publish, SSNext
<1>3. ASSUME NEW j \in Jobs, JobNext(j) PROVE SSNext
  BY <1>3 DEF JobNext, SSNext
<1>4. CASE Lapse \/ \E j \in Resets : CarryOver(j)
  BY <1>4 DEF SSNext
<1> QED BY <1>1, <1>2, <1>3, <1>4 DEF Next

LEMMA ServiceType == ASSUME SSTypeOK, SSNext \/ UNCHANGED ssvars PROVE SSTypeOK'
BY DEF SSTypeOK, SSNext, ssvars, Ask, Commit, CommitBadly, Abort, Done, CarryOver, Take, Lapse, Becomes,
       Jobs, Restarts, Resets

(***************************************************************************)
(* Each action keeps the rest of the invariant.                            *)
(***************************************************************************)
LEMMA Blanks == NoList \in List /\ NoRes \in Result
<1>1. NoList \in List
  BY BoundsAssumption DEF NoList, List
<1> QED BY <1>1 DEF NoRes, Result

LEMMA InitInv == Init => CInv
<1> SUFFICES ASSUME Init PROVE CInv
  OBVIOUS
<1> USE BoundsAssumption DEF Init, Dir
<1>1. SSTypeOK
  BY DEF SSInit, SSTypeOK
<1>2. BootRate \in Nat
  BY SMT DEF BootRate
<1>3. \A d \in Dir : sent[d] \in 0..MaxCc[d]
  BY DEF MaxCc
<1>4. TypeOK
  <2>1. list \in [Dir -> List] /\ took \in [Dir -> List] /\ res \in [Dir -> Result]
    BY Blanks
  <2>2. sess \in 0..MaxSess /\ rate \in Nat /\ clk \in Nat /\ target \in Nat
    BY <1>2
  <2>3. /\ up \in BOOLEAN /\ open \in BOOLEAN /\ good \in [Dir -> BOOLEAN]
        /\ queued \subseteq Dir /\ flag \subseteq Dir /\ alock \subseteq Dir
    OBVIOUS
  <2> QED BY <1>1, <1>3, <2>1, <2>2, <2>3 DEF TypeOK
<1>5. Kept /\ TxTruth /\ Accepted /\ Room
  BY DEF Kept, TxTruth, Accepted, NoRes, Room, SSInit, Jobs, Restarts
<1> QED BY <1>4, <1>5 DEF CInv

\* The verbs and the boards: no work moves.
LEMMA VerbInv ==
  ASSUME CInv, SSTypeOK',
         UsbSetup \/ EthControl \/ LocalIoctl \/ SetVerbs \/ BringUp \/ Park
  PROVE  CInv'
<1> USE BoundsAssumption DEF CInv, Dir, UsbSetup, EthControl, LocalIoctl, SetVerbs, BringUp, Park, OpenUsb,
        OpenCall, EthAnswer, LocalAnswer, HardResetVerb, Dropped, ApplyRx, ApplyTx, SetRate,
        MayOpen, NewSession, Sends, client, works, clock, cvars
<1>1. sent' \in [Dir -> Nat] /\ \A d \in Dir : sent'[d] \in 0..MaxCc[d]
  BY DEF TypeOK, MaxCc
<1>2. list' \in [Dir -> List]
  <2>1. CASE ApplyRx
    <3>1. [sess |-> sess, cc |-> sent["rx"] + 1] \in List
      BY <2>1 DEF TypeOK, MaxCc, List
    <3> QED BY <2>1, <3>1 DEF TypeOK
  <2>2. CASE ApplyTx
    <3>1. [sess |-> sess, cc |-> sent["tx"] + 1] \in List
      BY <2>2 DEF TypeOK, MaxCc, List
    <3> QED BY <2>2, <3>1 DEF TypeOK
  <2>3. CASE list' = list
    BY <2>3 DEF TypeOK
  <2> QED BY <2>1, <2>2, <2>3
<1>3. res' \in [Dir -> Result]
  <2>1. res' = res \/ res' = [d \in Dir |-> NoRes]
    OBVIOUS
  <2> QED BY <2>1, Blanks DEF TypeOK
<1>4. sess' \in 0..MaxSess /\ open' \in BOOLEAN /\ up' \in BOOLEAN /\ rate' \in Nat
  <2>1. sess' \in 0..MaxSess
    <3>1. sess \in 0..MaxSess
      BY DEF TypeOK
    <3>2. sess' = sess \/ (sess' = sess + 1 /\ sess < MaxSess)
      BY DEF Room, Take
    <3> QED BY <3>1, <3>2
  <2>2. open' \in BOOLEAN /\ up' \in BOOLEAN
    BY DEF TypeOK
  <2>3. rate' = rate \/ rate' \in Rates
    OBVIOUS
  <2> QED BY <2>1, <2>2, <2>3 DEF TypeOK
<1>5. queued' \subseteq Dir /\ flag' \subseteq Dir
  BY DEF TypeOK
<1>6. UNCHANGED <<wpc, alock, took, good, clk, target>>
  OBVIOUS
<1>7. TypeOK'
  BY <1>1, <1>2, <1>3, <1>4, <1>5, <1>6 DEF TypeOK
<1>8. Kept'
  <2>1. CASE ApplyRx
    BY <2>1 DEF Kept, TypeOK
  <2>2. CASE ApplyTx
    BY <2>2 DEF Kept
  <2>3. CASE list' = list
    BY <2>3, <1>6 DEF Kept
  <2> QED BY <2>1, <2>2, <2>3
<1>9. TxTruth'
  <2>1. res' = res \/ res' = [d \in Dir |-> NoRes]
    OBVIOUS
  <2> QED BY <2>1 DEF TxTruth, NoRes
<1>10. Accepted'
  <2>1. rate' = rate \/ \E r \in Rates : rate' = r /\ RateOk(r)
    OBVIOUS
  <2> QED BY <2>1 DEF Accepted
<1>11. Room'
  <2>1. CASE OpenUsb \/ HardResetVerb
    BY <2>1 DEF Room, TypeOK, SSTypeOK, Ask, Becomes, Jobs, Restarts, Resets
  <2>2. CASE EthAnswer \/ LocalAnswer
    BY <2>2 DEF Room, TypeOK, SSTypeOK, Take, Becomes, Jobs, Restarts, Resets
  <2>3. CASE OpenCall
    BY <2>3 DEF Room
  <2>4. CASE UNCHANGED ssvars /\ sess' = sess
    BY <2>4 DEF Room, ssvars
  <2> QED BY <2>1, <2>2, <2>3, <2>4
<1> QED BY <1>1, <1>7, <1>8, <1>9, <1>10, <1>11

\* The works: only the steps of the TX work touch what Kept and TxTruth speak
\* of, and it copies the list before it answers for it.
LEMMA WorkInv ==
  ASSUME CInv, SSTypeOK', NEW d \in Dir, WorkNext(d)
  PROVE  CInv'
<1> DEFINE Places == {"idle", "lock", "wait", "copy", "stream", "reset", "swap", "again", "send", "publish"}
<1> USE DEF CInv, WorkNext, WorkBegins, LockApply, Idle, IdleTimeout, Copy, StreamPlan, ResetReturns,
        SwapReturns, SwapAgain, Send, Publish, client, works, clock, At, To, Fails, Rejected
<1>1. UNCHANGED <<up, sess, open, sent, list, rate, clk>>
  OBVIOUS
<1>2. wpc' \in [Dir -> Places]
  <2>1. \E p \in Places : wpc' = [wpc EXCEPT ![d] = p]
    OBVIOUS
  <2> QED BY <2>1 DEF TypeOK
<1>3. took' = took \/ took' = [took EXCEPT ![d] = list[d]] \/ took' = [took EXCEPT ![d] = NoList]
  OBVIOUS
<1>4. took' \in [Dir -> List]
  BY <1>3, Blanks DEF TypeOK
<1>5. good' = good \/ good' = [good EXCEPT ![d] = TRUE] \/ good' = [good EXCEPT ![d] = FALSE]
  OBVIOUS
<1>6. good' \in [Dir -> BOOLEAN]
  BY <1>5 DEF TypeOK
<1>7. queued' \subseteq Dir /\ flag' \subseteq Dir /\ alock' \subseteq Dir
  BY DEF TypeOK
<1>8. \/ res' = res
      \/ res' = [res EXCEPT ![d] = [of |-> list[d], took |-> list[d], ok |-> FALSE]]
      \/ At(d, "publish") /\ res' = [res EXCEPT ![d] = [of |-> list[d], took |-> took[d], ok |-> good[d]]]
  OBVIOUS
<1>9. res' \in [Dir -> Result]
  <2>1. /\ [of |-> list[d], took |-> list[d], ok |-> FALSE] \in Result
        /\ [of |-> list[d], took |-> took[d], ok |-> good[d]] \in Result
    BY DEF TypeOK, Result
  <2> QED BY <1>8, <2>1 DEF TypeOK
<1>10. target' \in Nat
  <2>1. Plan(rate, flag, Fdx).dcs \in Nat
    BY PlanType DEF TypeOK
  <2>2. target' = target \/ target' = 0 \/ target' = Plan(rate, flag, Fdx).dcs
    OBVIOUS
  <2> QED BY <2>1, <2>2 DEF TypeOK
<1>11. TypeOK'
  BY <1>1, <1>2, <1>4, <1>6, <1>7, <1>9, <1>10 DEF TypeOK
<1>12. Room'
  <2>1. job' = job \/ Ask("apply") \/ Take("apply")
    BY DEF ssvars
  <2>2. job'["call"] = job["call"]
    BY <2>1 DEF TypeOK, SSTypeOK, Ask, Take, Becomes, Jobs, Restarts, Resets
  <2> QED BY <1>1, <2>2 DEF Room
<1>13. Kept'
  <2>1. CASE d = "rx"
    <3>1. wpc'["tx"] = wpc["tx"] /\ took'["tx"] = took["tx"]
      BY <2>1, <1>3 DEF TypeOK, Dir
    <3> QED BY <1>1, <3>1 DEF Kept
  <2>2. CASE d = "tx"
    <3>1. CASE Copy(d)
      BY <2>2, <3>1 DEF TypeOK, Kept
    <3>2. CASE WorkBegins(d) \/ LockApply(d) \/ Idle(d) \/ IdleTimeout(d) \/ Publish(d)
      BY <2>2, <3>2 DEF TypeOK, Kept
    <3>3. CASE StreamPlan(d) \/ ResetReturns(d) \/ SwapReturns(d) \/ SwapAgain(d) \/ Send(d)
      BY <2>2, <3>3 DEF TypeOK, Kept
    <3> QED BY <3>1, <3>2, <3>3
  <2> QED BY <2>1, <2>2 DEF Dir
<1>14. TxTruth'
  BY <1>8 DEF TypeOK, TxTruth, Kept, Dir
<1>15. Accepted'
  BY <1>1 DEF Accepted
<1>16. sent' \in [Dir -> Nat]
  BY <1>1
<1> QED BY <1>11, <1>12, <1>13, <1>14, <1>15, <1>16

\* The jobs: a restart blanks the results, a reset sets the clock.
LEMMA JobInv ==
  ASSUME CInv, SSTypeOK', NEW j \in Jobs, JobNext(j)
  PROVE  CInv'
<1> USE DEF CInv, JobNext, BoardReset, Clock, client, works, clock, cvars
<1>1. UNCHANGED <<up, sess, open, sent, list, queued, wpc, alock, took, good, rate, target>>
  OBVIOUS
<1>2. (flag' = flag \/ flag' = {}) /\ (res' = res \/ res' = [d \in Dir |-> NoRes])
  OBVIOUS
<1>3. clk' \in Nat
  <2>1. clk' \in {clk, 0, BootRate, target}
    OBVIOUS
  <2>2. BootRate \in Nat
    BY SMT DEF BootRate
  <2> QED BY <2>1, <2>2 DEF TypeOK
<1>4. flag' \subseteq Dir /\ res' \in [Dir -> Result]
  BY <1>2, Blanks DEF TypeOK
<1>5. TypeOK'
  BY <1>1, <1>3, <1>4 DEF TypeOK
<1>6. Room'
  <2>1. job["call"] = "idle" => job'["call"] = "idle"
    BY DEF Commit, CommitBadly, Abort, Done, Take, Becomes, TypeOK, SSTypeOK, Jobs, Restarts, Resets
  <2> QED BY <1>1, <2>1 DEF Room
<1>7. Kept'
  BY <1>1 DEF Kept
<1>8. TxTruth'
  BY <1>2 DEF TxTruth, NoRes, Dir
<1>9. Accepted' /\ sent' \in [Dir -> Nat]
  BY <1>1 DEF Accepted
<1> QED BY <1>5, <1>6, <1>7, <1>8, <1>9

LEMMA StepInv == CInv /\ [Next]_vars => CInv'
<1> SUFFICES ASSUME CInv, [Next]_vars PROVE CInv'
  OBVIOUS
<1>1. CASE UNCHANGED vars
  BY <1>1 DEF vars, CInv, TypeOK, SSTypeOK, Room, Kept, TxTruth, Accepted
<1>2. ASSUME Next PROVE SSTypeOK'
  BY <1>2, ServiceStep, ServiceType DEF CInv, TypeOK
<1>3. CASE UsbSetup \/ EthControl \/ LocalIoctl \/ SetVerbs \/ BringUp \/ Park
  BY <1>2, <1>3, VerbInv DEF Next
<1>4. CASE \E d \in Dir : WorkNext(d)
  BY <1>2, <1>4, WorkInv DEF Next
<1>5. CASE \E j \in Jobs : JobNext(j)
  BY <1>2, <1>5, JobInv DEF Next
<1>6. CASE (Lapse \/ \E j \in Resets : CarryOver(j)) /\ UNCHANGED cvars
  BY <1>2, <1>6 DEF Next, Lapse, CarryOver, cvars, CInv, TypeOK, Room, Kept, TxTruth, Accepted
<1> QED BY <1>1, <1>3, <1>4, <1>5, <1>6 DEF Next

LEMMA Invariant == Spec => []CInv
BY InitInv, StepInv, PTL DEF Spec

\* The control plane keeps its types, and its sessions their bound, whatever
\* verbs, works and jobs interleave (rfnm_usb_function.c, rfnm_daughterboard.c).
THEOREM ControlTypes == Spec => []TypeOK
BY Invariant, PTL DEF CInv

\* The cc a TX result carries is always that of the list that was applied
\* (rfnm_daughterboard.c: cancel_work_sync before the list is overwritten).
THEOREM TxAnswersTrue == Spec => []TxTruth
BY Invariant, PTL DEF CInv

\* The clock at load, 122.88 MHz, is one SET_SAMP_RATE would accept.
LEMMA BootAccepted == RateOk(BootRate)
<1>1. PICK r \in Nat : r = BootRate
  BY SMT DEF BootRate
<1>2. r = 983040
  BY <1>1, SMT DEF BootRate
<1>3. RateMin <= r /\ r <= RateMax
  BY <1>2, SMT DEF RateMin, RateMax, MHz
<1>4. PlanRx(r) # NoPlan
  BY <1>3, RatesInRangePlan
<1>5. PICK e \in 0..9 : PlanRx(r).dcs = r * Pow2[e] /\ InWindow(r * Pow2[e])
  BY <1>4, RxClock
<1>6. PlanRx(r).dcs = r
  BY <1>2, <1>5, Powers, SMT DEF InWindow, DcsMin, DcsMax, MHz
<1>7. Synthesizable(r)
  BY <1>2, SMT DEF Synthesizable
<1>8. RateOk(r)
  BY <1>3, <1>4, <1>6, <1>7 DEF RateOk
<1> QED BY <1>1, <1>8

\* A rate that SET_SAMP_RATE accepted always has a TX plan, too, on a clock
\* the si5510 can make (rfnm_lalib.c, rfnm_la9310_samp_rate_ok).
THEOREM RatesHonest == Spec => []HonestRate
<1>1. CInv => HonestRate
  BY AcceptedRate, BootAccepted DEF CInv, TypeOK, Accepted, HonestRate
<1> QED BY <1>1, Invariant, PTL

=============================================================================
