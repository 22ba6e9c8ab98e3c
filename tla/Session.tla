------------------------------ MODULE Session ------------------------------
(***************************************************************************)
(* The session layer of la9310_rfnm.c: the stream workers and who may stop *)
(* and start them.  Four kinds of job do so, all under                     *)
(* rfnm_hard_reset_lock:                                                   *)
(*   "work"   the restart a USB client schedules (rfnm_restart_sm_work);   *)
(*   "call"   the restart an Ethernet or local client waits for            *)
(*            (rfnm_restart_sm);                                           *)
(*   "hard"   the scheduled LA9310 hard reset (rfnm_hard_reset_work);      *)
(*   "apply"  the hard reset or the VSPA kernel swap a channel-list apply  *)
(*            needs for its sample rate.                                   *)
(* The module also has the time generation: a chip reset restarts the PHY  *)
(* timer, a sampler notices a restart nobody commanded, and a session      *)
(* whose generation is not the live one has its verbs refused.  Only the   *)
(* equality of the two generation counters is ever tested, so the pair is  *)
(* the Boolean fresh.                                                      *)
(*                                                                         *)
(* What a job does to the radio configuration (the board reset, the clock) *)
(* is in module Control, which is written against SessionService, the      *)
(* abstract specification this module is shown to implement below.         *)
(***************************************************************************)
EXTENDS Naturals, FiniteSets

CONSTANTS Worker,   \* the stream workers: RX ("in"), TX ("out"), USB
          NoJob     \* the lock is free

ASSUME WorkerAssumption == IsFiniteSet(Worker) /\ Worker # {}

Restart == {"work", "call"}
Reset   == {"hard", "apply"}
Job     == Restart \cup Reset

ASSUME NoJobAssumption == NoJob \notin Job

VARIABLES
  alive,    \* rfnm_sm_workers_alive, as the set of running workers
  stopf,    \* wq_stop_in / wq_stop_out / wq_stop_usb that are set
  lock,     \* the holder of rfnm_hard_reset_lock
  pc,       \* where each job is
  kind,     \* what the "apply" job is for: "reset" or "swap"
  ret,      \* each job's return value is 0; for "hard" also the status
            \* rfnm_get_hard_reset_la9310_status answers once it is done
  fresh,    \* rfnm_session_phy_gen = rfnm_phy_gen
  dead      \* rfnm_session_dead

svars == <<alive, stopf, lock, pc, kind, ret, fresh, dead>>

Pc == {"idle", "drain", "lock", "stop", "wait", "board", "io", "probe",
       "bump", "relatch", "start", "latch", "out", "end"}

\* rfnm_sm_restart_running, rfnm_hard_reset_running: raised with the request
\* and dropped as the last thing the work does.
RestartRunning   == pc["work"] # "idle"
HardResetRunning == pc["hard"] # "idle"

STypeOK ==
  /\ alive \subseteq Worker /\ stopf \subseteq Worker
  /\ lock \in Job \cup {NoJob}
  /\ pc \in [Job -> Pc] /\ ret \in [Job -> BOOLEAN]
  /\ kind \in {"reset", "swap"}
  /\ fresh \in BOOLEAN /\ dead \in BOOLEAN

\* Module load schedules the worker start and has it run before a client can
\* come; a worker whose kthread could not be made is missing.
SInit ==
  /\ alive \in SUBSET Worker
  /\ stopf = {} /\ lock = NoJob
  /\ pc = [j \in Job |-> "idle"] /\ ret = [j \in Job |-> TRUE]
  /\ kind = "reset" /\ fresh = TRUE /\ dead = FALSE

Goto(j, p) == pc' = [pc EXCEPT ![j] = p]
Finish(j, p, ok) == Goto(j, p) /\ ret' = [ret EXCEPT ![j] = ok]
IsReset(j) == j = "hard" \/ (j = "apply" /\ kind = "reset")

(***************************************************************************)
(* The gate every session verb passes.                                     *)
(***************************************************************************)
SessionOk == ~dead /\ fresh

(***************************************************************************)
(* Requests.                                                               *)
(***************************************************************************)

\* rfnm_schedule_restart_sm: one scheduled restart at a time.  The board is
\* reset with the answer (Control), the work runs later.
ScheduleRestart ==
  /\ ~RestartRunning
  /\ Goto("work", "lock")
  /\ UNCHANGED <<alive, stopf, lock, kind, ret, fresh, dead>>

\* rfnm_restart_sm from an ioctl or the Ethernet control thread.
CallRestart ==
  /\ pc["call"] = "idle"
  /\ Goto("call", "lock")
  /\ UNCHANGED <<alive, stopf, lock, kind, ret, fresh, dead>>

\* rfnm_schedule_hard_reset_la9310; while one runs the answer is -EBUSY.
ScheduleHardReset ==
  /\ ~HardResetRunning
  /\ Finish("hard", "drain", TRUE)
  /\ UNCHANGED <<alive, stopf, lock, kind, fresh, dead>>

\* rfnm_la9310_stream inside an apply calls for a reclock or a kernel swap.
CallReset(k) ==
  /\ pc["apply"] = "idle"
  /\ kind' = k
  /\ Goto("apply", "drain")
  /\ UNCHANGED <<alive, stopf, lock, ret, fresh, dead>>

(***************************************************************************)
(* The steps of a job.                                                     *)
(***************************************************************************)

\* flush_work(&rfnm_restart_sm_work): a reset lets a scheduled restart finish
\* before it asks for the lock.
Drain(j) ==
  /\ pc[j] = "drain" /\ pc["work"] = "idle"
  /\ Goto(j, "lock")
  /\ UNCHANGED <<alive, stopf, lock, kind, ret, fresh, dead>>

\* A reset then raises rfnm_commanded_reset_active and quiesces the stream
\* (the word is module StreamWord's).
Lock(j) ==
  /\ pc[j] = "lock" /\ lock = NoJob
  /\ lock' = j
  /\ Goto(j, "stop")
  /\ UNCHANGED <<alive, stopf, kind, ret, fresh, dead>>

Stopped(j) == IF j \in Restart THEN "board" ELSE "io"

\* stop_sm: nothing to do without workers (the flags are left as they are),
\* else raise all three flags.
Stop(j) ==
  /\ pc[j] = "stop"
  /\ \/ alive = {} /\ Goto(j, Stopped(j)) /\ UNCHANGED stopf
     \/ alive # {} /\ Goto(j, "wait") /\ stopf' = Worker
  /\ UNCHANGED <<alive, lock, kind, ret, fresh, dead>>

\* ... until the last worker is gone, ...
Wait(j) ==
  /\ pc[j] = "wait" /\ alive = {}
  /\ stopf' = {}
  /\ Goto(j, Stopped(j))
  /\ UNCHANGED <<alive, lock, kind, ret, fresh, dead>>

\* Mutant: the job goes on although the stop timed out.
TimeoutGoesOn(j) ==
  /\ pc[j] = "wait" /\ alive # {}
  /\ Goto(j, Stopped(j))
  /\ UNCHANGED <<alive, stopf, lock, kind, ret, fresh, dead>>

\* Mutant: the caller is told the restart went well.
TimeoutQuiet(j) ==
  /\ pc[j] = "wait" /\ alive # {}
  /\ Finish(j, IF j \in Restart THEN "end" ELSE "out", TRUE)
  /\ lock' = IF j \in Restart THEN NoJob ELSE lock
  /\ UNCHANGED <<alive, stopf, kind, fresh, dead>>

\* ... or 1.5 s have passed: the job gives up, the flags stay raised and the
\* workers will still follow them.
Timeout(j) ==
  /\ pc[j] = "wait" /\ alive # {}
  /\ Finish(j, IF j \in Restart THEN "end" ELSE "out", FALSE)
  /\ lock' = IF j \in Restart THEN NoJob ELSE lock
  /\ UNCHANGED <<alive, stopf, kind, fresh, dead>>

\* A restart flushes the TX staging, tops the IN pool up, quiesces the stream
\* (modules TxPool, UsbInPool, StreamWord) and resets the boards (Control).
Board(j) ==
  /\ pc[j] = "board"
  /\ Goto(j, "io")
  /\ UNCHANGED <<alive, stopf, lock, kind, ret, fresh, dead>>

\* rfnm_reset_stream_io_state, before the chip is touched.
ResetIo(j) ==
  /\ pc[j] = "io"
  /\ stopf' = {}
  /\ Goto(j, IF j \in Restart THEN "start" ELSE "probe")
  /\ UNCHANGED <<alive, lock, kind, ret, fresh, dead>>

\* The chip comes back and the stream state is reset once more, or the
\* workers stay down.
Reprobe(j) ==
  /\ pc[j] = "probe" /\ IsReset(j)
  /\ \/ Goto(j, "bump") /\ stopf' = {} /\ UNCHANGED ret
     \/ Finish(j, "out", FALSE) /\ UNCHANGED stopf
  /\ UNCHANGED <<alive, lock, kind, fresh, dead>>

\* The parked core boots another kernel, or fails to; the stream state is
\* reset and the workers start either way.
Swap(j) ==
  /\ pc[j] = "probe" /\ ~IsReset(j)
  /\ stopf' = {}
  /\ \E ok \in BOOLEAN : Finish(j, "start", ok)
  /\ UNCHANGED <<alive, lock, kind, fresh, dead>>

\* rfnm_phy_gen_bump: the time base starts over, tick promises are void.
Bump(j) ==
  /\ pc[j] = "bump"
  /\ fresh' = FALSE
  /\ Goto(j, "relatch")
  /\ UNCHANGED <<alive, stopf, lock, kind, ret, dead>>

\* The session that commanded the reset goes on in the new generation.
Relatch(j) ==
  /\ pc[j] = "relatch"
  /\ fresh' = TRUE
  /\ Goto(j, "start")
  /\ UNCHANGED <<alive, stopf, lock, kind, ret, dead>>

\* start_sm_work: refuses over living workers; any kthread may fail to start.
\* A restart then drops the lock.
Start(j) ==
  /\ pc[j] = "start"
  /\ IF alive = {} THEN alive' \in SUBSET Worker ELSE UNCHANGED alive
  /\ Goto(j, IF j \in Restart THEN "latch" ELSE "out")
  /\ lock' = IF j \in Restart THEN NoJob ELSE lock
  /\ UNCHANGED <<stopf, kind, ret, fresh, dead>>

\* rfnm_restart_sm, after the unlock: the new owner adopts the live
\* generation and a fault of the old session is forgotten.
Latch(j) ==
  /\ pc[j] = "latch"
  /\ fresh' = TRUE /\ dead' = FALSE
  /\ Goto(j, "end")
  /\ UNCHANGED <<alive, stopf, lock, kind, ret>>

\* A reset clears rfnm_commanded_reset_active (which holds exactly while a
\* reset has the lock) and drops the lock.
Out(j) ==
  /\ pc[j] = "out"
  /\ lock' = NoJob
  /\ Goto(j, "end")
  /\ UNCHANGED <<alive, stopf, kind, ret, fresh, dead>>

\* Mutant: the work returns early when the restart failed.
WorkEndsOnSuccess ==
  /\ pc["work"] = "end" /\ ret["work"]
  /\ Finish("work", "idle", TRUE)
  /\ UNCHANGED <<alive, stopf, lock, kind, fresh, dead>>

\* rfnm_restart_sm_work_fn drops the result and lets the next restart in.
WorkEnds ==
  /\ pc["work"] = "end"
  /\ Finish("work", "idle", TRUE)
  /\ UNCHANGED <<alive, stopf, lock, kind, fresh, dead>>

\* rfnm_hard_reset_work_fn leaves the status behind.
HardEnds ==
  /\ pc["hard"] = "end"
  /\ Goto("hard", "idle")
  /\ UNCHANGED <<alive, stopf, lock, kind, ret, fresh, dead>>

\* The caller has its return value.
CallEnds(j) ==
  /\ j \in {"call", "apply"} /\ pc[j] = "end"
  /\ Finish(j, "idle", TRUE)
  /\ UNCHANGED <<alive, stopf, lock, kind, fresh, dead>>

(***************************************************************************)
(* Workers, the chip and the sampler.                                      *)
(***************************************************************************)

\* A worker that sees its flag clears it and returns.
WorkerExit(w) ==
  /\ w \in alive \cap stopf
  /\ alive' = alive \ {w} /\ stopf' = stopf \ {w}
  /\ UNCHANGED <<lock, pc, kind, ret, fresh, dead>>

\* rfnm_session_fault: a worker found the session beyond repair.
Fault(w) ==
  /\ w \in alive /\ ~dead
  /\ dead' = TRUE
  /\ UNCHANGED <<alive, stopf, lock, pc, kind, ret, fresh>>

\* rfnm_phy64_timer_fn: the sampler finds the counter run backwards, further
\* than a wrap explains, and bumps the generation.  The chip can restart at
\* any time, so the sampler can bump at any time: before, between and after
\* the bump and the latch of a commanded reset too.  (A restart that looks
\* like a wrap changes nothing here.)
SamplerBump ==
  /\ fresh
  /\ fresh' = FALSE
  /\ UNCHANGED <<alive, stopf, lock, pc, kind, ret, dead>>

\* What happens around the jobs.
Around == (\E w \in Worker : WorkerExit(w) \/ Fault(w)) \/ SamplerBump \/ WorkEnds \/ HardEnds

(***************************************************************************)
(* The session layer by itself, under any requests.                        *)
(***************************************************************************)
JobStep(j) ==
  \/ Drain(j) \/ Lock(j) \/ Stop(j) \/ Wait(j) \/ Timeout(j) \/ Board(j) \/ ResetIo(j)
  \/ Reprobe(j) \/ Swap(j) \/ Bump(j) \/ Relatch(j) \/ Start(j) \/ Latch(j) \/ Out(j)

SNext ==
  \/ ScheduleRestart \/ CallRestart \/ ScheduleHardReset
  \/ \E k \in {"reset", "swap"} : CallReset(k)
  \/ \E j \in Job : JobStep(j) \/ CallEnds(j)
  \/ Around

\* Works and callers run, the mutex is handed to its waiters, a timed wait
\* ends one way or the other.  Nothing is assumed of the workers.
SFairness ==
  /\ \A j \in Job : WF_svars(JobStep(j)) /\ SF_svars(Lock(j))
  /\ WF_svars(WorkEnds) /\ WF_svars(HardEnds)

SSpec == SInit /\ [][SNext]_svars /\ SFairness

(***************************************************************************)
(* Properties.                                                             *)
(***************************************************************************)

\* ResetAlone: from the end of stop_sm to the start of the new workers the
\* stream state is the job's alone: no worker runs while the staging, the
\* queues and the chip are reset, although a stop can time out, its workers
\* leave later, and another job can take the lock meanwhile
\* (la9310_rfnm.c:4707, :4817, :4874).
ResetAlone ==
  \A j \in Job : pc[j] \in {"board", "io", "probe", "bump", "relatch", "start"}
                 => alive = {} /\ lock = j

\* RestartEnds: an accepted restart request comes to an end, so the verbs
\* that wait for it and the next open are not shut out (la9310_rfnm.c:4769).
RestartEnds == RestartRunning ~> ~RestartRunning

(***************************************************************************)
(* Session implements SessionService.                                      *)
(***************************************************************************)
Asked(j) ==
  \/ pc[j] \in {"drain", "lock", "stop", "wait", "board", "probe"}
  \/ pc[j] = "io" /\ j \in Reset

Committed(j) ==
  \/ pc[j] \in {"bump", "relatch", "start", "latch"}
  \/ pc[j] = "io" /\ j \in Restart
  \/ pc[j] = "out" /\ (ret[j] \/ ~IsReset(j))

Phase(j) ==
  IF pc[j] = "idle" THEN "idle"
  ELSE IF Asked(j) THEN "asked"
  ELSE IF Committed(j) THEN "committed"
  ELSE "done"

Service == INSTANCE SessionService WITH
             job  <- [j \in Job |-> Phase(j)],
             res0 <- [j \in Job |-> pc[j] = "idle" \/ ret[j]],
             ok   <- SessionOk

\* ServiceSpec: the locks, workers, time-outs and chip resets of this module
\* only ever do what the control plane may rely on: a restart answers success
\* only after the boards were reset, and a lapsed session is accepted again
\* only by a completed restart or a commanded reset (la9310_rfnm.c:4746,
\* :4817).
ServiceSpec == Service!SSSpec

=============================================================================
