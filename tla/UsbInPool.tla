----------------------------- MODULE UsbInPool -----------------------------
(***************************************************************************)
(* The life of the USB IN requests of la9310_rfnm.c: the three lists they  *)
(* travel through (free pool, staged for shipping, in flight), the counter *)
(* that gates the stager, and every thread that moves them: the producer   *)
(* (rfnm_handler_in and its deadline flush), the USB worker                *)
(* (rfnm_handler_usb), the completion handler in interrupt context, the    *)
(* host's SET_INTERFACE and the stream restart.                            *)
(*                                                                         *)
(* A step is what the code does between two points where another CPU can   *)
(* get in: one critical section or one atomic operation.  A list is the    *)
(* set of its elements: who holds a request is the question here, so the   *)
(* model lets any listed request be taken, which includes the first one.   *)
(* The endpoints (four of them, always enabled and disabled together) are  *)
(* one endpoint.                                                           *)
(***************************************************************************)
EXTENDS Integers, FiniteSets

CONSTANTS
  Req,        \* identities of gadget requests and of their list elements
  NoReq,      \* no request in hand
  Cap,        \* RFNM_USB_INFLIGHT_CAP (64 in the code)
  StaleCap,   \* RFNM_USB_INFLIGHT_STALE_CAP (4)
  Qlen,       \* requests minted when the endpoints are enabled (16 each)
  DrainMax,   \* bounded drain of the stream reset (256 tries)
  SweepAfter  \* starved periods until the poke becomes a sweep (3)

ASSUME ReqAssumption == IsFiniteSet(Req) /\ NoReq \notin Req
ASSUME CapAssumption ==
  Cap \in Nat /\ StaleCap \in Nat /\ Qlen \in Nat /\ DrainMax \in Nat /\ SweepAfter \in Nat \ {0}

VARIABLES
  in,          \* rfnm_usb_req_buffer_in: the free pool
  inUsb,       \* rfnm_usb_req_buffer_in_usb: staged, not yet on the wire
  inflight,    \* rfnm_usb_req_inflight_in: tracked while queued
  context,     \* requests whose req->context names their list element
  udc,         \* requests queued at the USB device controller
  cnt,         \* rfnm_usb_inflight_cnt
  alloc,       \* requests that exist: usb_ep_alloc_request .. usb_ep_free_request
  population,  \* rfnm_rx18.req_created - rfnm_rx18.req_destroyed
  alive,       \* rfnm_usb_rx_consumer_alive(): a status-0 completion within HZ
  grace,       \* rfnm_usb_rx_head_grace()
  epOn,        \* the endpoints are enabled
  epKnown,     \* rfnm_usb_in_ep_cnt > 0
  ppc, preq,   \* producer: where it is, the request it holds
  lone,        \* producer: the copied list pointers say the pool held one element
  gateArmed,   \* rfnm_usb_inflight_gate_armed
  periods,     \* rfnm_usb_in_starved_periods
  listed,      \* producer: the recount of the in-flight list
  targets,     \* producer: requests still to be dequeued by a poke or a sweep
  wpc, wreq,   \* USB worker: where it is, the request it holds
  cpc, cstat,  \* completion handler, per request: where it is, req->status
  stop,        \* stop flags raised: wq_stop_in, wq_stop_usb
  sm, smAlive, drains  \* stream restart: where it is, its locals

pvars == <<ppc, preq, lone, gateArmed, periods, listed, targets>>
wvars == <<wpc, wreq>>
cvars == <<cpc, cstat>>
svars == <<stop, sm, smAlive, drains>>
evars == <<alive, grace, epOn, epKnown>>
lists == <<in, inUsb, inflight>>
track == <<context, udc, cnt, alloc, population>>
vars == <<in, inUsb, inflight, context, udc, cnt, alloc, population, alive, grace, epOn, epKnown,
          ppc, preq, lone, gateArmed, periods, listed, targets, wpc, wreq, cpc, cstat,
          stop, sm, smAlive, drains>>

ProducerPc == {"idle", "peeked", "copied", "popped", "recount", "dequeue", "dead"}
WorkerPc   == {"idle", "took", "tracked", "counted", "failed", "dying", "recycle", "discard", "dead"}
HandlerPc  == {"none", "entry", "dec", "finish"}
Status     == {"ok", "reset", "shutdown"}
RestartPc  == {"idle", "stop", "topup", "drain", "recycle", "start"}

(***************************************************************************)
(* Who holds what.                                                         *)
(***************************************************************************)
PoppedReq  == {r \in Req : ppc = "popped" /\ preq = r}
WorkerReq  == {r \in Req : wpc \in {"took", "failed", "dying", "recycle", "discard"} /\ wreq = r}
HandlerReq == {r \in Req : cpc[r] \in {"dec", "finish"}}
Held  == in \cup inUsb \cup inflight \cup PoppedReq \cup WorkerReq \cup HandlerReq
Fresh == Req \ alloc

Init ==
  /\ in = {} /\ inUsb = {} /\ inflight = {} /\ context = {} /\ udc = {}
  /\ cnt = 0 /\ alloc = {} /\ population = 0
  /\ alive = FALSE /\ grace = FALSE /\ epOn = FALSE /\ epKnown = FALSE
  /\ ppc = "idle" /\ preq = NoReq /\ lone = FALSE /\ gateArmed = FALSE
  /\ periods = 0 /\ listed = 0 /\ targets = {}
  /\ wpc = "idle" /\ wreq = NoReq
  /\ cpc = [r \in Req |-> "none"] /\ cstat = [r \in Req |-> "ok"]
  /\ stop = {} /\ sm = "idle" /\ smAlive = 0 /\ drains = 0

-----------------------------------------------------------------------------
(***************************************************************************)
(* The UDC gives a request back: its completion handler starts.            *)
(***************************************************************************)
Giveback(S, status) ==
  /\ udc' = udc \ S
  /\ cpc' = [r \in Req |-> IF r \in S THEN "entry" ELSE cpc[r]]
  /\ cstat' = [r \in Req |-> IF r \in S THEN status ELSE cstat[r]]

\* usb_ep_dequeue: a request the controller holds completes with -ECONNRESET,
\* any other request is refused
EpDequeue(r) == Giveback({r} \cap udc, "reset")

(***************************************************************************)
(* rfnm_usb_rx_stage_gated, and the starvation test of the deadline flush. *)
(***************************************************************************)
StageGated == cnt >= Cap \/ (~alive /\ ~grace /\ cnt >= StaleCap)
Starved    == cnt >= Cap \/ (cnt > 0 /\ in = {})

(***************************************************************************)
(* Producer, full packet: look at the first pooled request under the lock, *)
(* copy its list pointers without it, then move it with the copy.  The     *)
(* copy's next pointer is the list head itself when the request was alone; *)
(* unlinking with it then empties the pool, whatever was appended since.   *)
(***************************************************************************)
FullPeek(r) ==
  /\ ppc = "idle" /\ ~StageGated /\ r \in in
  /\ ppc' = "peeked" /\ preq' = r
  /\ UNCHANGED <<lists, track, evars, lone, gateArmed, periods, listed, targets, wvars, cvars, svars>>

FullCopy ==
  /\ ppc = "peeked"
  /\ ppc' = "copied" /\ lone' = (in = {preq})
  /\ UNCHANGED <<lists, track, evars, preq, gateArmed, periods, listed, targets, wvars, cvars, svars>>

FullCommit ==
  /\ ppc = "copied"
  /\ inUsb' = inUsb \cup {preq}
  /\ in' = IF lone THEN {} ELSE in \ {preq}
  /\ ppc' = "idle" /\ preq' = NoReq /\ lone' = FALSE
  /\ UNCHANGED <<inflight, track, evars, gateArmed, periods, listed, targets, wvars, cvars, svars>>

(***************************************************************************)
(* Producer, deadline flush of an aged partial packet.                     *)
(***************************************************************************)
FlushPop(r) ==
  /\ ppc = "idle" /\ ~Starved /\ ~StageGated /\ r \in in
  /\ in' = in \ {r}
  /\ ppc' = "popped" /\ preq' = r /\ gateArmed' = FALSE /\ periods' = 0
  /\ UNCHANGED <<inUsb, inflight, track, evars, lone, listed, targets, wvars, cvars, svars>>

FlushRefused ==
  /\ ppc = "idle" /\ ~Starved /\ (StageGated \/ in = {})
  /\ gateArmed' = FALSE /\ periods' = 0
  /\ UNCHANGED <<lists, track, evars, ppc, preq, lone, listed, targets, wvars, cvars, svars>>

FlushAdd ==
  /\ ppc = "popped"
  /\ inUsb' = inUsb \cup {preq}
  /\ ppc' = "idle" /\ preq' = NoReq
  /\ UNCHANGED <<in, inflight, track, evars, lone, gateArmed, periods, listed, targets, wvars, cvars, svars>>

(***************************************************************************)
(* Producer, stall detector: starved for 500 ms (time is a choice), recount *)
(* the list; a counter that disagrees is overwritten, a pipeline that      *)
(* agrees but stands still is poked, and swept on the third period.        *)
(***************************************************************************)
DetectArm ==
  /\ ppc = "idle" /\ Starved /\ ~gateArmed
  /\ gateArmed' = TRUE
  /\ UNCHANGED <<lists, track, evars, ppc, preq, lone, periods, listed, targets, wvars, cvars, svars>>

DetectCount ==
  /\ ppc = "idle" /\ Starved /\ gateArmed
  /\ listed' = Cardinality(inflight) /\ ppc' = "recount"
  /\ UNCHANGED <<lists, track, evars, preq, lone, gateArmed, periods, targets, wvars, cvars, svars>>

DetectRepair ==
  /\ ppc = "recount" /\ listed # cnt
  /\ cnt' = listed
  /\ ppc' = "idle" /\ gateArmed' = FALSE /\ listed' = 0
  /\ UNCHANGED <<lists, context, udc, alloc, population, evars, preq, lone, periods, targets, wvars, cvars, svars>>

\* the requests rfnm_usb_in_dequeue_sweep takes down: at most Cap of the list
SweepTargets(S) ==
  /\ S \subseteq inflight
  /\ Cardinality(S) = IF Cardinality(inflight) < Cap THEN Cardinality(inflight) ELSE Cap

\* mutant: the sweep forgets to restart the count of starved periods
DetectStallNoReset(S) ==
  /\ ppc = "recount" /\ listed = cnt /\ alive
  /\ ppc' = "dequeue" /\ periods' = periods + 1
  /\ IF periods + 1 >= SweepAfter THEN SweepTargets(S) ELSE S = {}
  /\ targets' = S /\ gateArmed' = FALSE /\ listed' = 0
  /\ UNCHANGED <<lists, track, evars, preq, lone, wvars, cvars, svars>>

DetectStall(S) ==
  /\ ppc = "recount" /\ listed = cnt
  /\ IF ~alive
     THEN S = {} /\ periods' = periods /\ ppc' = "idle"
     ELSE /\ ppc' = "dequeue"
          /\ IF periods + 1 >= SweepAfter
             THEN SweepTargets(S) /\ periods' = 0
             ELSE periods' = periods + 1 /\ (IF inflight = {} THEN S = {} ELSE \E r \in inflight : S = {r})
  /\ targets' = S /\ gateArmed' = FALSE /\ listed' = 0
  /\ UNCHANGED <<lists, track, evars, preq, lone, wvars, cvars, svars>>

\* completions collapsed for three rate windows with a live consumer
RateSweep(S) ==
  /\ ppc = "idle" /\ alive /\ cnt > 0 /\ SweepTargets(S)
  /\ targets' = S /\ ppc' = "dequeue"
  /\ UNCHANGED <<lists, track, evars, preq, lone, gateArmed, periods, listed, wvars, cvars, svars>>

Dequeue(r) ==
  /\ ppc = "dequeue" /\ r \in targets
  /\ targets' = targets \ {r}
  /\ EpDequeue(r)
  /\ UNCHANGED <<lists, context, cnt, alloc, population, evars, ppc, preq, lone, gateArmed, periods, listed, wvars, svars>>

DequeueDone ==
  /\ ppc = "dequeue" /\ targets = {}
  /\ ppc' = "idle"
  /\ UNCHANGED <<lists, track, evars, preq, lone, gateArmed, periods, listed, targets, wvars, cvars, svars>>

ProducerExit ==
  /\ ppc = "idle" /\ "in" \in stop
  /\ ppc' = "dead" /\ stop' = stop \ {"in"}
  /\ UNCHANGED <<lists, track, evars, preq, lone, gateArmed, periods, listed, targets, wvars, cvars, sm, smAlive, drains>>

-----------------------------------------------------------------------------
(***************************************************************************)
(* USB worker, IN direction: unlink a staged request, track it, count it,  *)
(* queue it.  A queueing that fails is untracked again; the request goes   *)
(* back to the pool, or dies with its endpoint.                            *)
(***************************************************************************)
UsbTake(r) ==
  /\ wpc = "idle" /\ r \in inUsb
  /\ inUsb' = inUsb \ {r}
  /\ wpc' = "took" /\ wreq' = r
  /\ UNCHANGED <<in, inflight, track, evars, pvars, cvars, svars>>

UsbTrack ==
  /\ wpc = "took"
  /\ context' = context \cup {wreq} /\ inflight' = inflight \cup {wreq}
  /\ wpc' = "tracked"
  /\ UNCHANGED <<in, inUsb, udc, cnt, alloc, population, evars, pvars, wreq, cvars, svars>>

UsbCount ==
  /\ wpc = "tracked"
  /\ cnt' = cnt + 1 /\ wpc' = "counted"
  /\ UNCHANGED <<lists, context, udc, alloc, population, evars, pvars, wreq, cvars, svars>>

UsbQueue ==
  /\ wpc = "counted" /\ epOn
  /\ udc' = udc \cup {wreq}
  /\ wpc' = "idle" /\ wreq' = NoReq
  /\ UNCHANGED <<lists, context, cnt, alloc, population, evars, pvars, cvars, svars>>

\* a disabled endpoint refuses with -ESHUTDOWN, an enabled one may fail transiently
UsbQueueFail ==
  /\ wpc = "counted"
  /\ inflight' = inflight \ {wreq}
  /\ wpc' = IF epOn THEN "failed" ELSE "dying"
  /\ UNCHANGED <<in, inUsb, track, evars, pvars, wreq, cvars, svars>>

\* mutant: a failed queueing is taken off the list and stays counted
UsbUncountSkipped ==
  /\ wpc \in {"failed", "dying"}
  /\ context' = context \ {wreq}
  /\ wpc' = IF wpc = "failed" THEN "recycle" ELSE "discard"
  /\ UNCHANGED <<lists, udc, cnt, alloc, population, evars, pvars, wreq, cvars, svars>>

UsbUncount ==
  /\ wpc \in {"failed", "dying"}
  /\ cnt' = cnt - 1 /\ context' = context \ {wreq}
  /\ wpc' = IF wpc = "failed" THEN "recycle" ELSE "discard"
  /\ UNCHANGED <<lists, udc, alloc, population, evars, pvars, wreq, cvars, svars>>

UsbRecycle ==
  /\ wpc = "recycle"
  /\ in' = in \cup {wreq}
  /\ wpc' = "idle" /\ wreq' = NoReq
  /\ UNCHANGED <<inUsb, inflight, track, evars, pvars, cvars, svars>>

UsbDiscard ==
  /\ wpc = "discard"
  /\ alloc' = alloc \ {wreq} /\ population' = population - 1
  /\ wpc' = "idle" /\ wreq' = NoReq
  /\ UNCHANGED <<lists, context, udc, cnt, evars, pvars, cvars, svars>>

UsbExit ==
  /\ wpc = "idle" /\ "usb" \in stop
  /\ wpc' = "dead" /\ stop' = stop \ {"usb"}
  /\ UNCHANGED <<lists, track, evars, pvars, wreq, cvars, sm, smAlive, drains>>

-----------------------------------------------------------------------------
(***************************************************************************)
(* rfnm_submit_usb_req_in, the completion handler.  It untracks first,     *)
(* counts down, and only then looks at the status.  A request queued by    *)
(* the endpoint start carries no context: its element is allocated here,   *)
(* and when that fails the request is dropped on the floor.                *)
(***************************************************************************)
Complete(r, status) ==
  /\ r \in udc /\ status \in {"ok", "reset"}
  /\ Giveback({r}, status)
  /\ UNCHANGED <<lists, context, cnt, alloc, population, evars, pvars, wvars, svars>>

HandlerReturn(r) == cpc' = [cpc EXCEPT ![r] = "none"] /\ cstat' = [cstat EXCEPT ![r] = "ok"]

\* mutant: the pool gets the request back while its handler still runs
HandlerUntrackPools(r) ==
  /\ cpc[r] = "entry" /\ r \in context
  /\ context' = context \ {r} /\ inflight' = inflight \ {r} /\ in' = in \cup {r}
  /\ cpc' = [cpc EXCEPT ![r] = "dec"]
  /\ UNCHANGED <<inUsb, udc, cnt, alloc, population, evars, pvars, wvars, cstat, svars>>

\* mutant: -ESHUTDOWN returns before the accounting, list and counter leak together
HandlerUntrackLate(r) ==
  /\ cpc[r] = "entry" /\ r \in context
  /\ IF cstat[r] = "shutdown"
     THEN HandlerReturn(r) /\ UNCHANGED <<context, inflight>>
     ELSE /\ context' = context \ {r} /\ inflight' = inflight \ {r}
          /\ cpc' = [cpc EXCEPT ![r] = "dec"] /\ UNCHANGED cstat
  /\ UNCHANGED <<in, inUsb, udc, cnt, alloc, population, evars, pvars, wvars, svars>>

HandlerUntrack(r) ==
  /\ cpc[r] = "entry" /\ r \in context
  /\ context' = context \ {r} /\ inflight' = inflight \ {r}
  /\ cpc' = [cpc EXCEPT ![r] = "dec"]
  /\ UNCHANGED <<in, inUsb, udc, cnt, alloc, population, evars, pvars, wvars, cstat, svars>>

HandlerAdopt(r) ==
  /\ cpc[r] = "entry" /\ r \notin context
  /\ \/ cpc' = [cpc EXCEPT ![r] = "finish"] /\ population' = population + 1 /\ UNCHANGED cstat
     \/ HandlerReturn(r) /\ UNCHANGED population
  /\ UNCHANGED <<lists, context, udc, cnt, alloc, evars, pvars, wvars, svars>>

HandlerDec(r) ==
  /\ cpc[r] = "dec"
  /\ cnt' = cnt - 1 /\ cpc' = [cpc EXCEPT ![r] = "finish"]
  /\ UNCHANGED <<lists, context, udc, alloc, population, evars, pvars, wvars, cstat, svars>>

\* mutant: a dequeued request (-ECONNRESET) is not recycled
HandlerRecycleOk(r) ==
  /\ cpc[r] = "finish" /\ cstat[r] # "shutdown"
  /\ in' = (IF cstat[r] = "ok" THEN in \cup {r} ELSE in) /\ epKnown' = TRUE
  /\ alive' = (alive \/ cstat[r] = "ok")
  /\ grace' = (grace /\ cstat[r] # "ok")
  /\ HandlerReturn(r)
  /\ UNCHANGED <<inUsb, inflight, track, epOn, pvars, wvars, svars>>

\* status 0 is the only proof of a reading host; -ESHUTDOWN frees the request
HandlerRecycle(r) ==
  /\ cpc[r] = "finish" /\ cstat[r] # "shutdown"
  /\ in' = in \cup {r} /\ epKnown' = TRUE
  /\ alive' = (alive \/ cstat[r] = "ok")
  /\ grace' = (grace /\ cstat[r] # "ok")
  /\ HandlerReturn(r)
  /\ UNCHANGED <<inUsb, inflight, track, epOn, pvars, wvars, svars>>

HandlerFree(r) ==
  /\ cpc[r] = "finish" /\ cstat[r] = "shutdown"
  /\ alloc' = alloc \ {r} /\ population' = population - 1
  /\ HandlerReturn(r)
  /\ UNCHANGED <<lists, context, udc, cnt, evars, pvars, wvars, svars>>

-----------------------------------------------------------------------------
(***************************************************************************)
(* The gadget function: disabling the endpoints gives every queued request *)
(* back with -ESHUTDOWN; enabling them queues fresh zero-length requests,  *)
(* fewer than Qlen when an allocation fails.  A SET_INTERFACE does both.   *)
(***************************************************************************)
EpDisable ==
  /\ epOn /\ epOn' = FALSE
  /\ Giveback(udc, "shutdown")
  /\ UNCHANGED <<lists, context, cnt, alloc, population, alive, grace, epKnown, pvars, wvars, svars>>

EpEnable(S) ==
  /\ ~epOn /\ epOn' = TRUE
  /\ S \subseteq Fresh /\ Cardinality(S) <= Qlen
  /\ udc' = udc \cup S /\ alloc' = alloc \cup S
  /\ UNCHANGED <<lists, context, cnt, population, alive, grace, epKnown, pvars, wvars, cvars, svars>>

\* HZ passes without a status-0 completion; the head-grace deadline passes
ConsumerStale ==
  /\ alive /\ alive' = FALSE
  /\ UNCHANGED <<lists, track, grace, epOn, epKnown, pvars, wvars, cvars, svars>>

GraceExpires ==
  /\ grace /\ grace' = FALSE
  /\ UNCHANGED <<lists, track, alive, epOn, epKnown, pvars, wvars, cvars, svars>>

-----------------------------------------------------------------------------
(***************************************************************************)
(* __rfnm_restart_sm(1): stop the workers, top the pool up, drain what is  *)
(* in flight, recycle what is staged, start the workers.                   *)
(***************************************************************************)
Workers == {ppc, wpc}

RestartBegin ==
  /\ sm = "idle" /\ sm' = "stop"
  /\ stop' = IF Workers = {"dead"} THEN stop ELSE {"in", "usb"}
  /\ UNCHANGED <<lists, track, evars, pvars, wvars, cvars, smAlive, drains>>

\* stop_sm gives up after 1500 ms and leaves the flags raised
RestartTimeout ==
  /\ sm = "stop" /\ Workers # {"dead"}
  /\ sm' = "idle"
  /\ UNCHANGED <<lists, track, evars, pvars, wvars, cvars, stop, smAlive, drains>>

\* mutant: the reset goes ahead without waiting for the workers
TopupReadEager ==
  /\ sm = "stop"
  /\ stop' = {}
  /\ sm' = IF epKnown THEN "topup" ELSE "drain"
  /\ smAlive' = IF epKnown THEN cnt ELSE 0
  /\ UNCHANGED <<lists, track, evars, pvars, wvars, cvars, drains>>

\* rfnm_usb_in_pool_topup reads the counter first ...
TopupRead ==
  /\ sm = "stop" /\ Workers = {"dead"}
  /\ stop' = {}
  /\ sm' = IF epKnown THEN "topup" ELSE "drain"
  /\ smAlive' = IF epKnown THEN cnt ELSE 0
  /\ UNCHANGED <<lists, track, evars, pvars, wvars, cvars, drains>>

\* mutant: minted requests are not entered in req_created
TopupMintUncounted(S) ==
  /\ sm = "topup"
  /\ S \subseteq Fresh
  /\ S # {} => Cardinality(S) <= Cap - (smAlive + Cardinality(in))
  /\ in' = in \cup S /\ alloc' = alloc \cup S
  /\ sm' = "drain" /\ smAlive' = 0
  /\ UNCHANGED <<inUsb, inflight, context, udc, cnt, population, evars, pvars, wvars, cvars, stop, drains>>

\* ... then walks the pool and mints the difference, less on a failed allocation
TopupMint(S) ==
  /\ sm = "topup"
  /\ S \subseteq Fresh
  /\ S # {} => Cardinality(S) <= Cap - (smAlive + Cardinality(in))
  /\ in' = in \cup S /\ alloc' = alloc \cup S /\ population' = population + Cardinality(S)
  /\ sm' = "drain" /\ smAlive' = 0
  /\ UNCHANGED <<inUsb, inflight, context, udc, cnt, evars, pvars, wvars, cvars, stop, drains>>

DrainOne(r) ==
  /\ sm = "drain" /\ drains < DrainMax /\ r \in inflight
  /\ drains' = drains + 1
  /\ EpDequeue(r)
  /\ UNCHANGED <<lists, context, cnt, alloc, population, evars, pvars, wvars, stop, sm, smAlive>>

DrainEnd ==
  /\ sm = "drain" /\ (inflight = {} \/ drains = DrainMax)
  /\ sm' = "recycle" /\ drains' = 0
  /\ UNCHANGED <<lists, track, evars, pvars, wvars, cvars, stop, smAlive>>

\* mutant: the staged requests are pooled and stay staged
RecycleStagedKeeps ==
  /\ sm = "recycle"
  /\ in' = in \cup inUsb
  /\ grace' = TRUE /\ gateArmed' = FALSE /\ stop' = {}
  /\ sm' = "start"
  /\ UNCHANGED <<inUsb, inflight, track, alive, epOn, epKnown, ppc, preq, lone, periods, listed, targets, wvars, cvars, smAlive, drains>>

RecycleStaged ==
  /\ sm = "recycle"
  /\ in' = in \cup inUsb /\ inUsb' = {}
  /\ grace' = TRUE /\ gateArmed' = FALSE /\ stop' = {}
  /\ sm' = "start"
  /\ UNCHANGED <<inflight, track, alive, epOn, epKnown, ppc, preq, lone, periods, listed, targets, wvars, cvars, smAlive, drains>>

StartWorkers ==
  /\ sm = "start"
  /\ ppc' = "idle" /\ wpc' = "idle" /\ sm' = "idle"
  /\ UNCHANGED <<lists, track, evars, preq, lone, gateArmed, periods, listed, targets, wreq, cvars, stop, smAlive, drains>>

-----------------------------------------------------------------------------
Producer ==
  \/ \E r \in Req : FullPeek(r) \/ FlushPop(r) \/ Dequeue(r)
  \/ FullCopy \/ FullCommit \/ FlushRefused \/ FlushAdd
  \/ DetectArm \/ DetectCount \/ DetectRepair
  \/ \E S \in SUBSET Req : DetectStall(S) \/ RateSweep(S)
  \/ DequeueDone \/ ProducerExit

UsbWorker ==
  \/ \E r \in Req : UsbTake(r)
  \/ UsbTrack \/ UsbCount \/ UsbQueue \/ UsbQueueFail \/ UsbUncount \/ UsbRecycle \/ UsbDiscard \/ UsbExit

Completion ==
  \E r \in Req :
    \/ \E status \in Status : Complete(r, status)
    \/ HandlerUntrack(r) \/ HandlerAdopt(r) \/ HandlerDec(r)
    \/ HandlerRecycle(r) \/ HandlerFree(r)

Host == EpDisable \/ (\E S \in SUBSET Req : EpEnable(S)) \/ ConsumerStale \/ GraceExpires

Restart ==
  \/ RestartBegin \/ RestartTimeout \/ TopupRead
  \/ \E S \in SUBSET Req : TopupMint(S)
  \/ \E r \in Req : DrainOne(r)
  \/ DrainEnd \/ RecycleStaged \/ StartWorkers

Next == Producer \/ UsbWorker \/ Completion \/ Host \/ Restart

Spec == Init /\ [][Next]_vars

-----------------------------------------------------------------------------
FlagsOK ==
  /\ alive \in BOOLEAN /\ grace \in BOOLEAN /\ epOn \in BOOLEAN /\ epKnown \in BOOLEAN
  /\ lone \in BOOLEAN /\ gateArmed \in BOOLEAN

\* Every variable keeps its type; the pools and the hands hold requests only.
TypeOK ==
  /\ FlagsOK
  /\ in \subseteq Req /\ inUsb \subseteq Req /\ inflight \subseteq Req
  /\ context \subseteq Req /\ udc \subseteq Req /\ alloc \subseteq Req /\ targets \subseteq Req
  /\ cnt \in Int /\ population \in Int /\ listed \in Nat /\ smAlive \in Int
  /\ ppc \in ProducerPc /\ preq \in Req \cup {NoReq}
  /\ periods \in 0..(SweepAfter - 1)
  /\ wpc \in WorkerPc /\ wreq \in Req \cup {NoReq}
  /\ cpc \in [Req -> HandlerPc] /\ cstat \in [Req -> Status]
  /\ stop \subseteq {"in", "usb"} /\ sm \in RestartPc /\ drains \in 0..DrainMax

(***************************************************************************)
(* A request has one holder.  It is in one list, or in one thread's hand,  *)
(* or in its completion handler; what the pool or the stage holds is not   *)
(* armed at the controller and has no handler still running on it ("pool   *)
(* re-add LAST ... re-adding earlier let the stager on another CPU reuse   *)
(* the request while this handler still ran").                             *)
(***************************************************************************)
OneHolder ==
  /\ in \cap (inUsb \cup inflight \cup PoppedReq \cup WorkerReq \cup HandlerReq) = {}
  /\ inUsb \cap (inflight \cup PoppedReq \cup WorkerReq \cup HandlerReq) = {}
  /\ inflight \cap (PoppedReq \cup WorkerReq \cup HandlerReq) = {}
  /\ PoppedReq \cap (WorkerReq \cup HandlerReq) = {}
  /\ WorkerReq \cap HandlerReq = {}
  /\ \A r \in udc \cup {q \in Req : cpc[q] = "entry"} :
        r \notin in \cup inUsb \cup PoppedReq \cup WorkerReq \cup HandlerReq
  /\ \A r \in udc : cpc[r] = "none"

(***************************************************************************)
(* The in-flight counter against the list.  Counted are the requests whose *)
(* +1 is in cnt and whose -1 is not: the list, without the one the worker  *)
(* has tracked and not yet counted, with the ones unlinked and not yet     *)
(* counted down.                                                           *)
(***************************************************************************)
Counted ==
  (inflight \ {r \in Req : wpc = "tracked" /\ wreq = r})
    \cup {r \in Req : cpc[r] = "dec"}
    \cup {r \in Req : wpc \in {"failed", "dying"} /\ wreq = r}

Drift == cnt - Cardinality(Counted)

\* Every path that tracks or untracks a request settles the counter exactly
\* once, teardown and failed queueing included; only the detector's own repair
\* can set counter and list apart.
DriftOnlyByRepair == [][DetectRepair \/ Drift' = Drift]_vars

\* births - deaths, against what the lists and the threads hold
Missing == population - Cardinality(Held)

\* No thread loses or forges a request, whatever fails on the way, save the
\* full-packet ship whose copied pointers said "alone" while a completion
\* appended another request to the pool.
LossOnlyByStaleCopy ==
  [][(FullCommit /\ lone /\ in # {preq}) \/ Missing' = Missing]_vars
=============================================================================
