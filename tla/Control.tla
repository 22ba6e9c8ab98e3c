------------------------------ MODULE Control ------------------------------
(***************************************************************************)
(* The control plane, from a client's verb to the radio: the verbs of      *)
(* rfnm_usb_function.c (USB setup requests, Ethernet control frames, local *)
(* ioctls), the channel-list applies of rfnm_daughterboard.c, the stream   *)
(* call of rfnm_lalib.c they end in, on top of the session jobs as module  *)
(* SessionService promises them (module Session implements it).            *)
(*                                                                         *)
(* A client numbers the lists it sends in a session 1, 2, ... (cc), sends  *)
(* them without an answer, and polls the result block until it shows the   *)
(* cc: that is the only confirmation there is.  Every session starts again *)
(* at 1.  A list is the session and the cc it was sent with; whether it    *)
(* enables its channel is chosen when it is first read.  res keeps, with   *)
(* each published result, the list whose cc it carries and the list that   *)
(* was applied.                                                            *)
(***************************************************************************)
EXTENDS SessionService, DcsPlan

CONSTANTS MaxSess,    \* bound: sessions opened
          MaxRx,      \* bound: RX lists sent per session
          MaxTx,      \* bound: TX lists sent per session
          Rates,      \* sample rates a client asks for (units of 125 Hz)
          Fdx         \* some registered VSPA kernel does FDX_CONCURRENT

ASSUME BoundsAssumption ==
  /\ MaxSess \in Nat \ {0} /\ MaxRx \in Nat /\ MaxTx \in Nat
  /\ Rates \subseteq Nat /\ Fdx \in BOOLEAN

Dir == {"rx", "tx"}

MaxCc   == [rx |-> MaxRx, tx |-> MaxTx]
List    == [sess : 0..MaxSess, cc : 0..(MaxRx + MaxTx)]
NoList  == [sess |-> 0, cc |-> 0]
Result  == [of : List, took : List, ok : BOOLEAN]
NoRes   == [of |-> NoList, took |-> NoList, ok |-> FALSE]
BootRate == 983040    \* 122.88 MHz, rate and clock at load

VARIABLES
  up,       \* rfnm_bringup_complete
  sess,     \* sessions opened so far; the last one is the client's
  open,     \* the client believes it is open
  sent,     \* the cc of its last list, per direction
  list,     \* r_rx_chlist_work, r_tx_chlist_work
  queued,   \* the directions whose work is pending
  wpc,      \* where each apply work is
  alock,    \* the directions holding rfnm_chlist_apply_lock
  took,     \* the list a work has read and applied
  good,     \* its ecodes are all 0
  flag,     \* rfnm_tx_dac_s, rfnm_rx_adc_s: the directions to stream
  res,      \* rfnm_dev_work_res
  rate,     \* rfnm_user_samp_rate_hz
  clk,      \* the si5510's DCS frequency, 0 if unknown
  target    \* the clock the running stream call is after, 0 if none

cvars == <<up, sess, open, sent, list, queued, wpc, alock, took, good, flag,
           res, rate, clk, target>>
vars == <<job, res0, ok, up, sess, open, sent, list, queued, wpc, alock, took,
          good, flag, res, rate, clk, target>>

client == <<sess, open, sent>>
works  == <<list, queued, wpc, alock, took, good>>
clock  == <<clk, target>>

TypeOK ==
  /\ SSTypeOK
  /\ up \in BOOLEAN /\ open \in BOOLEAN
  /\ sess \in 0..MaxSess /\ (\A d \in Dir : sent[d] \in 0..MaxCc[d])
  /\ list \in [Dir -> List] /\ took \in [Dir -> List] /\ res \in [Dir -> Result]
  /\ queued \subseteq Dir /\ flag \subseteq Dir
  /\ alock \subseteq Dir /\ good \in [Dir -> BOOLEAN]
  /\ wpc \in [Dir -> {"idle", "lock", "wait", "copy", "stream", "reset", "swap", "again", "send", "publish"}]
  /\ rate \in Nat /\ clk \in Nat /\ target \in Nat

Init ==
  /\ SSInit
  /\ up = FALSE /\ sess = 0 /\ open = FALSE /\ sent = [d \in Dir |-> 0]
  /\ list = [d \in Dir |-> NoList] /\ queued = {} /\ alock = {}
  /\ wpc = [d \in Dir |-> "idle"] /\ took = [d \in Dir |-> NoList]
  /\ good = [d \in Dir |-> TRUE]
  /\ flag = {}
  /\ res = [d \in Dir |-> NoRes]
  /\ rate = BootRate /\ clk = BootRate /\ target = 0

(***************************************************************************)
(* What the session jobs do to the configuration.                          *)
(***************************************************************************)

\* rfnm_dgb_reset_sm: flags, enables and results die with the session;
\* pending applies are not cancelled.
BoardReset ==
  /\ flag' = {}
  /\ res' = [d \in Dir |-> NoRes]
  /\ UNCHANGED <<up, client, works, rate, clock>>

\* The reprobe programs the clock first, 122.88 MHz for the hard-reset
\* verb; a reset that fails may have failed before it, in it, when the si5510
\* driver no longer knows its clock, or behind it.
Clock(j) ==
  /\ clk' \in {IF j = "hard" THEN BootRate ELSE target}
              \cup (IF res0'[j] THEN {} ELSE {clk, 0})
  /\ UNCHANGED <<up, client, works, flag, res, rate, target>>

JobNext(j) ==
  \/ j \in Restarts /\ Commit(j) /\ BoardReset
  \/ j \in Resets /\ (Commit(j) \/ Abort(j)) /\ Clock(j)
  \/ j \in Restarts /\ Abort(j) /\ UNCHANGED cvars
  \/ j = "apply" /\ CommitBadly /\ UNCHANGED cvars
  \/ Done(j) /\ UNCHANGED cvars
  \/ j \in {"work", "hard"} /\ Take(j) /\ UNCHANGED cvars

(***************************************************************************)
(* Opening a session.                                                      *)
(***************************************************************************)

NewSession ==
  /\ sess' = sess + 1 /\ open' = TRUE /\ sent' = [d \in Dir |-> 0]

\* Before bring-up is signalled every open is refused, whatever the transport.
MayOpen == up /\ sess < MaxSess /\ job["call"] = "idle"

\* USB: the answer comes at once, the restart later; -EBUSY opens nothing.
OpenUsb ==
  /\ MayOpen
  /\ Ask("work")
  /\ NewSession
  /\ flag' = {} /\ res' = [d \in Dir |-> NoRes]
  /\ UNCHANGED <<up, works, rate, clock>>

\* Ethernet and local clients wait for the restart.
OpenCall ==
  /\ MayOpen
  /\ Ask("call")
  /\ open' = FALSE
  /\ UNCHANGED <<up, sess, sent, works, flag, res, rate, clock>>

\* The Ethernet answer is OK whatever the restart returned, ...
EthAnswer ==
  /\ Take("call") /\ NewSession
  /\ UNCHANGED <<up, works, flag, res, rate, clock>>

\* ... the ioctl's is -EBUSY when it failed.
LocalAnswer ==
  /\ Take("call")
  /\ IF res0["call"] THEN NewSession ELSE UNCHANGED client
  /\ UNCHANGED <<up, works, flag, res, rate, clock>>

\* The boot script writes bringup_complete, or the 60 s work does.
BringUp ==
  /\ ~up /\ up' = TRUE
  /\ UNCHANGED <<ssvars, client, works, flag, res, rate, clock>>

HardResetVerb == Ask("hard") /\ UNCHANGED cvars

(***************************************************************************)
(* The SET verbs.  A verb that finds the session dead or its generation    *)
(* stale is dropped without a word.                                        *)
(***************************************************************************)

Sends(d) ==
  /\ job["call"] = "idle" /\ open /\ sent[d] < MaxCc[d]
  /\ sent' = [sent EXCEPT ![d] = @ + 1]
  /\ UNCHANGED <<sess, open>>

\* The verb is dropped: the session is dead or stale, or the data stage died
\* on the way.
Dropped(d) ==
  /\ Sends(d)
  /\ UNCHANGED <<ssvars, up, works, flag, res, rate, clock>>

\* rfnm_apply_dev_rx_chlist: the list is overwritten under whatever the work
\* is doing, and the work queued (once).
ApplyRx ==
  /\ up /\ ok
  /\ Sends("rx")
  /\ list' = [list EXCEPT !["rx"] = [sess |-> sess, cc |-> sent["rx"] + 1]]
  /\ queued' = queued \cup {"rx"}
  /\ UNCHANGED <<ssvars, up, wpc, alock, took, good, flag, res, rate, clock>>

\* Mutant: the pending work is not cancelled, a running one not waited for.
ApplyTxNoCancel ==
  /\ up /\ ok
  /\ Sends("tx")
  /\ list' = [list EXCEPT !["tx"] = [sess |-> sess, cc |-> sent["tx"] + 1]]
  /\ queued' = queued \cup {"tx"}
  /\ UNCHANGED <<ssvars, up, wpc, alock, took, good, flag, res, rate, clock>>

\* rfnm_apply_dev_tx_chlist: cancel_work_sync drops a pending work and waits
\* for a running one before the list changes.
ApplyTx ==
  /\ ok
  /\ wpc["tx"] = "idle"
  /\ Sends("tx")
  /\ list' = [list EXCEPT !["tx"] = [sess |-> sess, cc |-> sent["tx"] + 1]]
  /\ queued' = queued \cup {"tx"}
  /\ UNCHANGED <<ssvars, up, wpc, alock, took, good, flag, res, rate, clock>>

\* rfnm_set_samp_rate_user: stamped at once; the clock moves with the next
\* apply.
SetRate(r) ==
  /\ job["call"] = "idle" /\ open /\ up /\ ok
  /\ rate # r /\ RateOk(r)
  /\ rate' = r
  /\ UNCHANGED <<ssvars, up, client, works, flag, res, clock>>

(***************************************************************************)
(* The apply work of one direction.                                        *)
(***************************************************************************)

At(d, p) == wpc[d] = p
To(d, p) == wpc' = [wpc EXCEPT ![d] = p]

WorkBegins(d) ==
  /\ d \in queued /\ At(d, "idle")
  /\ queued' = queued \ {d} /\ To(d, "lock")
  /\ UNCHANGED <<ssvars, up, client, list, alock, took, good, flag, res, rate, clock>>

LockApply(d) ==
  /\ At(d, "lock") /\ alock = {}
  /\ alock' = {d} /\ To(d, "wait")
  /\ UNCHANGED <<ssvars, up, client, list, queued, took, good, flag, res, rate, clock>>

\* rfnm_wait_restart_sm_idle, ...
Idle(d) ==
  /\ At(d, "wait") /\ job["work"] = "idle"
  /\ To(d, "copy")
  /\ UNCHANGED <<ssvars, up, client, list, queued, alock, took, good, flag, res, rate, clock>>

\* Mutant: the early return forgets the answer.
IdleTimeoutSilent(d) ==
  /\ At(d, "wait") /\ job["work"] # "idle"
  /\ alock' = {} /\ To(d, "idle")
  /\ UNCHANGED <<ssvars, up, client, list, queued, took, good, flag, res, rate, clock>>

\* ... which gives up after 15 s: the cc is answered with TIMEOUT.
IdleTimeout(d) ==
  /\ At(d, "wait") /\ job["work"] # "idle"
  /\ res' = [res EXCEPT ![d] = [of |-> list[d], took |-> list[d], ok |-> FALSE]]
  /\ alock' = {} /\ To(d, "idle")
  /\ UNCHANGED <<ssvars, up, client, list, queued, took, good, flag, rate, clock>>

\* A channel that is missing, or a field out of its range, or the board driver
\* refuses the list: the flag stays as it was.
Rejected(d) == good' = [good EXCEPT ![d] = FALSE] /\ UNCHANGED flag

\* The list is validated, copied into the board struct and applied by the
\* board driver (module LimeBoard); the stream flag follows the enable.
Copy(d) ==
  /\ At(d, "copy")
  /\ took' = [took EXCEPT ![d] = list[d]]
  /\ \/ flag' \in {flag \cup {d}, flag \ {d}} /\ UNCHANGED good
     \/ Rejected(d)
  /\ To(d, "stream")
  /\ UNCHANGED <<ssvars, up, client, list, queued, alock, res, rate, clock>>

Fails(d) == good' = [good EXCEPT ![d] = FALSE] /\ To(d, "publish")

\* rfnm_la9310_stream: no plan, no such clock or no kernel with the plan's
\* capabilities is an error; a new clock is a hard reset; a plan the running
\* kernel (module VspaRegistry) cannot do on this clock is a kernel swap.
StreamPlan(d) ==
  LET p == Plan(rate, flag, Fdx)
  IN  /\ At(d, "stream")
      /\ \/ /\ p = NoPlan \/ p.dcs # clk
            /\ Fails(d) /\ UNCHANGED <<ssvars, target>>
         \/ /\ p # NoPlan /\ p.dcs # clk /\ Synthesizable(p.dcs)
            /\ Ask("apply") /\ To(d, "reset") /\ target' = p.dcs /\ UNCHANGED good
         \/ /\ p # NoPlan /\ p.dcs = clk
            /\ Ask("apply") /\ To(d, "swap") /\ target' = p.dcs /\ UNCHANGED good
         \/ /\ p # NoPlan /\ p.dcs = clk
            /\ To(d, "send") /\ UNCHANGED <<good, ssvars, target>>
      /\ UNCHANGED <<up, client, list, queued, alock, took, flag, res, rate, clk>>

ResetReturns(d) ==
  /\ At(d, "reset") /\ Take("apply")
  /\ IF res0["apply"] THEN To(d, "send") /\ UNCHANGED good ELSE Fails(d)
  /\ target' = 0
  /\ UNCHANGED <<up, client, list, queued, alock, took, flag, res, rate, clk>>

\* A failed swap falls back to the chip reset on the same clock, if a kernel
\* can be selected for it.
SwapReturns(d) ==
  /\ At(d, "swap") /\ Take("apply")
  /\ To(d, IF res0["apply"] THEN "send" ELSE "again")
  /\ target' = IF res0["apply"] THEN 0 ELSE target
  /\ UNCHANGED <<up, client, list, queued, alock, took, good, flag, res, rate, clk>>

SwapAgain(d) ==
  /\ At(d, "again")
  /\ \/ Ask("apply") /\ To(d, "reset") /\ UNCHANGED <<good, target>>
     \/ Fails(d) /\ target' = 0 /\ UNCHANGED ssvars
  /\ UNCHANGED <<up, client, list, queued, alock, took, flag, res, rate, clk>>

\* The word goes out (module StreamWord), or the send fails.
Send(d) ==
  /\ At(d, "send")
  /\ \/ To(d, "publish") /\ UNCHANGED good
     \/ Fails(d)
  /\ UNCHANGED <<ssvars, up, client, list, queued, alock, took, flag, res, rate, clock>>

\* The result carries the cc the list has now.
Publish(d) ==
  /\ At(d, "publish")
  /\ res' = [res EXCEPT ![d] = [of |-> list[d], took |-> took[d], ok |-> good[d]]]
  /\ took' = [took EXCEPT ![d] = NoList] /\ good' = [good EXCEPT ![d] = TRUE]
  /\ alock' = {} /\ To(d, "idle")
  /\ UNCHANGED <<ssvars, up, client, list, queued, flag, rate, clock>>

\* The idle TX park, outside the apply lock: no consumer shows life on any
\* transport, and an armed TX channel is switched off.
Park ==
  /\ "tx" \in flag
  /\ flag' = flag \ {"tx"}
  /\ UNCHANGED <<ssvars, up, client, works, res, rate, clock>>

WorkNext(d) ==
  \/ WorkBegins(d) \/ LockApply(d) \/ Idle(d) \/ IdleTimeout(d) \/ Copy(d)
  \/ StreamPlan(d) \/ ResetReturns(d) \/ SwapReturns(d) \/ SwapAgain(d)
  \/ Send(d) \/ Publish(d)

\* The transports.  Their GET verbs only copy state out; SET verbs are the
\* same for all three, and only a USB data stage can be lost.
UsbSetup   == OpenUsb \/ HardResetVerb \/ \E d \in Dir : Dropped(d)
EthControl == OpenCall \/ EthAnswer
LocalIoctl == OpenCall \/ LocalAnswer
SetVerbs   == ApplyRx \/ ApplyTx \/ \E r \in Rates : SetRate(r)

Next ==
  \/ BringUp \/ UsbSetup \/ EthControl \/ LocalIoctl \/ SetVerbs
  \/ \E d \in Dir : WorkNext(d)
  \/ \E j \in Jobs : JobNext(j)
  \/ (Lapse \/ \E j \in Resets : CarryOver(j)) /\ UNCHANGED cvars
  \/ Park

(***************************************************************************)
(* Fairness: works run, the apply mutex is handed to its waiters, and the  *)
(* reset or swap an apply waits for returns (Session: every wait of a job  *)
(* is timed).  Nothing is assumed of the client, of the other jobs, of the *)
(* chip or of a job's success.                                             *)
(***************************************************************************)
Fairness ==
  /\ WF_vars(JobNext("apply"))
  /\ \A d \in Dir : WF_vars(WorkNext(d)) /\ SF_vars(LockApply(d))

Spec == Init /\ [][Next]_vars /\ Fairness

(***************************************************************************)
(* Properties.                                                             *)
(***************************************************************************)

\* TxTruth: the cc a TX result carries is that of the list that was applied:
\* no list slips in between reading it and stamping the answer, which is
\* what the synchronous cancel is for (rfnm_daughterboard.c:798, :675).
TxTruth == res["tx"].of = res["tx"].took

\* HonestRate: a rate SET_SAMP_RATE has accepted on the strength of the
\* RX-only plan also has a plan, and one the si5510 can synthesise, for TX
\* alone (rfnm_lalib.c:821 says any in-range rate has one).
HonestRate ==
  LET p == PlanTx(rate)
  IN  p # NoPlan /\ InWindow(p.dcs) /\ Synthesizable(p.dcs)

\* TxAnswered: the result block comes to show the list that stands, whatever
\* restarts, resets, time-outs and RX applies its work meets: a list the next
\* verb leaves alone is answered under its own cc, with TxTruth for having been
\* applied.  A list that is replaced while its work is pending is not (the
\* cancel drops the work): its client is answered under the newer cc only
\* (rfnm_daughterboard.c:592, :675, :798).
TxAnswered ==
  ("tx" \in queued \/ wpc["tx"] # "idle") ~> (res["tx"].of = list["tx"])

=============================================================================
