------------------------------ MODULE RxServo ------------------------------
(***************************************************************************)
(* The two loops that steer the receiver from the samples: rfnm_agc.c      *)
(* steps the gain, rfnm_qec_main.c nulls the DC offset.  Both write the    *)
(* channel struct and go through the board's apply like any client (module *)
(* LimeBoard), and learn of each other only through two epoch counters.    *)
(*                                                                         *)
(* The null is armed by every RX apply.  It measures, moves each lane by a *)
(* probe, measures again, solves (at most three times) and disarms, or     *)
(* gives up and puts the codes back.  A measurement is clean, or not, and  *)
(* then better or worse than the first.                                    *)
(***************************************************************************)
EXTENDS LimeBoard

CONSTANTS MaxSolves,   \* solves of one null (3 in the code)
          MaxSteps,    \* bound: gain steps of the AGC
          MaxResets    \* bound: session resets

ASSUME StepAssumption == MaxSolves \in Nat /\ MaxSteps \in Nat /\ MaxResets \in Nat


VARIABLES
  applied,    \* rfnm_rx_apply_epoch is not the one the QEC last saw
  stepped,    \* rfnm_rx_gain_epoch is not the one the QEC last saw
  armed,      \* null_armed
  frozen,     \* null_frozen
  pstage,     \* p_stage: 0, 2, 3, 4
  solves,     \* p_solves
  moved,      \* the codes the QEC last applied (trim_i, trim_q) are not those
              \* the stage began with (p_ei, p_eq)
  aim,        \* what the QEC's write is for
  standing,   \* a probe offset is in the codes, neither measured good nor undone
  cut,        \* an epoch has ended a stage with that offset in the codes
  steps, resets

qvars == <<applied, stepped, armed, frozen, pstage, solves, moved, aim,
           standing, cut, steps, resets>>
vars == <<rx, tx, rxs, txs, pc, lock, lb, chip, hz, stage, trim, val, last,
          phys, lists, torn, orphan, applied, stepped, armed, frozen, pstage,
          solves, moved, aim, standing, cut, steps, resets>>
null == <<armed, frozen, pstage, solves, moved, aim, standing, cut>>

TypeOK ==
  /\ BTypeOK
  /\ applied \in BOOLEAN /\ stepped \in BOOLEAN /\ armed \in BOOLEAN
  /\ frozen \in BOOLEAN /\ standing \in BOOLEAN /\ cut \in BOOLEAN
  /\ pstage \in {0, 2, 3, 4} /\ solves \in 0..MaxSolves
  /\ moved \in BOOLEAN
  /\ aim \in {"none", "probe I", "probe Q", "solve", "restore"}
  /\ steps \in 0..MaxSteps /\ resets \in 0..MaxResets

Init ==
  /\ BInit
  /\ applied = FALSE /\ stepped = FALSE /\ armed = FALSE /\ frozen = FALSE
  /\ pstage = 0 /\ solves = 0 /\ moved = FALSE /\ aim = "none"
  /\ standing = FALSE /\ cut = FALSE /\ steps = 0 /\ resets = 0

(***************************************************************************)
(* rfnm_agc.                                                               *)
(***************************************************************************)

\* The peak of a window of slots, against the attack and the decay threshold.
Peak == {"hot", "cold"}

\* agc_level_step: an attack, or a decay below the top.
Level(p) == IF p = "hot" THEN Low ELSE High

\* On a channel that is on and asks for it; the gain is in the struct before
\* the board is asked for its lock.
AgcStep(p) ==
  /\ pc["agc"] = "idle" /\ steps < MaxSteps
  /\ rx.agc /\ rx.enable = "on"
  /\ p = "hot" \/ rx.gain # High
  /\ rx' = [rx EXCEPT !.gain = Level(p)]
  /\ Goes("agc", "want rx")
  /\ steps' = steps + 1
  /\ UNCHANGED <<tx, rxs, txs, lock, lb, chip, hz, stage, trim, val, last, phys,
                 lists, torn, orphan, applied, stepped, null, resets>>

\* A step that went through bumps the gain epoch.
AgcReturns ==
  /\ pc["agc"] \in {"ok", "failed"}
  /\ stepped' = (stepped \/ pc["agc"] = "ok")
  /\ Goes("agc", "idle")
  /\ UNCHANGED <<rx, tx, rxs, txs, lock, lb, chip, hz, stage, trim, val, last,
                 phys, lists, torn, orphan, applied, null, steps, resets>>

(***************************************************************************)
(* rfnm_qec.                                                               *)
(***************************************************************************)

QecAt(p) == pc["qec"] = p
QecTo(p) == Goes("qec", p)
Board == <<rx, tx, rxs, txs, lock, lb, chip, hz, stage, trim, val, last,
           phys, lists, torn, orphan>>

\* p_stage is 0: what the next stage sets anew is dead until then.
StageOver == pstage' = 0 /\ solves' = 0 /\ moved' = FALSE

\* The head of qec_poll: a gain step or an apply makes the probes stale and
\* starts a new window; an apply arms the null.
QecNotices ==
  /\ QecAt("idle") /\ (applied \/ stepped)
  /\ armed' = (armed \/ applied)
  /\ StageOver
  /\ cut' = (cut \/ standing)
  /\ applied' = FALSE /\ stepped' = FALSE
  /\ UNCHANGED <<Board, pc, frozen, aim, standing, steps, resets>>

\* qec_solve: samples come from an applied channel, the drift alarm arms the
\* null again.
QecAlarm ==
  /\ QecAt("idle") /\ ~armed /\ ~frozen /\ rxs.enable # "off"
  /\ armed' = TRUE
  /\ UNCHANGED <<Board, pc, applied, stepped, frozen, pstage, solves, moved,
                 aim, standing, cut, steps, resets>>

\* rfnm_dgb_rx_set_dc: the codes go into the struct, the apply follows.  No
\* write is of the zero pair, the restore of it is of the pair next to it.
SetDc(k) ==
  /\ rx' = [rx EXCEPT !.dc = TRUE] /\ aim' = k
  /\ QecTo("want rx")
  /\ UNCHANGED <<armed, pstage, solves, moved, tx, rxs, txs, lock, lb, chip, hz, stage, trim, val, last, phys,
                 lists, torn, orphan>>

Quiet ==
  /\ armed' = FALSE /\ StageOver
  /\ QecTo("idle")
  /\ UNCHANGED <<Board, aim>>

\* Mutant: a stage given up leaves its probes in place.
GiveUpKeeps(worse) == Quiet

\* Worse than at entry, or nothing was ever solved: the entry codes go back.
GiveUp(worse) ==
  IF (worse \/ solves = 0) /\ moved
  THEN SetDc("restore")
  ELSE Quiet

\* qec_dc_null_step, one measured window: nothing to null; the first probe; the
\* second; nulled; a solve; or given up, for want of solves, an axis or codes.
\* An apply or a gain step may be over that the head of the poll has not seen.
NullStep(clean, worse) ==
  /\ QecAt("idle") /\ armed /\ ~frozen
  /\ \/ pstage # 2 /\ clean /\ Quiet /\ standing' = FALSE /\ cut' = FALSE
     \/ /\ \/ pstage = 0 /\ ~clean /\ SetDc("probe I")
           \/ pstage = 2 /\ SetDc("probe Q")
           \/ /\ pstage \in {3, 4} /\ ~clean /\ solves < MaxSolves
              /\ SetDc("solve")
           \/ pstage \in {3, 4} /\ ~clean /\ GiveUp(worse)
        /\ UNCHANGED <<standing, cut>>
  /\ UNCHANGED <<applied, stepped, frozen, steps, resets>>

\* The stage moves on with the write: a solve replaces the probes, a restore
\* takes them back (to codes that may hold the probe of a stage cut short).
Stage(k) ==
  /\ \/ k = "probe I" /\ pstage' = 2 /\ solves' = 0 /\ moved' = TRUE
     \/ k = "probe Q" /\ pstage' = 3 /\ UNCHANGED <<solves, moved>>
     \/ k = "solve" /\ pstage' = 4 /\ solves' = solves + 1 /\ moved' \in BOOLEAN
     \/ k = "restore" /\ StageOver
  /\ standing' = (k \in {"probe I", "probe Q"} \/ (k = "restore" /\ cut))
  /\ cut' = (cut /\ k # "solve")
  /\ armed' = (k # "restore")

Refused ==
  /\ frozen' = TRUE /\ armed' = FALSE /\ StageOver
  /\ UNCHANGED <<standing, cut>>

\* Mutant: the loop takes its own apply for a client's.
SetDcReturnsUnabsorbed ==
  /\ \/ QecAt("ok") /\ Stage(aim) /\ UNCHANGED frozen
     \/ QecAt("failed") /\ Refused
  /\ aim' = "none" /\ QecTo("idle")
  /\ UNCHANGED <<Board, applied, stepped, steps, resets>>

\* qec_set_dc absorbs the epoch its own apply has bumped, and with it any
\* client's apply that raced it; a refused write freezes the null.
SetDcReturns ==
  /\ \/ QecAt("ok") /\ Stage(aim) /\ UNCHANGED frozen
     \/ QecAt("failed") /\ Refused
  /\ applied' = FALSE
  /\ aim' = "none" /\ QecTo("idle")
  /\ UNCHANGED <<Board, stepped, steps, resets>>

(***************************************************************************)
(* The board under its loops.  The end of an RX apply bumps its epoch.     *)
(***************************************************************************)

Apply(a) ==
  \/ (TuneRx(a) \/ TuneTx(a) \/ RestTx(a)) /\ UNCHANGED qvars
  \/ RestRx(a) /\ applied' = TRUE /\ UNCHANGED <<stepped, null, steps, resets>>

Null == QecNotices \/ SetDcReturns \/ \E clean, worse \in BOOLEAN : NullStep(clean, worse)

Reset ==
  /\ resets < MaxResets
  /\ BoardReset
  /\ resets' = resets + 1
  /\ UNCHANGED <<applied, stepped, null, steps>>

Next ==
  \/ \E c \in RxConf : ListRx(c) /\ UNCHANGED qvars
  \/ \E c \in TxConf : ListTx(c) /\ UNCHANGED qvars
  \/ (Park \/ M7Flips) /\ UNCHANGED qvars
  \/ Reset
  \/ \E a \in Actor : Apply(a)
  \/ \E a \in Actor : Answered(a) /\ UNCHANGED qvars
  \/ (\E p \in Peak : AgcStep(p)) \/ AgcReturns
  \/ Null \/ QecAlarm

\* Works and threads run, the mutex is handed over, and samples keep coming;
\* nothing is assumed of the client.
Fairness ==
  /\ \A a \in Actor : WF_vars(Apply(a)) /\ WF_vars(Answered(a) /\ UNCHANGED qvars)
  /\ WF_vars(AgcReturns) /\ WF_vars(Null)

Spec == Init /\ [][Next]_vars /\ Fairness

(***************************************************************************)
(* Properties.                                                             *)
(***************************************************************************)

\* NoStandingProbe: a null that has ended leaves no probe offset in the codes;
\* the exceptions are a refused write, and a stage cut short by an epoch, whose
\* offset stays until a window is measured clean (rfnm_qec_main.c:785).
NoStandingProbe == ~armed /\ ~frozen /\ ~cut => ~standing

\* NullEnds: an armed null ends, although each of its own writes bumps the
\* epoch that arms it (rfnm_qec_main.c:643).
NullEnds == armed ~> ~armed \/ frozen

=============================================================================
