----------------------------- MODULE LimeBoard -----------------------------
(***************************************************************************)
(* The Lime daughterboard (rfnm_lime_m.c with the latches of               *)
(* rfnm_fe_lime0.c and rfnm_fe_generic.c) under everyone who applies to    *)
(* it: the channel-list works, the idle TX park, the AGC and the QEC loops *)
(* (module RxServo).                                                       *)
(*                                                                         *)
(* Callers write the shared channel struct first, without a lock, and then *)
(* have the driver apply it under rfnm_lime_apply_lock; the driver reads   *)
(* the struct as it goes, skips what its caches say the chip already has,  *)
(* and copies the struct to its shadow at the end.  An apply is two steps, *)
(* up to the tune and from there on, so that a struct may change under it. *)
(*                                                                         *)
(* A frequency stands for itself and its filter band, two of them are more *)
(* than the DC window apart.  Gain is Low (attenuator, high PGA) or High.  *)
(* A DC correction is there or is the zero pair, which the driver does not *)
(* write.                                                                  *)
(***************************************************************************)
EXTENDS Naturals

CONSTANTS RxConf,     \* RX settings a client asks for
          TxConf,     \* TX settings a client asks for
          MaxLists    \* bound: lists a client sends

ASSUME ListAssumption == MaxLists \in Nat

Low     == 1
High    == 2
None    == 0          \* no or unknown frequency, gain stage or band
Actor   == {"client", "park", "agc", "qec"}
Nobody  == "nobody"
Enable  == {"off", "on", "tdd"}
Latch   == {"ant", "fa", "tx"}
Port    == {"thru", "attn", "term", "embed", "tx", "lb"}  \* the antenna switch
Unknown == << >>      \* 0xff in latch_val_last_written
Path    == {"sma", "term", "embed", "loop"}

RxSetting == [enable : Enable, freq : Nat, lpf : Nat, gain : {Low, High},
              dc : BOOLEAN, path : Path, agc : BOOLEAN]
TxSetting == [enable : Enable, freq : Nat, path : Path]
GainStages == [gain : {None, Low, High}, boost : BOOLEAN]

ASSUME SettingAssumption == RxConf \subseteq RxSetting /\ TxConf \subseteq TxSetting

VARIABLES
  rx, tx,       \* rx_ch[0], tx_ch[0]: what the applies read
  rxs, txs,     \* rx_s[0], tx_s[0]: what is read of the driver's shadows
  pc,           \* where each caller is
  lock,         \* rfnm_lime_apply_lock
  lb,           \* chip_lb of the RX apply under way
  chip,         \* the transceiver: LO, gain stage, filter, LO of the DC codes, TX chain
  hz,           \* sx_last_hz
  stage,        \* rx_last_lna_db, rx_last_pga_db
  trim,         \* rx_dc_trim_hz
  val, last,    \* fe.latch_val, fe.latch_val_last_written
  phys,         \* the latches' outputs
  lists,        \* bound: lists sent
  torn,         \* a client's list has landed inside another's RX apply
  orphan        \* a TX chain was left on by a struct set to off without an apply

bvars == <<rx, tx, rxs, txs, pc, lock, lb, chip, hz, stage, trim,
           val, last, phys, lists, torn, orphan>>

Written(v) == [l \in Latch |-> <<v[l]>>]
NoStage == [gain |-> None, boost |-> FALSE]

BTypeOK ==
  /\ rx \in RxSetting /\ rxs \in [enable : Enable, lpf : Nat]
  /\ tx \in TxSetting /\ txs \in [enable : Enable, path : Path]
  /\ chip \in [lo : Nat, txen : BOOLEAN, stage : GainStages, lpf : Nat, dcat : Nat]
  /\ hz \in [rx : Nat, tx : Nat] /\ stage \in GainStages /\ trim \in Nat
  /\ pc \in [Actor -> {"idle", "want rx", "want tx", "rest rx", "rest tx",
                       "ok", "failed"}]
  /\ lock \in Actor \cup {Nobody}
  /\ lb \in BOOLEAN /\ torn \in BOOLEAN /\ orphan \in BOOLEAN
  /\ DOMAIN val = Latch /\ DOMAIN last = Latch /\ DOMAIN phys = Latch
  /\ {val.ant, phys.ant} \subseteq Port /\ {val.tx, phys.tx} \subseteq {"pa", "parked"}
  /\ lists \in 0..MaxLists

\* rfnm_lime_probe: RX on, TX tuned away and gated off, every latch driven
\* once, both structs and shadows zero.
BInit ==
  /\ rx = [enable |-> "off", freq |-> None, lpf |-> 0, gain |-> High, dc |-> FALSE,
           path |-> "sma", agc |-> FALSE]
  /\ rxs = [enable |-> "off", lpf |-> 0]
  /\ tx = [enable |-> "off", freq |-> None, path |-> "sma"]
  /\ txs = [enable |-> "off", path |-> "sma"]
  /\ pc = [a \in Actor |-> "idle"]
  /\ lock = Nobody /\ lb = FALSE
  /\ chip = [lo |-> None, txen |-> FALSE, stage |-> NoStage, lpf |-> 0,
             dcat |-> None]
  /\ hz = [rx |-> None, tx |-> None] /\ stage = NoStage /\ trim = None
  /\ val = [ant |-> "thru", fa |-> None, tx |-> "parked"]
  /\ last = Written(val) /\ phys = val
  /\ lists = 0 /\ torn = FALSE /\ orphan = FALSE

(***************************************************************************)
(* The callers.                                                            *)
(***************************************************************************)

Goes(a, p) == pc' = [pc EXCEPT ![a] = p]

\* An RX apply of someone else's is between its tune and its end.
InsideRx == lock \notin {Nobody, "client"} /\ pc[lock] = "rest rx"

\* The RX work copies the list into the struct, keeping the live gain where
\* the AGC owns it, and applies the channel if its apply bit is set.
ListRx(c) ==
  /\ pc["client"] = "idle" /\ lists < MaxLists
  /\ rx' = [c EXCEPT !.gain = IF c.agc THEN rx.gain ELSE c.gain]
  /\ torn' = (torn \/ InsideRx)
  /\ lists' = lists + 1
  /\ Goes("client", "want rx") \/ UNCHANGED pc
  /\ UNCHANGED <<tx, rxs, txs, lock, lb, chip, hz, stage, trim, val, last, phys, orphan>>

ListTx(c) ==
  /\ pc["client"] = "idle" /\ lists < MaxLists
  /\ tx' = c
  /\ lists' = lists + 1
  /\ \/ Goes("client", "want tx") /\ UNCHANGED orphan
     \/ UNCHANGED pc /\ orphan' = (orphan \/ (c.enable = "off" /\ chip.txen))
  /\ UNCHANGED <<rx, rxs, txs, lock, lb, chip, hz, stage, trim, val, last, phys, torn>>

\* Mutant: the struct is marked off and the driver not told.
ParkMarksOnly ==
  /\ pc["park"] = "idle" /\ tx.enable # "off"
  /\ tx' = [tx EXCEPT !.enable = "off"]
  /\ UNCHANGED <<rx, rxs, txs, pc, lock, lb, chip, hz, stage, trim, val, last, phys, lists, torn, orphan>>

\* rfnm_dgb_tx_idle_park_work: the radio is idle, an armed TX goes off.
Park ==
  /\ pc["park"] = "idle" /\ tx.enable # "off"
  /\ tx' = [tx EXCEPT !.enable = "off"]
  /\ Goes("park", "want tx")
  /\ UNCHANGED <<rx, rxs, txs, lock, lb, chip, hz, stage, trim, val, last, phys, lists, torn, orphan>>

\* rfnm_dgb_reset_sm: enables and AGC die with the session, the latch shadow
\* is forgotten; the radio itself is left as it is.
BoardReset ==
  /\ rx' = [rx EXCEPT !.enable = "off", !.agc = FALSE]
  /\ tx' = [tx EXCEPT !.enable = "off"]
  /\ last' = [l \in Latch |-> Unknown]
  /\ orphan' = (orphan \/ chip.txen)
  /\ UNCHANGED <<rxs, txs, pc, lock, lb, chip, hz, stage, trim, val, phys, lists, torn>>

(***************************************************************************)
(* Latches.                                                                *)
(***************************************************************************)

\* rfnm_fe_load_latches, rfnm_fe_trigger_latches: a latch whose shadow agrees
\* is neither shifted nor clocked.
Drive(v) ==
  /\ val' = v
  /\ phys' = [l \in Latch |-> IF last[l] = <<v[l]>> THEN phys[l] ELSE v[l]]

\* Mutant: the shadow survives the handover to the M7.
ShadowKept(v, m7) == last' = Written(v)

\* rfnm_dgb_en_tdd: from here on the M7 drives the latches.
Shadow(v, m7) == last' = IF m7 THEN [l \in Latch |-> Unknown] ELSE Written(v)

\* The M7 at a pattern edge, while both directions run TDD.
M7Flips ==
  /\ rxs.enable = "tdd" /\ txs.enable = "tdd"
  /\ \/ phys' = [phys EXCEPT !.ant = "tx", !.tx = "pa"]
     \/ phys' = [phys EXCEPT !.ant = "thru", !.tx = "parked"]
  /\ UNCHANGED <<rx, tx, rxs, txs, pc, lock, lb, chip, hz, stage, trim,
                 val, last, lists, torn, orphan>>

(***************************************************************************)
(* rfnm_rx_ch_set.                                                         *)
(***************************************************************************)

TxLive == txs.enable = "on" /\ txs.path # "loop"

\* Mutant: the gain-stage caches outlive a retune.
RetunedKeeps(f) ==
  /\ hz' = [hz EXCEPT !.rx = f]
  /\ chip' = [chip EXCEPT !.lo = f, !.stage = NoStage]
  /\ UNCHANGED stage

\* rfnm_lime_tune_sx and rfnm_lime_rx_stage_cache_drop: a retune leaves the
\* gain stages anywhere, so what is known of them is dropped.
Retuned(f) ==
  /\ hz' = [hz EXCEPT !.rx = f]
  /\ chip' = [chip EXCEPT !.lo = f, !.stage = NoStage]
  /\ stage' = NoStage

\* The preselector of a band, one of thirteen.
Filter(f) == f

\* A tune tries the VCO code predicted from the codes it has learnt, walks, and
\* falls back on the full calibration, which may not lock.
Tune(f) == {None, f}

\* Filters and path, unless the chip's own loopback watches a live TX; the LO,
\* unless it is there already.
TuneRx(a) ==
  /\ pc[a] = "want rx" /\ lock = Nobody
  /\ lb' = (rx.path = "loop" /\ TxLive)
  /\ val' = IF lb' THEN val ELSE [val EXCEPT !.fa = Filter(rx.freq)]
  /\ \/ /\ hz.rx = rx.freq
        /\ Goes(a, "rest rx") /\ lock' = a
        /\ UNCHANGED <<hz, chip, stage>>
     \/ /\ hz.rx # rx.freq /\ rx.freq \in Tune(rx.freq)
        /\ Retuned(rx.freq)
        /\ Goes(a, "rest rx") /\ lock' = a
     \/ /\ hz.rx # rx.freq /\ None \in Tune(rx.freq)
        /\ hz' = [hz EXCEPT !.rx = None] /\ chip' = [chip EXCEPT !.lo = None]
        /\ Goes(a, "failed")
        /\ UNCHANGED <<stage, lock>>
  /\ UNCHANGED <<rx, tx, rxs, txs, trim, last, phys, lists, torn, orphan>>

\* The correction in place was written for this LO.
Fresh(t) == t # None /\ rx.freq = t

\* Mutant: the RX gain staging repoints the antenna port under a live TX.
RxAntennaAlways ==
  IF rx.path \in {"term", "embed"} THEN rx.path
  ELSE IF rx.gain = Low THEN "attn" ELSE "thru"

\* lime0_set_rx_gain: the port belongs to a TX that is on.
RxAntenna ==
  IF txs.enable = "on" THEN val.ant
  ELSE IF rx.path \in {"term", "embed"} THEN rx.path
  ELSE IF rx.gain = Low THEN "attn" ELSE "thru"

\* The PA is parked when TX is off, and for an RX half of TDD.
RxPa ==
  IF \/ rx.path = "loop" /\ ~TxLive
     \/ rx.path # "loop" /\ (txs.enable = "off" \/ rx.enable = "tdd")
  THEN "parked" ELSE val.tx

\* The DC guard: the PGA is raised at low gain only over a fresh correction.
GainStage(t) == [gain |-> rx.gain, boost |-> rx.gain = Low /\ Fresh(t)]

RestRx(a) ==
  LET t == IF rx.dc THEN rx.freq ELSE trim
      s == GainStage(t)
      v == [val EXCEPT !.ant = RxAntenna, !.tx = RxPa]
  IN  /\ lock = a /\ pc[a] = "rest rx"
      /\ chip' = [chip EXCEPT !.lpf   = IF rx.lpf # rxs.lpf THEN rx.lpf ELSE @,
                              !.dcat  = IF rx.dc THEN chip.lo ELSE @,
                              !.stage = IF s # stage THEN s ELSE @]
      /\ stage' = s /\ trim' = t
      /\ IF lb THEN val' = v /\ UNCHANGED <<last, phys>>
               ELSE Drive(v) /\ Shadow(v, rx.enable = "tdd" /\ txs.enable = "tdd")
      /\ rxs' = [enable |-> rx.enable, lpf |-> rx.lpf] /\ lb' = FALSE
      /\ lock' = Nobody /\ Goes(a, "ok")
      /\ UNCHANGED <<rx, tx, txs, hz, lists, torn, orphan>>

(***************************************************************************)
(* rfnm_tx_ch_set.                                                         *)
(***************************************************************************)

TxShadow == [enable |-> tx.enable, path |-> tx.path]

\* RF_OFF stops the chain and forgets the LO; otherwise the chain is enabled
\* before the tune, which may fail.
TuneTx(a) ==
  /\ pc[a] = "want tx" /\ lock = Nobody
  /\ \/ /\ tx.enable = "off"
        /\ chip' = [chip EXCEPT !.txen = FALSE] /\ hz' = [hz EXCEPT !.tx = None]
        /\ txs' = TxShadow /\ orphan' = FALSE
        /\ Goes(a, "ok") /\ UNCHANGED lock
     \/ /\ tx.enable # "off"
        /\ chip' = [chip EXCEPT !.txen = TRUE]
        /\ \E f \in IF hz.tx = tx.freq THEN {hz.tx} ELSE Tune(tx.freq) :
             /\ hz' = [hz EXCEPT !.tx = f]
             /\ \/ f # None /\ Goes(a, "rest tx") /\ lock' = a
                \/ f = None /\ Goes(a, "failed") /\ UNCHANGED lock
        /\ UNCHANGED <<txs, orphan>>
  /\ UNCHANGED <<rx, tx, rxs, lb, stage, trim, val, last, phys, lists, torn>>

\* Band, power ladder and TX filter, then antenna port and LNAs off, or the
\* loopback with the PAs parked.
TxLatches ==
  IF tx.path # "loop" THEN [ant |-> "tx", fa |-> None, tx |-> "pa"]
                      ELSE [val EXCEPT !.ant = "lb", !.tx = "parked"]

RestTx(a) ==
  LET v == TxLatches
  IN  /\ lock = a /\ pc[a] = "rest tx"
      /\ Drive(v) /\ Shadow(v, tx.enable = "tdd" /\ rxs.enable = "tdd")
      /\ txs' = TxShadow
      /\ lock' = Nobody /\ Goes(a, "ok")
      /\ UNCHANGED <<rx, tx, rxs, lb, chip, hz, stage, trim, lists, torn, orphan>>

\* The client's work and the park only report the result.
Answered(a) ==
  /\ a \in {"client", "park"} /\ pc[a] \in {"ok", "failed"}
  /\ Goes(a, "idle")
  /\ UNCHANGED <<rx, tx, rxs, txs, lock, lb, chip, hz, stage, trim, val, last,
                 phys, lists, torn, orphan>>

(***************************************************************************)
(* Properties.                                                             *)
(***************************************************************************)

\* LatchTruth: a latch the driver would skip really has the value the shadow
\* claims, although the M7 switches latches behind the driver's back
\* (rfnm_daughterboard.c:850, rfnm_fe_generic.c:185).
LatchTruth == \A l \in Latch : last[l] # Unknown => last[l] = <<phys[l]>>

\* TxOwnsPort: while the applied TX is plainly on, the antenna port is at TX,
\* whatever RX applies, gain steps and DC steps come in between
\* (rfnm_lime_m.c:409).
TxOwnsPort == (lock = Nobody /\ TxLive) => phys.ant = "tx"

\* CacheTruth: between applies what the driver believes of the chip is so: LO,
\* gain stages and, unless a list has landed inside another's apply, the
\* filter it compares the next list with (rfnm_lime_m.c:746, :1271); and the PGA
\* amplifies only an offset that was nulled at the LO the chip is on
\* (rfnm_lime_m.c:371), with the same exception: then the correction of one LO
\* is booked under another.
CacheTruth ==
  lock = Nobody =>
    /\ hz.rx # None => chip.lo = hz.rx
    /\ stage # NoStage => chip.stage = stage
    /\ torn \/ chip.lpf = rxs.lpf
    /\ ~torn /\ chip.lo # None /\ chip.stage.boost => chip.dcat = chip.lo

\* CarrierAccounted: a TX chain that is on is one the idle park will find and
\* switch off, or about to be applied; the exception is a struct set to off
\* without an apply, as the session reset does (rfnm_daughterboard.c:327).
CarrierAccounted ==
  chip.txen => \/ tx.enable # "off" \/ orphan
               \/ \E a \in Actor : pc[a] \in {"want tx", "rest tx"}

=============================================================================
