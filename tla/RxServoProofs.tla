--------------------------- MODULE RxServoProofs ---------------------------
(***************************************************************************)
(* Proofs about module RxServo, the Lime board under its clients and its   *)
(* two loops: what the latch shadow and the caches claim is so, a live TX  *)
(* keeps the antenna port, a TX chain that is on can be found by the park, *)
(* and a null that ends leaves no probe behind.                            *)
(***************************************************************************)
EXTENDS RxServo, TLAPS

(***************************************************************************)
(* The inductive invariant.                                                *)
(***************************************************************************)

\* the lock is held between the two halves of an apply, and by its caller
LockOK ==
  /\ \A a \in Actor : pc[a] \in {"rest rx", "rest tx"} <=> lock = a
  \* a loopback apply began, and so ends, under a live TX
  /\ lock # Nobody /\ lb /\ pc[lock] = "rest rx" => TxLive

\* with both directions in TDD the M7 owns the latches, else they are as known
LatchOK ==
  /\ rxs.enable = "tdd" /\ txs.enable = "tdd" => \A l \in Latch : last[l] = Unknown
  /\ LatchTruth

\* a live TX has the port and the driver knows it
PortOK == TxLive => val.ant = "tx" /\ phys.ant = "tx"

\* the caches hold at every step, and, while no list has landed inside an
\* apply, an RX apply ends on the frequency it tuned to and the trim is booked
\* under the LO it was written at
CacheOK ==
  /\ hz.rx = chip.lo
  /\ stage # NoStage => chip.stage = stage
  /\ chip.lpf = rxs.lpf
  /\ ~torn /\ lock # Nobody /\ pc[lock] = "rest rx" => rx.freq = hz.rx
  /\ ~torn /\ trim # None => chip.dcat = trim
  /\ ~torn /\ chip.lo # None /\ chip.stage.boost => chip.dcat = chip.lo

\* the apply that will switch a chain off is still to come, not half done
CarrierOK ==
  chip.txen => tx.enable # "off" \/ orphan \/ \E a \in Actor : pc[a] = "want tx"

\* where the null is when a write is out, and when a probe stands
NullOK ==
  /\ pc["qec"] = "idle" => aim = "none"
  /\ aim = "probe Q" => pstage = 2
  /\ aim = "solve" => solves < MaxSolves
  /\ pstage \in {2, 3} => moved /\ solves = 0
  /\ standing /\ ~cut /\ ~frozen => armed /\ pstage \in {2, 3}

RInv ==
  TypeOK /\ LockOK /\ LatchOK /\ PortOK /\ CacheOK /\ CarrierOK /\ NullOK

(***************************************************************************)
(* The null and its counters.                                              *)
(***************************************************************************)

\* A list, a park, the M7, an apply and its answer are no steps of the loops.
NullAction ==
  QecNotices \/ QecAlarm \/ SetDcReturns \/ \E clean, worse \in BOOLEAN : NullStep(clean, worse)

LEMMA OthersLeaveNull ==
  ASSUME RInv, Next, ~NullAction
  PROVE  UNCHANGED null /\ (pc'["qec"] = "idle" => pc["qec"] = "idle")
<1> USE DEF qvars, null
<1>1. pc \in [Actor -> {"idle", "want rx", "want tx", "rest rx", "rest tx", "ok", "failed"}] /\ "qec" \in Actor
  BY DEF RInv, TypeOK, BTypeOK, Actor
<1>2. CASE \E c \in RxConf : ListRx(c) /\ UNCHANGED qvars
  BY <1>1, <1>2 DEF ListRx, Goes
<1>3. CASE \E c \in TxConf : ListTx(c) /\ UNCHANGED qvars
  BY <1>1, <1>3 DEF ListTx, Goes
<1>4. CASE (Park \/ M7Flips) /\ UNCHANGED qvars
  BY <1>1, <1>4 DEF Park, M7Flips, Goes
<1>5. CASE Reset
  BY <1>1, <1>5 DEF Reset, BoardReset
<1>6. ASSUME NEW a \in Actor, Apply(a) PROVE UNCHANGED null /\ (pc'["qec"] = "idle" => pc["qec"] = "idle")
  <2>1. UNCHANGED null
    BY <1>6 DEF Apply
  <2>2. \E p \in {"rest rx", "rest tx", "ok", "failed"} : pc' = [pc EXCEPT ![a] = p]
    BY <1>6 DEF Apply, TuneRx, TuneTx, RestRx, RestTx, Goes
  <2> QED BY <1>1, <2>1, <2>2
<1>7. CASE \E a \in Actor : Answered(a) /\ UNCHANGED qvars
  BY <1>1, <1>7 DEF Answered, Goes
<1>8. CASE (\E p \in Peak : AgcStep(p)) \/ AgcReturns
  BY <1>1, <1>8 DEF AgcStep, AgcReturns, Goes
<1> QED BY <1>2, <1>3, <1>4, <1>5, <1>6, <1>7, <1>8 DEF Next, Null, NullAction

LEMMA NullTypes ==
  ASSUME RInv, Next
  PROVE  /\ armed' \in BOOLEAN /\ frozen' \in BOOLEAN /\ standing' \in BOOLEAN /\ cut' \in BOOLEAN
         /\ pstage' \in {0, 2, 3, 4} /\ solves' \in 0..MaxSolves /\ moved' \in BOOLEAN
         /\ aim' \in {"none", "probe I", "probe Q", "solve", "restore"}
<1>1. CASE ~NullAction
  BY <1>1, OthersLeaveNull DEF null, RInv, TypeOK
<1>2. ASSUME NullAction
      PROVE  /\ armed' \in BOOLEAN /\ frozen' \in BOOLEAN /\ standing' \in BOOLEAN /\ cut' \in BOOLEAN
             /\ pstage' \in {0, 2, 3, 4} /\ moved' \in BOOLEAN
             /\ aim' \in {"none", "probe I", "probe Q", "solve", "restore"}
             /\ solves' = solves \/ solves' = 0 \/ (aim = "solve" /\ solves' = solves + 1)
  <2> USE <1>2 DEF NullAction, QecNotices, QecAlarm, SetDcReturns, NullStep, Stage, Refused, SetDc, Quiet,
               GiveUp, StageOver
  <2>1. armed' \in BOOLEAN
    BY DEF RInv, TypeOK
  <2>2. frozen' \in BOOLEAN
    BY DEF RInv, TypeOK
  <2>3. standing' \in BOOLEAN
    BY DEF RInv, TypeOK
  <2>4. cut' \in BOOLEAN
    BY DEF RInv, TypeOK
  <2>5. moved' \in BOOLEAN
    BY DEF RInv, TypeOK
  <2>6. pstage' \in {0, 2, 3, 4}
    BY DEF RInv, TypeOK
  <2>7. aim' \in {"none", "probe I", "probe Q", "solve", "restore"}
    BY DEF RInv, TypeOK
  <2>8. solves' = solves \/ solves' = 0 \/ (aim = "solve" /\ solves' = solves + 1)
    OBVIOUS
  <2> QED BY <2>1, <2>2, <2>3, <2>4, <2>5, <2>6, <2>7, <2>8
<1>3. ASSUME solves' = solves \/ solves' = 0 \/ (aim = "solve" /\ solves' = solves + 1)
      PROVE  solves' \in 0..MaxSolves
  <2>1. solves \in 0..MaxSolves /\ MaxSolves \in Nat
    BY StepAssumption DEF RInv, TypeOK
  <2>2. aim = "solve" => solves < MaxSolves
    BY DEF RInv, NullOK
  <2> QED BY <1>3, <2>1, <2>2
<1> QED BY <1>1, <1>2, <1>3

LEMMA NullKept ==
  ASSUME RInv, Next
  PROVE  NullOK'
<1> USE DEF StageOver
<1>0. NullOK /\ solves \in 0..MaxSolves /\ MaxSolves \in Nat /\ pstage \in {0, 2, 3, 4}
  BY StepAssumption DEF RInv, TypeOK
<1>1. CASE QecNotices
  <2>1. aim' = "none" /\ pstage' = 0
    BY <1>0, <1>1 DEF QecNotices, QecAt, NullOK
  <2>2. standing' => cut'
    BY <1>1 DEF QecNotices
  <2> QED BY <2>1, <2>2 DEF NullOK
<1>2. CASE QecAlarm
  BY <1>0, <1>2 DEF QecAlarm, QecAt, NullOK
<1>3. CASE SetDcReturns
  <2>1. aim' = "none"
    BY <1>3 DEF SetDcReturns
  <2>2. pstage' \in {2, 3} => moved' /\ solves' = 0
    <3>1. CASE Refused
      BY <3>1 DEF Refused
    <3>2. CASE Stage(aim)
      <4>1. CASE aim = "probe Q"
        <5>1. moved /\ solves = 0
          BY <1>0, <4>1 DEF NullOK
        <5>2. moved' = moved /\ solves' = solves
          BY <3>2, <4>1 DEF Stage
        <5> QED BY <5>1, <5>2
      <4>2. CASE aim = "probe I"
        BY <3>2, <4>2 DEF Stage
      <4>3. CASE aim \notin {"probe I", "probe Q"}
        <5>1. pstage' = 4 \/ pstage' = 0
          BY <3>2, <4>3 DEF Stage
        <5> QED BY <5>1
      <4> QED BY <4>1, <4>2, <4>3
    <3> QED BY <1>3, <3>1, <3>2 DEF SetDcReturns
  <2>3. standing' /\ ~cut' /\ ~frozen' => armed' /\ pstage' \in {2, 3}
    BY <1>0, <1>3 DEF SetDcReturns, Stage, Refused, NullOK
  <2> QED BY <2>1, <2>2, <2>3 DEF NullOK
<1>4. ASSUME NEW clean \in BOOLEAN, NEW worse \in BOOLEAN, NullStep(clean, worse) PROVE NullOK'
  <2>0. pc["qec"] = "idle" /\ aim = "none" /\ frozen' = frozen
    BY <1>0, <1>4 DEF NullStep, QecAt, NullOK
  <2>1. CASE pstage # 2 /\ clean /\ Quiet /\ standing' = FALSE /\ cut' = FALSE
    BY <2>0, <2>1 DEF Quiet, NullOK
  <2>2. ASSUME NEW k \in {"probe I", "probe Q", "solve", "restore"}, SetDc(k), UNCHANGED <<standing, cut>>,
               k = "probe Q" => pstage = 2, k = "solve" => solves < MaxSolves
        PROVE  NullOK'
    <3>1. pc'["qec"] = "want rx" /\ UNCHANGED <<armed, pstage, solves, moved, frozen>> /\ aim' = k
      BY <2>0, <2>2 DEF SetDc, QecTo, Goes, RInv, TypeOK, BTypeOK, Actor
    <3> QED BY <1>0, <2>2, <3>1 DEF NullOK
  <2>3. CASE pstage \in {3, 4} /\ Quiet /\ ~((worse \/ solves = 0) /\ moved) /\ UNCHANGED <<standing, cut>>
    <3>1. ~(standing /\ ~cut /\ ~frozen)
      BY <1>0, <2>3 DEF NullOK
    <3> QED BY <2>0, <2>3, <3>1 DEF Quiet, NullOK
  <2> QED BY <1>4, <2>1, <2>2, <2>3 DEF NullStep, GiveUp
<1>5. CASE ~NullAction
  <2>1. UNCHANGED <<armed, frozen, pstage, solves, moved, aim, standing, cut>>
    BY <1>5, OthersLeaveNull DEF null
  <2>2. pc'["qec"] = "idle" => pc["qec"] = "idle"
    BY <1>5, OthersLeaveNull
  <2> QED BY <1>0, <2>1, <2>2 DEF NullOK
<1> QED BY <1>1, <1>2, <1>3, <1>4, <1>5 DEF NullAction

(***************************************************************************)
(* What a step of the whole is to the board.                               *)
(***************************************************************************)

\* a caller has its answer, or a loop thinks: the board stays as it is
Settles ==
  /\ UNCHANGED Board
  /\ UNCHANGED pc \/ \E a \in Actor : pc[a] \in {"idle", "ok", "failed"} /\ Goes(a, "idle")

\* a loop writes gain or codes into the struct and asks for an apply
Writes(a) ==
  /\ pc[a] = "idle" /\ Goes(a, "want rx")
  /\ rx' \in RxSetting /\ rx'.freq = rx.freq
  /\ UNCHANGED <<tx, rxs, txs, lock, lb, chip, hz, stage, trim, val, last, phys, lists, torn, orphan>>

BoardStep ==
  \/ \E c \in RxConf : ListRx(c)
  \/ \E c \in TxConf : ListTx(c)
  \/ Park \/ M7Flips \/ BoardReset \/ Settles
  \/ \E a \in Actor : Writes(a) \/ TuneRx(a) \/ TuneTx(a) \/ RestRx(a) \/ RestTx(a)

LEMMA BoardSteps ==
  ASSUME RInv, Next
  PROVE  BoardStep
<1>1. rx \in RxSetting
  BY DEF RInv, TypeOK, BTypeOK
<1>2. CASE \E p \in Peak : AgcStep(p)
  <2>1. PICK p \in Peak : AgcStep(p)
    BY <1>2
  <2>2. rx' \in RxSetting /\ rx'.freq = rx.freq
    BY <1>1, <2>1 DEF AgcStep, Level, RxSetting
  <2>3. Writes("agc")
    BY <2>1, <2>2 DEF AgcStep, Writes
  <2> QED BY <2>3 DEF BoardStep, Actor
<1>3. CASE AgcReturns
  <2>1. Settles
    BY <1>3 DEF AgcReturns, Settles, Board, Actor
  <2> QED BY <2>1 DEF BoardStep
<1>4. ASSUME NEW k, SetDc(k), QecAt("idle") PROVE BoardStep
  <2>1. rx' \in RxSetting /\ rx'.freq = rx.freq
    BY <1>1, <1>4 DEF SetDc, RxSetting
  <2>2. Writes("qec")
    BY <1>4, <2>1 DEF SetDc, Writes, QecAt, QecTo
  <2> QED BY <2>2 DEF BoardStep, Actor
<1>5. ASSUME Quiet, QecAt("idle") PROVE BoardStep
  <2>1. Settles
    BY <1>5 DEF Quiet, QecAt, QecTo, Settles, Actor
  <2> QED BY <2>1 DEF BoardStep
<1>6. CASE QecNotices \/ QecAlarm \/ SetDcReturns
  <2>1. Settles
    BY <1>6 DEF QecNotices, QecAlarm, SetDcReturns, QecAt, QecTo, Settles, Actor
  <2> QED BY <2>1 DEF BoardStep
<1>7. CASE \E clean, worse \in BOOLEAN : NullStep(clean, worse)
  <2>1. QecAt("idle") /\ (Quiet \/ \E k \in {"probe I", "probe Q", "solve", "restore"} : SetDc(k))
    BY <1>7 DEF NullStep, GiveUp
  <2> QED BY <2>1, <1>4, <1>5
<1>8. CASE \E a \in Actor : Answered(a)
  <2>1. Settles
    BY <1>8 DEF Answered, Settles, Board
  <2> QED BY <2>1 DEF BoardStep
<1>9. CASE Reset \/ \E a \in Actor : Apply(a)
  BY <1>9 DEF Reset, Apply, BoardStep
<1> QED BY <1>2, <1>3, <1>6, <1>7, <1>8, <1>9 DEF Next, Null, BoardStep

(***************************************************************************)
(* The board's types.                                                      *)
(***************************************************************************)
LEMMA StructTypes ==
  ASSUME RInv, BoardStep
  PROVE  /\ rx' \in RxSetting /\ tx' \in TxSetting
         /\ rxs' \in [enable : Enable, lpf : Nat] /\ txs' \in [enable : Enable, path : Path]
<1>1. /\ rx \in RxSetting /\ tx \in TxSetting
      /\ rxs \in [enable : Enable, lpf : Nat] /\ txs \in [enable : Enable, path : Path]
  BY DEF RInv, TypeOK, BTypeOK
<1>2. rx' \in RxSetting
  <2>1. ASSUME NEW c \in RxConf, ListRx(c) PROVE rx' \in RxSetting
    <3>1. c \in RxSetting
      BY SettingAssumption
    <3> QED BY <1>1, <2>1, <3>1 DEF ListRx, RxSetting
  <2>2. CASE BoardReset
    BY <1>1, <2>2 DEF BoardReset, RxSetting, Enable
  <2>3. CASE \E a \in Actor : Writes(a)
    BY <2>3 DEF Writes
  <2>4. CASE rx' = rx
    BY <1>1, <2>4
  <2> QED BY <2>1, <2>2, <2>3, <2>4 DEF BoardStep, ListTx, Park, M7Flips, Settles, Board, TuneRx, TuneTx,
          RestRx, RestTx
<1>3. tx' \in TxSetting
  <2>1. ASSUME NEW c \in TxConf, ListTx(c) PROVE tx' \in TxSetting
    BY <2>1, SettingAssumption DEF ListTx
  <2>2. CASE tx' = [tx EXCEPT !.enable = "off"]
    BY <1>1, <2>2 DEF TxSetting, Enable
  <2>3. CASE tx' = tx
    BY <1>1, <2>3
  <2> QED BY <2>1, <2>2, <2>3 DEF BoardStep, BoardReset, ListRx, Park, M7Flips, Settles, Board, Writes, TuneRx,
          TuneTx, RestRx, RestTx
<1>4. rxs' = rxs \/ rxs' = [enable |-> rx.enable, lpf |-> rx.lpf]
  BY DEF BoardStep, BoardReset, ListRx, ListTx, Park, M7Flips, Settles, Board, Writes, TuneRx, TuneTx,
         RestRx, RestTx
<1>5. txs' = txs \/ txs' = TxShadow
  BY DEF BoardStep, BoardReset, ListRx, ListTx, Park, M7Flips, Settles, Board, Writes, TuneRx, TuneTx,
         RestRx, RestTx
<1>6. TxShadow \in [enable : Enable, path : Path] /\ [enable |-> rx.enable, lpf |-> rx.lpf] \in [enable : Enable, lpf : Nat]
  BY <1>1 DEF TxShadow, TxSetting, RxSetting
<1> QED BY <1>1, <1>2, <1>3, <1>4, <1>5, <1>6

Places == {"idle", "want rx", "want tx", "rest rx", "rest tx", "ok", "failed"}

LEMMA PlaceTypes ==
  ASSUME RInv, BoardStep
  PROVE  pc' \in [Actor -> Places] /\ lock' \in Actor \cup {Nobody}
<1>1. pc \in [Actor -> Places] /\ lock \in Actor \cup {Nobody}
  BY DEF RInv, TypeOK, BTypeOK, Places
<1>2. pc' = pc \/ \E a \in Actor : \E p \in Places : pc' = [pc EXCEPT ![a] = p]
  BY DEF BoardStep, BoardReset, ListRx, ListTx, Park, M7Flips, Settles, Board, Writes, TuneRx, TuneTx,
         RestRx, RestTx, Goes, Places, Actor
<1>3. lock' = lock \/ lock' = Nobody \/ \E a \in Actor : lock' = a
  BY DEF BoardStep, BoardReset, ListRx, ListTx, Park, M7Flips, Settles, Board, Writes, TuneRx, TuneTx,
         RestRx, RestTx
<1> QED BY <1>1, <1>2, <1>3

LEMMA ChipTypes ==
  ASSUME RInv, BoardStep
  PROVE  /\ chip' \in [lo : Nat, txen : BOOLEAN, stage : GainStages, lpf : Nat, dcat : Nat]
         /\ hz' \in [rx : Nat, tx : Nat] /\ stage' \in GainStages /\ trim' \in Nat
<1>1. /\ chip \in [lo : Nat, txen : BOOLEAN, stage : GainStages, lpf : Nat, dcat : Nat]
      /\ hz \in [rx : Nat, tx : Nat] /\ stage \in GainStages /\ trim \in Nat
      /\ rx \in RxSetting /\ tx \in TxSetting
  BY DEF RInv, TypeOK, BTypeOK
<1>2. NoStage \in GainStages /\ None \in Nat
  BY DEF NoStage, GainStages, None
<1>3. rx.freq \in Nat /\ rx.lpf \in Nat /\ tx.freq \in Nat /\ rx.gain \in {Low, High}
  BY <1>1 DEF RxSetting, TxSetting
<1>4. CASE UNCHANGED <<chip, hz, stage, trim>>
  BY <1>1, <1>4
<1>5. ASSUME NEW a \in Actor, TuneRx(a)
      PROVE  /\ chip' \in [lo : Nat, txen : BOOLEAN, stage : GainStages, lpf : Nat, dcat : Nat]
             /\ hz' \in [rx : Nat, tx : Nat] /\ stage' \in GainStages /\ trim' \in Nat
  <2>1. \E f \in Nat : hz' = hz \/ hz' = [hz EXCEPT !.rx = f]
    BY <1>2, <1>3, <1>5 DEF TuneRx, Retuned
  <2>2. \E f \in Nat : \/ chip' = chip \/ chip' = [chip EXCEPT !.lo = f]
                       \/ chip' = [chip EXCEPT !.lo = f, !.stage = NoStage]
    BY <1>2, <1>3, <1>5 DEF TuneRx, Retuned
  <2>3. stage' \in {stage, NoStage} /\ trim' = trim
    BY <1>5 DEF TuneRx, Retuned
  <2> QED BY <1>1, <1>2, <2>1, <2>2, <2>3
<1>6. ASSUME NEW a \in Actor, TuneTx(a)
      PROVE  /\ chip' \in [lo : Nat, txen : BOOLEAN, stage : GainStages, lpf : Nat, dcat : Nat]
             /\ hz' \in [rx : Nat, tx : Nat] /\ stage' \in GainStages /\ trim' \in Nat
  <2>1. \E f \in Nat : hz' = [hz EXCEPT !.tx = f]
    BY <1>1, <1>2, <1>3, <1>6 DEF TuneTx, Tune
  <2>2. chip' = [chip EXCEPT !.txen = TRUE] \/ chip' = [chip EXCEPT !.txen = FALSE]
    BY <1>6 DEF TuneTx
  <2>3. stage' = stage /\ trim' = trim
    BY <1>6 DEF TuneTx
  <2> QED BY <1>1, <2>1, <2>2, <2>3
<1>7. ASSUME NEW a \in Actor, RestRx(a)
      PROVE  /\ chip' \in [lo : Nat, txen : BOOLEAN, stage : GainStages, lpf : Nat, dcat : Nat]
             /\ hz' \in [rx : Nat, tx : Nat] /\ stage' \in GainStages /\ trim' \in Nat
  <2> DEFINE t == IF rx.dc THEN rx.freq ELSE trim
             s == GainStage(t)
  <2>1. t \in Nat
    BY <1>1, <1>3
  <2>2. s \in GainStages
    BY <1>3, <2>1 DEF GainStage, Fresh, GainStages, None, Low, High
  <2> HIDE DEF t, s
  <2>3. chip' = [chip EXCEPT !.lpf   = IF rx.lpf # rxs.lpf THEN rx.lpf ELSE @,
                             !.dcat  = IF rx.dc THEN chip.lo ELSE @,
                             !.stage = IF s # stage THEN s ELSE @]
    BY <1>7 DEF RestRx, t, s
  <2>4. stage' = s /\ trim' = t /\ hz' = hz
    BY <1>7 DEF RestRx, t, s
  <2> QED BY <1>1, <1>3, <2>1, <2>2, <2>3, <2>4
<1> QED BY <1>4, <1>5, <1>6, <1>7 DEF BoardStep, BoardReset, ListRx, ListTx, Park, M7Flips, Settles, Board,
           Writes, RestTx

(***************************************************************************)
(* The latches.                                                            *)
(***************************************************************************)

\* Skipping the latches whose shadow agrees drives them all the same.
LEMMA Driven ==
  ASSUME LatchTruth, NEW v, Drive(v)
  PROVE  val' = v /\ DOMAIN phys' = Latch /\ \A l \in Latch : phys'[l] = v[l]
<1>1. SUFFICES ASSUME NEW l \in Latch PROVE phys'[l] = v[l]
  BY DEF Drive
<1>2. CASE last[l] = <<v[l]>>
  <2>1. last[l] # Unknown
    BY <1>2 DEF Unknown
  <2>2. <<phys[l]>> = <<v[l]>>
    BY <1>2, <2>1 DEF LatchTruth
  <2>3. phys[l] = v[l]
    BY <2>2
  <2> QED BY <1>2, <2>3 DEF Drive
<1> QED BY <1>2 DEF Drive

LEMMA Shadowed ==
  ASSUME NEW v, NEW m7, Shadow(v, m7)
  PROVE  /\ DOMAIN last' = Latch
         /\ m7 => \A l \in Latch : last'[l] = Unknown
         /\ ~m7 => \A l \in Latch : last'[l] = <<v[l]>>
BY DEF Shadow, Written

\* What the two applies write.
LEMMA RxLatches ==
  ASSUME RInv
  PROVE  LET v == [val EXCEPT !.ant = RxAntenna, !.tx = RxPa]
         IN  DOMAIN v = Latch /\ v.ant \in Port /\ v.tx \in {"pa", "parked"} /\ (TxLive => v.ant = "tx")
<1>1. DOMAIN val = Latch /\ val.ant \in Port /\ val.tx \in {"pa", "parked"} /\ rx \in RxSetting
  BY DEF RInv, TypeOK, BTypeOK
<1>2. RxAntenna \in Port /\ RxPa \in {"pa", "parked"}
  BY <1>1 DEF RxAntenna, RxPa, Port, RxSetting
<1>3. TxLive => RxAntenna = "tx"
  BY DEF RInv, PortOK, TxLive, RxAntenna
<1> QED BY <1>1, <1>2, <1>3 DEF Latch

LEMMA TxWrites ==
  ASSUME RInv
  PROVE  /\ DOMAIN TxLatches = Latch /\ TxLatches.ant \in Port /\ TxLatches.tx \in {"pa", "parked"}
         /\ tx.path # "loop" => TxLatches.ant = "tx"
<1>1. DOMAIN val = Latch
  BY DEF RInv, TypeOK, BTypeOK
<1> QED BY <1>1 DEF TxLatches, Latch, Port

LEMMA LatchKept ==
  ASSUME RInv, BoardStep
  PROVE  /\ DOMAIN val' = Latch /\ DOMAIN last' = Latch /\ DOMAIN phys' = Latch
         /\ {val'.ant, phys'.ant} \subseteq Port /\ {val'.tx, phys'.tx} \subseteq {"pa", "parked"}
         /\ LatchOK' /\ PortOK'
<1> DEFINE Fine == /\ DOMAIN val' = Latch /\ DOMAIN last' = Latch /\ DOMAIN phys' = Latch
                   /\ {val'.ant, phys'.ant} \subseteq Port /\ {val'.tx, phys'.tx} \subseteq {"pa", "parked"}
                   /\ LatchOK' /\ PortOK'
<1>1. /\ DOMAIN val = Latch /\ DOMAIN last = Latch /\ DOMAIN phys = Latch
      /\ {val.ant, phys.ant} \subseteq Port /\ {val.tx, phys.tx} \subseteq {"pa", "parked"}
      /\ LatchTruth /\ LatchOK /\ PortOK /\ "ant" \in Latch /\ "tx" \in Latch
  BY DEF RInv, TypeOK, BTypeOK, LatchOK, Latch
<1>2. ASSUME UNCHANGED <<last, phys, rxs, txs>>, val' = val \/ \E f : val' = [val EXCEPT !.fa = f]
      PROVE  Fine
  BY <1>1, <1>2 DEF LatchOK, LatchTruth, PortOK, TxLive, Latch
<1>3. CASE BoardReset
  BY <1>1, <1>3 DEF BoardReset, LatchOK, LatchTruth, PortOK, TxLive
<1>4. CASE M7Flips
  <2>1. \A l \in Latch : last[l] = Unknown
    BY <1>1, <1>4 DEF M7Flips, LatchOK
  <2>2. UNCHANGED <<val, last, rxs, txs>> /\ ~TxLive
    BY <1>4 DEF M7Flips, TxLive
  <2>3. DOMAIN phys' = Latch /\ phys'.ant \in Port /\ phys'.tx \in {"pa", "parked"}
    BY <1>1, <1>4 DEF M7Flips, Port, Latch
  <2> QED BY <1>1, <2>1, <2>2, <2>3 DEF LatchOK, LatchTruth, PortOK, TxLive
<1>5. ASSUME NEW a \in Actor, TuneTx(a) PROVE Fine
  <2>1. UNCHANGED <<val, last, phys, rxs>> /\ (txs' = txs \/ txs'.enable = "off")
    <3>1. UNCHANGED <<val, last, phys, rxs>>
      BY <1>5 DEF TuneTx
    <3>2. txs' = txs \/ (tx.enable = "off" /\ txs' = TxShadow)
      BY <1>5 DEF TuneTx
    <3> QED BY <3>1, <3>2 DEF TxShadow
  <2> QED BY <1>1, <2>1 DEF LatchOK, LatchTruth, PortOK, TxLive
<1>6. ASSUME NEW a \in Actor, RestTx(a) PROVE Fine
  <2> DEFINE m7 == tx.enable = "tdd" /\ rxs.enable = "tdd"
  <2>1. Drive(TxLatches) /\ Shadow(TxLatches, m7) /\ txs' = TxShadow /\ rxs' = rxs
    BY <1>6 DEF RestTx
  <2>2. val' = TxLatches /\ DOMAIN phys' = Latch /\ \A l \in Latch : phys'[l] = TxLatches[l]
    BY <1>1, <2>1, Driven
  <2>3. /\ DOMAIN last' = Latch
        /\ m7 => \A l \in Latch : last'[l] = Unknown
        /\ ~m7 => \A l \in Latch : last'[l] = <<TxLatches[l]>>
    BY <2>1, Shadowed
  <2>4. txs'.enable = tx.enable /\ txs'.path = tx.path
    BY <2>1 DEF TxShadow
  <2>5. LatchOK'
    BY <2>1, <2>2, <2>3, <2>4 DEF LatchOK, LatchTruth
  <2>6. PortOK'
    BY <1>1, <2>2, <2>4, TxWrites DEF PortOK, TxLive
  <2> QED BY <1>1, <2>2, <2>3, <2>5, <2>6, TxWrites
<1>7. ASSUME NEW a \in Actor, RestRx(a) PROVE Fine
  <2> DEFINE v == [val EXCEPT !.ant = RxAntenna, !.tx = RxPa]
             m7 == rx.enable = "tdd" /\ txs.enable = "tdd"
  <2>1. DOMAIN v = Latch /\ v.ant \in Port /\ v.tx \in {"pa", "parked"} /\ (TxLive => v.ant = "tx")
    BY RxLatches
  <2>2. txs' = txs /\ rxs' = [enable |-> rx.enable, lpf |-> rx.lpf]
    BY <1>7 DEF RestRx
  <2>3. CASE lb
    <3>1. TxLive
      BY <1>7, <2>3 DEF RestRx, RInv, LockOK, Actor, Nobody
    <3>2. val' = v /\ UNCHANGED <<last, phys>>
      BY <1>7, <2>3 DEF RestRx
    <3> QED BY <1>1, <2>1, <2>2, <3>1, <3>2 DEF LatchOK, LatchTruth, PortOK, TxLive
  <2>4. CASE ~lb
    <3>1. Drive(v) /\ Shadow(v, m7)
      BY <1>7, <2>4 DEF RestRx
    <3> HIDE DEF v
    <3>2. val' = v /\ DOMAIN phys' = Latch /\ \A l \in Latch : phys'[l] = v[l]
      BY <1>1, <3>1, Driven
    <3>3. /\ DOMAIN last' = Latch
          /\ m7 => \A l \in Latch : last'[l] = Unknown
          /\ ~m7 => \A l \in Latch : last'[l] = <<v[l]>>
      BY <3>1, Shadowed
    <3>4. LatchOK'
      BY <2>2, <3>2, <3>3 DEF LatchOK, LatchTruth
    <3>5. PortOK'
      BY <1>1, <2>1, <2>2, <3>2 DEF PortOK, TxLive
    <3> QED BY <1>1, <2>1, <3>2, <3>3, <3>4, <3>5
  <2> QED BY <2>3, <2>4
<1>8. ASSUME NEW a \in Actor, TuneRx(a) PROVE Fine
  BY <1>2, <1>8 DEF TuneRx
<1>9. CASE UNCHANGED <<val, last, phys, rxs, txs>>
  BY <1>2, <1>9
<1> QED BY <1>3, <1>4, <1>5, <1>6, <1>7, <1>8, <1>9 DEF BoardStep, ListRx, ListTx, Park, Settles, Board, Writes

(***************************************************************************)
(* The lock, the caches and the carrier.                                   *)
(***************************************************************************)
LEMMA LockKept ==
  ASSUME RInv, BoardStep
  PROVE  LockOK'
<1>1. /\ pc \in [Actor -> Places] /\ lock \in Actor \cup {Nobody} /\ LockOK /\ Nobody \notin Actor
  BY DEF RInv, TypeOK, BTypeOK, Places, Actor, Nobody
<1>2. ASSUME UNCHANGED <<lock, lb, txs>>,
             pc' = pc \/ \E a \in Actor : \E p \in {"idle", "want rx", "want tx"} :
                           pc[a] \notin {"rest rx", "rest tx"} /\ pc' = [pc EXCEPT ![a] = p]
      PROVE  LockOK'
  BY <1>1, <1>2 DEF LockOK, TxLive
<1>3. ASSUME NEW a \in Actor, TuneRx(a) PROVE LockOK'
  <2>1. lb' = (rx.path = "loop" /\ TxLive) /\ txs' = txs /\ lock = Nobody /\ pc[a] = "want rx"
    BY <1>3 DEF TuneRx
  <2>2. \/ pc' = [pc EXCEPT ![a] = "rest rx"] /\ lock' = a
        \/ pc' = [pc EXCEPT ![a] = "failed"] /\ lock' = lock
    BY <1>3 DEF TuneRx, Goes
  <2>3. lb' => TxLive'
    BY <2>1 DEF TxLive
  <2> QED BY <1>1, <2>1, <2>2, <2>3 DEF LockOK
<1>4. ASSUME NEW a \in Actor, TuneTx(a) PROVE LockOK'
  <2>1. lock = Nobody /\ pc[a] = "want tx"
    BY <1>4 DEF TuneTx
  <2>2. \/ pc' = [pc EXCEPT ![a] = "rest tx"] /\ lock' = a
        \/ \E p \in {"ok", "failed"} : pc' = [pc EXCEPT ![a] = p] /\ lock' = lock
    BY <1>4 DEF TuneTx, Goes
  <2>3. lock' = Nobody \/ pc'[lock'] = "rest tx"
    BY <1>1, <2>1, <2>2
  <2>4. \A b \in Actor : pc'[b] \in {"rest rx", "rest tx"} <=> lock' = b
    <3>1. \A b \in Actor : pc[b] \notin {"rest rx", "rest tx"}
      BY <1>1, <2>1 DEF LockOK
    <3>2. CASE pc' = [pc EXCEPT ![a] = "rest tx"] /\ lock' = a
      BY <1>1, <3>1, <3>2
    <3>3. ASSUME NEW p \in {"ok", "failed"}, pc' = [pc EXCEPT ![a] = p], lock' = lock
          PROVE  \A b \in Actor : pc'[b] \in {"rest rx", "rest tx"} <=> lock' = b
      BY <1>1, <2>1, <3>1, <3>3
    <3> QED BY <2>2, <3>2, <3>3
  <2> QED BY <2>3, <2>4 DEF LockOK
<1>5. ASSUME NEW a \in Actor, RestRx(a) \/ RestTx(a) PROVE LockOK'
  <2>1. lock = a /\ lock' = Nobody /\ pc' = [pc EXCEPT ![a] = "ok"]
    BY <1>5 DEF RestRx, RestTx, Goes
  <2> QED BY <1>1, <2>1 DEF LockOK
<1>6. CASE UNCHANGED <<lock, lb, txs>>
  <2>1. \/ pc' = pc
        \/ \E a \in Actor : \E p \in {"idle", "want rx", "want tx"} :
             pc[a] \notin {"rest rx", "rest tx"} /\ pc' = [pc EXCEPT ![a] = p]
        \/ \E a \in Actor : TuneRx(a) \/ TuneTx(a) \/ RestRx(a) \/ RestTx(a)
    BY DEF BoardStep, BoardReset, ListRx, ListTx, Park, M7Flips, Settles, Writes, Goes, Actor
  <2> QED BY <2>1, <1>2, <1>3, <1>4, <1>5, <1>6
<1> QED BY <1>3, <1>4, <1>5, <1>6 DEF BoardStep, BoardReset, ListRx, ListTx, Park, M7Flips, Settles, Board, Writes

LEMMA CarrierKept ==
  ASSUME RInv, BoardStep
  PROVE  CarrierOK'
<1>1. pc \in [Actor -> Places] /\ CarrierOK /\ chip \in [lo : Nat, txen : BOOLEAN, stage : GainStages, lpf : Nat, dcat : Nat]
  BY DEF RInv, TypeOK, BTypeOK, Places
<1>2. ASSUME UNCHANGED <<tx, orphan>>, chip'.txen = chip.txen,
             pc' = pc \/ \E a \in Actor : \E p \in Places : pc[a] # "want tx" /\ pc' = [pc EXCEPT ![a] = p]
      PROVE  CarrierOK'
  BY <1>1, <1>2 DEF CarrierOK
<1>3. ASSUME NEW c \in TxConf, ListTx(c) PROVE CarrierOK'
  <2>1. CASE Goes("client", "want tx")
    BY <1>1, <1>3, <2>1 DEF ListTx, CarrierOK, Goes, Actor
  <2>2. CASE pc' = pc /\ orphan' = (orphan \/ (c.enable = "off" /\ chip.txen))
    BY <1>1, <1>3, <2>2 DEF ListTx, CarrierOK
  <2> QED BY <1>3, <2>1, <2>2 DEF ListTx
<1>4. CASE Park
  BY <1>1, <1>4 DEF Park, CarrierOK, Goes, Actor
<1>5. CASE BoardReset
  BY <1>1, <1>5 DEF BoardReset, CarrierOK
<1>6. ASSUME NEW a \in Actor, TuneTx(a) PROVE CarrierOK'
  <2>1. tx' = tx /\ ((tx.enable = "off" /\ chip' = [chip EXCEPT !.txen = FALSE]) \/ tx.enable # "off")
    BY <1>6 DEF TuneTx
  <2> QED BY <1>1, <2>1 DEF CarrierOK
<1>7. ASSUME NEW a \in Actor, TuneRx(a) PROVE CarrierOK'
  <2>1. UNCHANGED <<tx, orphan>> /\ chip'.txen = chip.txen
    BY <1>1, <1>7 DEF TuneRx, Retuned
  <2>2. \E p \in Places : pc[a] # "want tx" /\ pc' = [pc EXCEPT ![a] = p]
    BY <1>7 DEF TuneRx, Goes, Places
  <2> QED BY <1>2, <2>1, <2>2
<1>8. ASSUME NEW a \in Actor, RestRx(a) \/ RestTx(a) PROVE CarrierOK'
  <2>1. UNCHANGED <<tx, orphan>> /\ chip'.txen = chip.txen
    BY <1>1, <1>8 DEF RestRx, RestTx
  <2>2. \E p \in Places : pc[a] # "want tx" /\ pc' = [pc EXCEPT ![a] = p]
    BY <1>8 DEF RestRx, RestTx, Goes, Places
  <2> QED BY <1>2, <2>1, <2>2
<1>9. CASE \/ \E c \in RxConf : ListRx(c)
           \/ M7Flips \/ Settles \/ \E a \in Actor : Writes(a)
  <2>1. UNCHANGED <<tx, orphan>> /\ chip'.txen = chip.txen
    BY <1>9 DEF ListRx, M7Flips, Settles, Board, Writes
  <2>2. pc' = pc \/ \E a \in Actor : \E p \in Places : pc[a] # "want tx" /\ pc' = [pc EXCEPT ![a] = p]
    BY <1>9 DEF ListRx, M7Flips, Settles, Writes, Goes, Places, Actor
  <2> QED BY <1>2, <2>1, <2>2
<1> QED BY <1>3, <1>4, <1>5, <1>6, <1>7, <1>8, <1>9 DEF BoardStep

LEMMA CacheKept ==
  ASSUME RInv, BoardStep
  PROVE  CacheOK'
<1>1. /\ pc \in [Actor -> Places] /\ lock \in Actor \cup {Nobody} /\ LockOK /\ CacheOK
      /\ chip \in [lo : Nat, txen : BOOLEAN, stage : GainStages, lpf : Nat, dcat : Nat]
      /\ hz \in [rx : Nat, tx : Nat] /\ stage \in GainStages /\ trim \in Nat
      /\ rx \in RxSetting /\ Nobody \notin Actor
      /\ rx.freq \in Nat /\ rx.lpf \in Nat /\ rx.gain \in {Low, High}
  BY DEF RInv, TypeOK, BTypeOK, Places, Actor, Nobody, RxSetting
\* nothing the caches speak of has moved
<1>2. ASSUME UNCHANGED <<rxs, lock, chip, hz, stage, trim>>, torn => torn',
             ~torn' /\ lock # Nobody /\ pc'[lock] = "rest rx" => pc[lock] = "rest rx" /\ rx'.freq = rx.freq
      PROVE  CacheOK'
  BY <1>2, <1>1 DEF CacheOK
<1>3. ASSUME NEW c \in RxConf, ListRx(c) PROVE CacheOK'
  <2>1. UNCHANGED <<rxs, lock, chip, hz, stage, trim>> /\ torn' = (torn \/ InsideRx)
    BY <1>3 DEF ListRx
  <2>2. pc["client"] = "idle" /\ (pc' = pc \/ pc' = [pc EXCEPT !["client"] = "want rx"])
    BY <1>3 DEF ListRx, Goes
  <2>3. ~(lock # Nobody /\ pc'[lock] = "rest rx" /\ ~InsideRx)
    BY <1>1, <2>1, <2>2 DEF InsideRx
  <2> QED BY <1>2, <2>1, <2>3
<1>4. CASE \/ \E c \in TxConf : ListTx(c)
           \/ Park \/ M7Flips \/ BoardReset \/ Settles
           \/ \E a \in Actor : Writes(a)
  <2>1. UNCHANGED <<rxs, lock, chip, hz, stage, trim, torn>>
    BY <1>4 DEF ListTx, Park, M7Flips, BoardReset, Settles, Board, Writes
  <2>2. rx'.freq = rx.freq
    BY <1>1, <1>4 DEF ListTx, Park, M7Flips, BoardReset, Settles, Board, Writes, RxSetting
  <2>3. pc' = pc \/ \E a \in Actor : \E p \in {"idle", "want rx", "want tx"} : pc' = [pc EXCEPT ![a] = p]
    BY <1>4 DEF ListTx, Park, M7Flips, BoardReset, Settles, Writes, Goes, Actor
  <2>4. lock # Nobody /\ pc'[lock] = "rest rx" => pc[lock] = "rest rx"
    BY <1>1, <2>3
  <2> QED BY <1>2, <2>1, <2>2, <2>4
<1>5. ASSUME NEW a \in Actor, TuneTx(a) PROVE CacheOK'
  <2>1. /\ UNCHANGED <<rx, rxs, stage, trim, torn>> /\ lock = Nobody /\ hz'.rx = hz.rx
        /\ chip'.lo = chip.lo /\ chip'.stage = chip.stage /\ chip'.lpf = chip.lpf /\ chip'.dcat = chip.dcat
    BY <1>1, <1>5 DEF TuneTx
  <2>2. \/ pc' = [pc EXCEPT ![a] = "rest tx"] /\ lock' = a
        \/ lock' = Nobody
    BY <1>5, <2>1 DEF TuneTx, Goes
  <2>3. ~(lock' # Nobody /\ pc'[lock'] = "rest rx")
    BY <1>1, <2>2
  <2> QED BY <1>1, <2>1, <2>3 DEF CacheOK
<1>6. ASSUME NEW a \in Actor, RestTx(a) PROVE CacheOK'
  <2>1. UNCHANGED <<rxs, chip, hz, stage, trim, torn>> /\ lock' = Nobody
    BY <1>6 DEF RestTx
  <2> QED BY <1>1, <2>1 DEF CacheOK
<1>7. ASSUME NEW a \in Actor, TuneRx(a) PROVE CacheOK'
  <2>1. UNCHANGED <<rx, rxs, trim, torn>>
    BY <1>7 DEF TuneRx
  <2>2. CASE hz.rx = rx.freq /\ UNCHANGED <<hz, chip, stage>>
    BY <1>1, <2>1, <2>2 DEF CacheOK
  <2>3. CASE Retuned(rx.freq)
    <3>1. /\ hz'.rx = rx.freq /\ chip'.lo = rx.freq /\ chip'.stage = NoStage /\ stage' = NoStage
          /\ chip'.lpf = chip.lpf /\ chip'.dcat = chip.dcat
      BY <1>1, <2>3 DEF Retuned
    <3>2. ~NoStage.boost
      BY DEF NoStage
    <3> QED BY <1>1, <2>1, <3>1, <3>2 DEF CacheOK
  <2>4. CASE /\ hz' = [hz EXCEPT !.rx = None] /\ chip' = [chip EXCEPT !.lo = None]
             /\ UNCHANGED <<stage, lock>>
    <3>1. lock' = Nobody
      BY <1>7, <2>4 DEF TuneRx
    <3>2. /\ hz'.rx = None /\ chip'.lo = None /\ chip'.stage = chip.stage
          /\ chip'.lpf = chip.lpf /\ chip'.dcat = chip.dcat
      BY <1>1, <2>4
    <3> QED BY <1>1, <2>1, <2>4, <3>1, <3>2 DEF CacheOK
  <2> QED BY <1>7, <2>2, <2>3, <2>4 DEF TuneRx
<1>8. ASSUME NEW a \in Actor, RestRx(a) PROVE CacheOK'
  <2> DEFINE t == IF rx.dc THEN rx.freq ELSE trim
             s == GainStage(t)
  <2>1. s # NoStage /\ (s.boost => t # None /\ rx.freq = t)
    <3>1. s.gain = rx.gain /\ (s.boost <=> rx.gain = Low /\ Fresh(t))
      BY DEF GainStage
    <3>2. s.gain # NoStage.gain
      BY <1>1, <3>1 DEF NoStage, None, Low, High
    <3> QED BY <3>1, <3>2 DEF Fresh
  <2>2. /\ chip' = [chip EXCEPT !.lpf   = IF rx.lpf # rxs.lpf THEN rx.lpf ELSE @,
                                !.dcat  = IF rx.dc THEN chip.lo ELSE @,
                                !.stage = IF s # stage THEN s ELSE @]
        /\ stage' = s /\ trim' = t /\ rxs' = [enable |-> rx.enable, lpf |-> rx.lpf]
        /\ UNCHANGED <<rx, hz, torn>> /\ lock' = Nobody /\ lock = a /\ pc[a] = "rest rx"
    BY <1>8 DEF RestRx
  <2> HIDE DEF s
  <2>3. chip'.lo = chip.lo /\ chip'.lpf = IF rx.lpf # rxs.lpf THEN rx.lpf ELSE chip.lpf
    BY <1>1, <2>2
  <2>4. chip'.dcat = IF rx.dc THEN chip.lo ELSE chip.dcat
    BY <1>1, <2>2
  <2>5. chip'.stage = s
    BY <1>1, <2>1, <2>2 DEF CacheOK
  <2>6. chip'.lpf = rxs'.lpf
    BY <1>1, <2>2, <2>3 DEF CacheOK
  <2>7. ~torn => rx.freq = chip.lo
    BY <1>1, <2>2 DEF CacheOK
  <2>8. ~torn /\ t # None => chip'.dcat = t
    BY <1>1, <2>4, <2>7 DEF CacheOK
  <2>9. hz'.rx = chip'.lo
    BY <1>1, <2>2, <2>3 DEF CacheOK
  <2>10. ~torn /\ s.boost => chip'.dcat = chip'.lo
    BY <2>1, <2>3, <2>7, <2>8
  <2> QED BY <2>2, <2>5, <2>6, <2>8, <2>9, <2>10 DEF CacheOK
<1> QED BY <1>3, <1>4, <1>5, <1>6, <1>7, <1>8 DEF BoardStep

(***************************************************************************)
(* The invariant.                                                          *)
(***************************************************************************)
LEMMA InitInv == Init => RInv
<1> SUFFICES ASSUME Init PROVE RInv
  OBVIOUS
<1> USE ListAssumption, StepAssumption DEF Init, BInit
<1>1. /\ rx \in RxSetting /\ rxs \in [enable : Enable, lpf : Nat]
      /\ tx \in TxSetting /\ txs \in [enable : Enable, path : Path]
  BY DEF RxSetting, TxSetting, Enable, Path, None, High
<1>2. /\ NoStage \in GainStages /\ ~NoStage.boost
      /\ chip \in [lo : Nat, txen : BOOLEAN, stage : GainStages, lpf : Nat, dcat : Nat]
      /\ hz \in [rx : Nat, tx : Nat] /\ stage \in GainStages /\ trim \in Nat
  BY DEF GainStages, NoStage, None
<1>3. /\ DOMAIN val = Latch /\ DOMAIN last = Latch /\ DOMAIN phys = Latch
      /\ {val.ant, phys.ant} \subseteq Port /\ {val.tx, phys.tx} \subseteq {"pa", "parked"}
  BY DEF Latch, Port, Written
<1>4. BTypeOK
  <2>1. pc \in [Actor -> Places] /\ lock \in Actor \cup {Nobody}
    BY DEF Places
  <2>2. lb \in BOOLEAN /\ torn \in BOOLEAN /\ orphan \in BOOLEAN
    OBVIOUS
  <2>3. lists \in 0..MaxLists
    OBVIOUS
  <2> HIDE DEF Init, BInit
  <2> QED BY <1>1, <1>2, <1>3, <2>1, <2>2, <2>3 DEF BTypeOK, Places
<1>5. TypeOK
  <2>1. solves \in 0..MaxSolves /\ steps \in 0..MaxSteps /\ resets \in 0..MaxResets /\ pstage \in {0, 2, 3, 4}
    OBVIOUS
  <2>2. /\ applied \in BOOLEAN /\ stepped \in BOOLEAN /\ armed \in BOOLEAN
        /\ frozen \in BOOLEAN /\ standing \in BOOLEAN /\ cut \in BOOLEAN /\ moved \in BOOLEAN
        /\ aim \in {"none", "probe I", "probe Q", "solve", "restore"}
    OBVIOUS
  <2> HIDE DEF Init, BInit
  <2> QED BY <1>4, <2>1, <2>2 DEF TypeOK
<1>6. LockOK
  BY DEF LockOK, Actor, Nobody
<1>7. LatchOK
  BY DEF LatchOK, LatchTruth, Written, Latch
<1>8. PortOK /\ CarrierOK /\ NullOK
  BY DEF PortOK, TxLive, CarrierOK, NullOK
<1>9. CacheOK
  BY <1>2 DEF CacheOK
<1> QED BY <1>5, <1>6, <1>7, <1>8, <1>9 DEF RInv

\* The counters of the bounds and the flags of the callers.
LEMMA RestTypes ==
  ASSUME RInv, Next
  PROVE  /\ lb' \in BOOLEAN /\ torn' \in BOOLEAN /\ orphan' \in BOOLEAN /\ lists' \in 0..MaxLists
         /\ applied' \in BOOLEAN /\ stepped' \in BOOLEAN
         /\ steps' \in 0..MaxSteps /\ resets' \in 0..MaxResets
<1>0. BoardStep
  BY BoardSteps
<1>1. lb' = lb \/ lb' = FALSE \/ lb' = (rx.path = "loop" /\ TxLive)
  BY <1>0 DEF BoardStep, BoardReset, ListRx, ListTx, Park, M7Flips, Settles, Board, Writes, TuneRx, TuneTx,
         RestRx, RestTx
<1>2. torn' = torn \/ torn' = (torn \/ InsideRx)
  BY <1>0 DEF BoardStep, BoardReset, ListRx, ListTx, Park, M7Flips, Settles, Board, Writes, TuneRx, TuneTx,
         RestRx, RestTx
<1>3. orphan' \in BOOLEAN
  BY <1>0 DEF BoardStep, BoardReset, ListRx, ListTx, Park, M7Flips, Settles, Board, Writes, TuneRx, TuneTx,
         RestRx, RestTx, RInv, TypeOK, BTypeOK
<1>4. lists' = lists \/ (lists < MaxLists /\ lists' = lists + 1)
  BY <1>0 DEF BoardStep, BoardReset, ListRx, ListTx, Park, M7Flips, Settles, Board, Writes, TuneRx, TuneTx,
         RestRx, RestTx
<1>5. applied' \in BOOLEAN /\ stepped' \in BOOLEAN
  BY DEF Next, qvars, Reset, Apply, AgcStep, AgcReturns, Null, QecNotices, QecAlarm, SetDcReturns, NullStep,
         RInv, TypeOK
<1>6. /\ steps' = steps \/ (steps < MaxSteps /\ steps' = steps + 1)
      /\ resets' = resets \/ (resets < MaxResets /\ resets' = resets + 1)
  BY DEF Next, qvars, Reset, Apply, AgcStep, AgcReturns, Null, QecNotices, QecAlarm, SetDcReturns, NullStep
<1>7. lb \in BOOLEAN /\ torn \in BOOLEAN
  BY DEF RInv, TypeOK, BTypeOK
<1>8. lists \in 0..MaxLists /\ steps \in 0..MaxSteps /\ resets \in 0..MaxResets
  BY DEF RInv, TypeOK, BTypeOK
<1>9. lists' \in 0..MaxLists /\ steps' \in 0..MaxSteps /\ resets' \in 0..MaxResets
  BY <1>4, <1>6, <1>8, ListAssumption, StepAssumption
<1>10. lb' \in BOOLEAN /\ torn' \in BOOLEAN
  BY <1>1, <1>2, <1>7
<1> QED BY <1>3, <1>5, <1>9, <1>10

LEMMA StepInv == RInv /\ [Next]_vars => RInv'
<1> SUFFICES ASSUME RInv, [Next]_vars PROVE RInv'
  OBVIOUS
<1>1. CASE UNCHANGED vars
  <2>1. BoardStep /\ UNCHANGED qvars /\ UNCHANGED <<pc, lb, torn, orphan, lists>>
    BY <1>1 DEF vars, BoardStep, Settles, Board, qvars
  <2>2. BTypeOK'
    BY <2>1, StructTypes, PlaceTypes, ChipTypes, LatchKept DEF BTypeOK, RInv, TypeOK, Places
  <2>3. TypeOK' /\ NullOK'
    BY <2>1, <2>2, ZenonT(60) DEF TypeOK, NullOK, RInv, qvars
  <2> QED BY <2>1, <2>3, LockKept, LatchKept, CacheKept, CarrierKept DEF RInv
<1>2. CASE Next
  <2>1. BoardStep
    BY <1>2, BoardSteps
  <2>2. BTypeOK'
    BY <1>2, <2>1, StructTypes, PlaceTypes, ChipTypes, LatchKept, RestTypes DEF BTypeOK, Places
  <2>3. TypeOK'
    BY <1>2, <2>2, NullTypes, RestTypes DEF TypeOK
  <2> QED BY <1>2, <2>1, <2>3, LockKept, LatchKept, CacheKept, CarrierKept, NullKept DEF RInv
<1> QED BY <1>1, <1>2

LEMMA Invariant == Spec => []RInv
BY InitInv, StepInv, PTL DEF Spec

(***************************************************************************)
(* The theorems.                                                           *)
(***************************************************************************)

\* The board and its loops keep their types and bounds: what the callers write
\* into the channel structs of rfnm_lime_m.c are settings of the API.
THEOREM ServoTypes == Spec => []TypeOK
BY Invariant, PTL DEF RInv

\* A latch the driver skips has the value its shadow claims, the M7's switching
\* in TDD included (rfnm_fe_generic.c, rfnm_dgb_en_tdd).
THEOREM ShadowsTrue == Spec => []LatchTruth
<1>1. RInv => LatchTruth
  BY DEF RInv, LatchOK
<1> QED BY <1>1, Invariant, PTL

\* While the applied TX is plainly on, the antenna port is at TX
\* (lime0_set_rx_gain).
THEOREM PortIsTx == Spec => []TxOwnsPort
<1>1. RInv => TxOwnsPort
  BY DEF RInv, PortOK, TxOwnsPort
<1> QED BY <1>1, Invariant, PTL

\* Between applies the driver's caches of LO, gain stages and filter agree with
\* the chip, and the PGA is raised only over an offset nulled at the chip's LO
\* (rfnm_rx_ch_set).
THEOREM CachesTrue == Spec => []CacheTruth
<1>1. RInv => CacheTruth
  BY DEF RInv, CacheOK, CacheTruth
<1> QED BY <1>1, Invariant, PTL

\* A TX chain that is on is one the idle park finds or an apply is due to see
\* (rfnm_dgb_tx_idle_park_work).
THEOREM CarriersFound == Spec => []CarrierAccounted
<1>1. RInv => CarrierAccounted
  BY DEF RInv, CarrierOK, CarrierAccounted
<1> QED BY <1>1, Invariant, PTL

\* A null that has ended leaves no probe offset in the codes, but for a refused
\* write or a stage cut short by an epoch (qec_dc_null_step).
THEOREM ProbesUndone == Spec => []NoStandingProbe
<1>1. RInv => NoStandingProbe
  BY DEF RInv, NullOK, NoStandingProbe
<1> QED BY <1>1, Invariant, PTL

=============================================================================
