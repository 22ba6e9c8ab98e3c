----------------------------- MODULE StreamWord -----------------------------
(***************************************************************************)
(* The stream word of rfnm_lalib.c: what the driver believes the chip is   *)
(* streaming, the software-command mailbox it tells the chip's M4 core     *)
(* through, and everyone who tells it: the channel-list apply (with its    *)
(* reclock), the session restart's quiesce, the TDD and anchor verbs, and  *)
(* the heal of a chip that restarted by itself.                            *)
(*                                                                         *)
(* A word is the set of what it switches on: "rx" stands for bits 1-4,     *)
(* "tx" for bit 0, "win" for the windowed-session bit 16.                  *)
(***************************************************************************)
EXTENDS Integers, Sequences, FiniteSets

CONSTANTS
  Actor,      \* the processes of this instance
  Ask,        \* the words a client may ask for
  NoProc,
  OpMax,      \* bound: operations started
  TroubleMax  \* bound: restarts of the chip nobody commanded, and commands it
              \* fails or answers too late

Proc == {"apply", "session", "verb", "anchor", "heal"}
Word == SUBSET {"tx", "rx", "win"}
Off == {}

ASSUME WordAssumption ==
  Actor \subseteq Proc /\ Ask \subseteq SUBSET {"tx", "rx"} /\ NoProc \notin Proc

VARIABLES
  word,      \* rfnm_session.stream_word
  tdd,       \* rfnm_session.tdd_armed
  stash,     \* rfnm_phy_restart_stash
  armed,     \* the RT command ring's magic
  gen, sess, \* rfnm_phy_gen, rfnm_session_phy_gen
  sgen,      \* rfnm_streamed_gen, 0 while invalid
  lock,      \* rfnm_stream_send_lock
  pc, plan,  \* per process: where it is, what it still has to do
  cur, res,  \* per process: the command being sent, its outcome
  timer, note, work, \* the PHY timer's callback, its copy of the word, the heal work queued
  box,       \* host_swcmd, the mailbox
  irq, m4,   \* the M4 core: a command announced, a command in work
  fw, lost,  \* what the chip runs; it restarted and nobody noticed yet
  fence,     \* rfnm_la9310_mmio_fenced()
  ops, restarts, fails,
  wanted,    \* the last word a client was told is applied
  doubt      \* history: since the chip's last reset a command failed, or met
             \* something the send lock does not cover (see Alone)

procs == <<pc, plan, cur, res>>
chip  == <<irq, m4, fw, lost, restarts, fails>>
time  == <<gen, sess, timer, note, work, stash>>
vars  == <<word, tdd, armed, sgen, lock, procs, time, box, chip, fence, ops, wanted, doubt>>

NoCmd == [kind |-> "none", t |-> Off, outer |-> Off, force |-> FALSE, stage |-> "main", again |-> FALSE]
Free == [st |-> "free", kind |-> "none", t |-> Off, ok |-> TRUE]

Init ==
  /\ word = Off /\ tdd = FALSE /\ stash = Off /\ armed = FALSE
  /\ gen = 1 /\ sess = 1 /\ sgen = 0 /\ lock = NoProc
  /\ pc = [p \in Proc |-> "idle"] /\ plan = [p \in Proc |-> <<>>]
  /\ cur = [p \in Proc |-> NoCmd] /\ res = [p \in Proc |-> TRUE]
  /\ timer = "idle" /\ note = Off /\ work = FALSE
  /\ box = Free /\ irq = FALSE /\ m4 = Free
  /\ fw = [word |-> Off, tdd |-> FALSE, cycled |-> FALSE] /\ lost = FALSE
  /\ fence = FALSE /\ ops = 0 /\ restarts = 0 /\ fails = 0 /\ wanted = Off /\ doubt = FALSE

-----------------------------------------------------------------------------
Idle(p) == plan[p] = <<>> /\ pc[p] = "idle"
Doing(p, what) == plan[p] # <<>> /\ plan[p][1].do = what
Op(what, t) == [do |-> what, t |-> t]
\* rfnm_commanded_reset_active
Resetting == \E i \in DOMAIN plan["apply"] : plan["apply"][i].do = "reset"
Trouble == restarts + fails < TroubleMax

\* rfnm_phy_gen_session_ok()
SessOk == sess = gen

(***************************************************************************)
(* The send lock covers the word's senders only.  A TDD command, a restart *)
(* of the chip until its notification has run, a commanded reset, and the  *)
(* clearing of the word behind a quiesce run without it: whoever starts    *)
(* beside one of them is not alone.  What the chip runs is in doubt from   *)
(* then on, or from a failed command on, until the chip is reset.          *)
(***************************************************************************)
Noticed == ~lost /\ timer = "idle"
InBox(p) == pc[p] \in {"check", "post", "await", "free"}
Alone ==
  /\ lock = NoProc /\ Noticed /\ ~fence
  /\ \A p \in Proc : ~InBox(p) /\ pc[p] # "clear"
Meet == doubt' = (doubt \/ ~Alone)

Start(p, steps) ==
  /\ p \in Actor /\ Idle(p) /\ ops < OpMax
  /\ ops' = ops + 1 /\ plan' = [plan EXCEPT ![p] = steps]
  /\ UNCHANGED <<word, tdd, armed, sgen, lock, pc, cur, res, time, box, chip, fence, doubt, wanted>>

\* rfnm_la9310_stream, under the channel-list lock; it waits for a restart to end
Apply(t) == Idle("session") /\ Start("apply", <<Op("send", t)>>)

\* ... to another DCS clock: a commanded hard reset comes first
ApplyReclock(t) ==
  Idle("session") /\ Start("apply", <<Op("quiesce", Off), Op("tddoff", Off), Op("reset", Off), Op("send", t)>>)

\* rfnm_restart_sm, as far as the stream word goes; the hard-reset mutex keeps
\* it apart from a reclock
Session == ~Resetting /\ Start("session", <<Op("quiesce", Off), Op("tddoff", Off), Op("relatch", Off)>>)

SetTdd(on) == Start("verb", <<Op("tdd", IF on THEN {"rx"} ELSE Off)>>)

\* rfnm_la9310_txn: sets the anchor and queues its re-apply
SetAnchor == SessOk /\ Start("anchor", <<Op("reapply", Off)>>)

\* a windowed client arms the RT ring ahead of its apply
ArmRing ==
  /\ "verb" \in Actor /\ ops < OpMax /\ ~armed /\ ~fence
  /\ armed' = TRUE /\ ops' = ops + 1
  /\ UNCHANGED <<word, tdd, sgen, lock, procs, time, box, chip, fence, doubt, wanted>>

StartHeal ==
  /\ work /\ Idle("heal")
  /\ work' = FALSE /\ plan' = [plan EXCEPT !["heal"] = <<Op("heal", Off)>>]
  /\ UNCHANGED <<word, tdd, armed, sgen, lock, pc, cur, res, gen, sess, timer, note, stash, box, chip, fence, doubt, ops, wanted>>

-----------------------------------------------------------------------------
\* what a step of plan[p] begins with, before any lock
Next1(p) == plan' = [plan EXCEPT ![p] = Tail(@)]
Goto(p, l) == pc' = [pc EXCEPT ![p] = l]
Load(p, kind, t, force) ==
  cur' = [cur EXCEPT ![p] = [NoCmd EXCEPT !.kind = kind, !.t = t, !.outer = t, !.force = force]]

BeginSend(p) ==
  /\ pc[p] = "idle" /\ Doing(p, "send")
  /\ LET t == plan[p][1].t IN
       IF t = word
       THEN Next1(p) /\ wanted' = t /\ UNCHANGED <<pc, cur>>
       ELSE Goto(p, "lock") /\ Load(p, "word", t, FALSE) /\ UNCHANGED <<plan, wanted>>
  /\ UNCHANGED <<word, tdd, armed, sgen, lock, res, time, box, chip, fence, doubt, ops>>

\* rfnm_la9310_quiesce looks at the word without the lock
BeginQuiesce(p) ==
  /\ pc[p] = "idle" /\ Doing(p, "quiesce")
  /\ IF word = Off
     THEN Next1(p) /\ wanted' = Off /\ UNCHANGED <<pc, cur>>
     ELSE Goto(p, "lock") /\ Load(p, "word", Off, FALSE) /\ UNCHANGED <<plan, wanted>>
  /\ UNCHANGED <<word, tdd, armed, sgen, lock, res, time, box, chip, fence, doubt, ops>>

BeginTdd(p) ==
  /\ pc[p] = "idle" /\ (Doing(p, "tdd") \/ Doing(p, "tddoff"))
  /\ IF SessOk /\ (Doing(p, "tddoff") => tdd)
     THEN Goto(p, "check") /\ Load(p, "tdd", plan[p][1].t, FALSE) /\ Meet /\ UNCHANGED plan
     ELSE Next1(p) /\ UNCHANGED <<pc, cur, doubt>>
  /\ UNCHANGED <<word, tdd, armed, sgen, lock, res, time, box, chip, fence, ops, wanted>>

BeginLocked(p) ==
  /\ pc[p] = "idle" /\ (Doing(p, "reapply") \/ Doing(p, "heal"))
  /\ Goto(p, "lock")
  /\ UNCHANGED <<word, tdd, armed, sgen, lock, plan, cur, res, time, box, chip, fence, doubt, ops, wanted>>

Lock(p) ==
  /\ pc[p] = "lock" /\ lock = NoProc /\ (Doing(p, "send") \/ Doing(p, "quiesce"))
  /\ lock' = p /\ Goto(p, "enter") /\ Meet
  /\ UNCHANGED <<word, tdd, armed, sgen, plan, cur, res, time, box, chip, fence, ops, wanted>>

\* mutant: the early return of a re-apply keeps the lock
LockAgainLeaks(p) ==
  /\ pc[p] = "lock" /\ lock = NoProc /\ (Doing(p, "reapply") \/ Doing(p, "heal"))
  /\ Meet
  /\ LET t == IF Doing(p, "heal") THEN stash ELSE word IN
       IF "rx" \in t
       THEN Goto(p, "enter") /\ Load(p, "word", t, TRUE) /\ UNCHANGED plan
       ELSE Next1(p) /\ Goto(p, "idle") /\ UNCHANGED cur
  /\ lock' = p
  /\ stash' = IF Doing(p, "heal") THEN Off ELSE stash
  /\ UNCHANGED <<word, tdd, armed, sgen, res, gen, sess, timer, note, work, box, chip, fence, ops, wanted>>

\* rfnm_la9310_stream_reapply and rfnm_phy_restart_workfn: only words with RX
\* are sent again
LockAgain(p) ==
  /\ pc[p] = "lock" /\ lock = NoProc /\ (Doing(p, "reapply") \/ Doing(p, "heal"))
  /\ Meet
  /\ LET t == IF Doing(p, "heal") THEN stash ELSE word IN
       IF "rx" \in t
       THEN lock' = p /\ Goto(p, "enter") /\ Load(p, "word", t, TRUE) /\ UNCHANGED plan
       ELSE Next1(p) /\ Goto(p, "idle") /\ UNCHANGED <<lock, cur>>
  /\ stash' = IF Doing(p, "heal") THEN Off ELSE stash
  /\ UNCHANGED <<word, tdd, armed, sgen, res, gen, sess, timer, note, work, box, chip, fence, ops, wanted>>

(***************************************************************************)
(* __rfnm_la9310_stream_send.  An armed ring makes a TX word windowed; an  *)
(* unchanged word is not sent; the first TX word of a time generation is   *)
(* preceded by an internal RX cycle (stages "on" and "off"), whose failure *)
(* is passed over.                                                         *)
(***************************************************************************)
Windowed(t) == IF armed /\ ~fence /\ "tx" \in t THEN t \cup {"win"} ELSE t
\* mutant: the cycle runs once per boot, not once per generation
NeedsCycleOnce(t) == "tx" \in t /\ sgen = 0 /\ "rx" \notin word

NeedsCycle(t) == "tx" \in t /\ sgen # gen /\ "rx" \notin word

Enter(p) ==
  /\ pc[p] = "enter"
  /\ LET c == cur[p]
         t == IF c.stage = "main" THEN Windowed(c.t) ELSE c.t
     IN \/ /\ c.stage = "main" /\ ~c.force /\ t = word
           /\ Goto(p, "unlock") /\ res' = [res EXCEPT ![p] = TRUE] /\ UNCHANGED cur
        \/ /\ c.stage = "main" /\ (c.force \/ t # word)
           /\ Goto(p, "check") /\ UNCHANGED res
           /\ cur' = [cur EXCEPT ![p] = IF NeedsCycle(t)
                        THEN [c EXCEPT !.t = {"rx"}, !.outer = t, !.stage = "on"]
                        ELSE [c EXCEPT !.t = t, !.outer = t]]
        \/ /\ c.stage = "off" /\ Goto(p, "check") /\ UNCHANGED res
           /\ cur' = [cur EXCEPT ![p] = IF t = word THEN [c EXCEPT !.t = c.outer, !.stage = "main"] ELSE c]
  /\ UNCHANGED <<word, tdd, armed, sgen, lock, plan, time, box, chip, fence, doubt, ops, wanted>>

(***************************************************************************)
(* rf_send_swcmd and rf_free_cmd, which take no lock of their own.         *)
(***************************************************************************)
Check(p) ==
  /\ pc[p] = "check"
  /\ IF fence \/ box.st = "posted"
     THEN Goto(p, "free") /\ res' = [res EXCEPT ![p] = FALSE]
     ELSE Goto(p, "post") /\ UNCHANGED res
  /\ UNCHANGED <<word, tdd, armed, sgen, lock, plan, cur, time, box, chip, fence, doubt, ops, wanted>>

Post(p) ==
  /\ pc[p] = "post" /\ Goto(p, "await")
  /\ IF fence THEN UNCHANGED <<box, irq>>
     ELSE box' = [st |-> "posted", kind |-> cur[p].kind, t |-> cur[p].t, ok |-> TRUE] /\ irq' = TRUE
  /\ UNCHANGED <<word, tdd, armed, sgen, lock, plan, cur, res, time, m4, fw, lost, restarts, fails, fence, doubt, ops, wanted>>

AwaitDone(p) ==
  /\ pc[p] = "await" /\ ~fence /\ box.st = "done"
  /\ res' = [res EXCEPT ![p] = box.ok] /\ box' = [box EXCEPT !.st = "free"] /\ Goto(p, "free")
  /\ UNCHANGED <<word, tdd, armed, sgen, lock, plan, cur, time, chip, fence, doubt, ops, wanted>>

\* rf_free_cmd
FreeCmd == box' = IF fence THEN box ELSE [box EXCEPT !.st = "free"]

\* the wait ends without an answer: the link is fenced, the answer is not
\* coming, or it comes later than the 100 ms the host waits
AwaitTimeout(p) ==
  /\ pc[p] = "await" /\ (fence \/ box.st # "done")
  /\ \/ (fence \/ (~irq /\ m4 = Free)) /\ UNCHANGED fails
     \/ ~fence /\ (irq \/ m4 # Free) /\ Trouble /\ fails' = fails + 1
  /\ doubt' = (doubt \/ fails' # fails)
  /\ res' = [res EXCEPT ![p] = FALSE] /\ Goto(p, "free")
  /\ FreeCmd
  /\ UNCHANGED <<word, tdd, armed, sgen, lock, plan, cur, time, irq, m4, fw, lost, restarts, fence, ops, wanted>>

FreeTdd(p) ==
  /\ pc[p] = "free" /\ cur[p].kind = "tdd"
  /\ FreeCmd /\ Goto(p, "idle")
  /\ IF res[p]
     THEN tdd' = (cur[p].t # Off) /\ plan' = [plan EXCEPT ![p] = <<Op("reapply", Off)>> \o Tail(@)]
     ELSE Next1(p) /\ UNCHANGED tdd
  /\ UNCHANGED <<word, armed, sgen, lock, cur, res, time, chip, fence, doubt, ops, wanted>>

\* an accepted word whose anchors do not show up is sent once more
FreeWord(p) ==
  /\ pc[p] = "free" /\ cur[p].kind = "word" /\ FreeCmd
  /\ LET c == cur[p] IN
       \/ /\ res[p] /\ Goto(p, "commit") /\ UNCHANGED cur
       \/ /\ res[p] /\ c.t # Off /\ ~c.again
          /\ Goto(p, "check") /\ cur' = [cur EXCEPT ![p].again = TRUE]
       \/ /\ ~res[p] /\ c.stage = "main" /\ Goto(p, "unlock") /\ UNCHANGED cur
       \/ /\ ~res[p] /\ c.stage # "main"
          /\ Goto(p, "check") /\ cur' = [cur EXCEPT ![p].t = c.outer, ![p].stage = "main", ![p].again = FALSE]
  /\ UNCHANGED <<word, tdd, armed, sgen, lock, plan, res, time, chip, fence, doubt, ops, wanted>>

\* the word landed: ring armed or handed back, word and generation recorded
Commit(p) ==
  /\ pc[p] = "commit"
  /\ LET c == cur[p] IN
       /\ armed' = IF fence THEN armed
                   ELSE "win" \in c.t \/ (armed /\ "win" \notin word /\ "tx" \notin c.t)
       /\ word' = c.t
       /\ sgen' = IF c.t # Off THEN gen ELSE sgen
       /\ CASE c.stage = "main" -> Goto(p, "unlock") /\ UNCHANGED cur
            [] c.stage = "on" -> Goto(p, "enter") /\ cur' = [cur EXCEPT ![p].t = Off, ![p].stage = "off", ![p].again = FALSE]
            [] c.stage = "off" -> Goto(p, "check") /\ cur' = [cur EXCEPT ![p].t = c.outer, ![p].stage = "main"]
  /\ UNCHANGED <<tdd, lock, plan, res, time, box, chip, fence, doubt, ops, wanted>>

Unlock(p) ==
  /\ pc[p] = "unlock" /\ lock' = NoProc
  /\ Goto(p, IF Doing(p, "quiesce") THEN "clear" ELSE "idle")
  /\ plan' = CASE Doing(p, "quiesce") -> plan
               [] Doing(p, "send") /\ ~res[p] -> [plan EXCEPT ![p] = <<>>]
               [] OTHER -> [plan EXCEPT ![p] = Tail(@)]
  /\ word' = IF Doing(p, "reapply") /\ ~res[p] THEN Off ELSE word
  /\ wanted' = IF Doing(p, "send") /\ res[p] THEN plan[p][1].t ELSE wanted
  /\ UNCHANGED <<tdd, armed, sgen, cur, res, time, box, chip, fence, doubt, ops>>

\* rfnm_la9310_quiesce clears the word after it, whatever the send returned
Clear(p) ==
  /\ pc[p] = "clear" /\ Goto(p, "idle") /\ Next1(p)
  /\ word' = Off /\ wanted' = Off
  /\ UNCHANGED <<tdd, armed, sgen, lock, cur, res, time, box, chip, fence, doubt, ops>>

-----------------------------------------------------------------------------
(***************************************************************************)
(* The commanded hard reset: the link is fenced while the chip reboots; a  *)
(* new time generation begins, and the session that commanded it joins it. *)
(***************************************************************************)
ChipOff ==
  /\ fw' = [word |-> Off, tdd |-> FALSE, cycled |-> FALSE] /\ irq' = FALSE /\ m4' = Free /\ box' = Free

ResetBegin ==
  /\ pc["apply"] = "idle" /\ Doing("apply", "reset") /\ ~fence
  /\ fence' = TRUE /\ doubt' = ~Alone /\ ChipOff /\ armed' = FALSE /\ lost' = FALSE
  /\ UNCHANGED <<word, tdd, sgen, lock, procs, time, restarts, fails, ops, wanted>>

\* the workers do not stop: no reset, and the apply fails
ResetAbort ==
  /\ pc["apply"] = "idle" /\ Doing("apply", "reset") /\ ~fence /\ Trouble
  /\ fails' = fails + 1 /\ plan' = [plan EXCEPT !["apply"] = <<>>]
  /\ UNCHANGED <<word, tdd, armed, sgen, lock, pc, cur, res, time, box, irq, m4, fw, lost, restarts, fence, doubt, ops, wanted>>

ResetEnd ==
  /\ fence /\ fence' = FALSE
  /\ gen' = gen + 1 /\ sess' = gen + 1 /\ word' = Off
  /\ Next1("apply")
  /\ UNCHANGED <<tdd, armed, sgen, lock, pc, cur, res, timer, note, work, stash, box, chip, ops, wanted, doubt>>

\* rfnm_restart_sm: the incoming owner works in the live generation
Relatch(p) ==
  /\ pc[p] = "idle" /\ Doing(p, "relatch")
  /\ sess' = gen /\ Next1(p)
  /\ UNCHANGED <<word, tdd, armed, sgen, lock, pc, cur, res, gen, timer, note, work, stash, box, chip, fence, doubt, ops, wanted>>

(***************************************************************************)
(* The chip restarts by itself; the PHY timer sees its counter run         *)
(* backwards, starts a new generation and lets the word be applied again   *)
(* (rfnm_lalib_phy_restart_notify, a timer callback without the lock).     *)
(***************************************************************************)
ChipRestart ==
  /\ Trouble /\ ~fence /\ ~Resetting /\ doubt' = ~Alone
  /\ restarts' = restarts + 1 /\ ChipOff /\ lost' = TRUE /\ armed' \in {armed, FALSE}
  /\ UNCHANGED <<word, tdd, sgen, lock, procs, time, fails, fence, ops, wanted>>

\* during a commanded reset no notification follows
DetectRestart ==
  /\ lost /\ timer = "idle" /\ ~fence
  /\ lost' = FALSE /\ gen' = gen + 1
  /\ timer' = (IF Resetting THEN "idle" ELSE "notify") /\ doubt' = (doubt \/ Resetting)
  /\ UNCHANGED <<word, tdd, armed, sgen, lock, procs, sess, note, work, stash, box, irq, m4, fw, restarts, fails, fence, ops, wanted>>

NotifyRead ==
  /\ timer = "notify" /\ note' = word
  /\ timer' = IF word = Off THEN "idle" ELSE "stash"
  /\ UNCHANGED <<word, tdd, armed, sgen, lock, procs, gen, sess, work, stash, box, chip, fence, doubt, ops, wanted>>

\* mutant: the word survives the restart
NotifyStashKeeps ==
  /\ timer = "stash" /\ timer' = "idle"
  /\ stash' = note /\ work' = TRUE
  /\ UNCHANGED <<word, tdd, armed, sgen, lock, procs, gen, sess, note, box, chip, fence, doubt, ops, wanted>>

NotifyStash ==
  /\ timer = "stash" /\ timer' = "idle"
  /\ stash' = note /\ word' = Off /\ work' = TRUE
  /\ UNCHANGED <<tdd, armed, sgen, lock, procs, gen, sess, note, box, chip, fence, doubt, ops, wanted>>

-----------------------------------------------------------------------------
(***************************************************************************)
(* The M4 core: an interrupt makes it read the mailbox; it answers when it *)
(* is done, whatever the mailbox holds by then.  A command taken back by   *)
(* then is not seen.                                                       *)
(***************************************************************************)
M4Take ==
  /\ irq /\ m4 = Free /\ irq' = FALSE
  /\ m4' = IF box.st = "posted" THEN [box EXCEPT !.st = "work"] ELSE Free
  /\ UNCHANGED <<word, tdd, armed, sgen, lock, procs, time, box, fw, lost, restarts, fails, fence, doubt, ops, wanted>>

M4Done ==
  /\ m4 # Free /\ m4' = Free /\ box' = [box EXCEPT !.st = "done", !.ok = TRUE]
  /\ fw' = IF m4.kind = "tdd" THEN [fw EXCEPT !.tdd = (m4.t # Off)]
           ELSE [fw EXCEPT !.word = m4.t, !.cycled = @ \/ m4.t # Off]
  /\ UNCHANGED <<word, tdd, armed, sgen, lock, procs, time, irq, lost, restarts, fails, fence, doubt, ops, wanted>>

\* an error, after which the old stream may be running or torn down
M4Fail ==
  /\ m4 # Free /\ Trouble /\ fails' = fails + 1 /\ doubt' = TRUE
  /\ m4' = Free /\ box' = [box EXCEPT !.st = "done", !.ok = FALSE]
  /\ fw' \in {fw, [fw EXCEPT !.word = Off]}
  /\ UNCHANGED <<word, tdd, armed, sgen, lock, procs, time, irq, lost, restarts, fence, ops, wanted>>

-----------------------------------------------------------------------------
Client ==
  \/ \E t \in Ask : Apply(t) \/ ApplyReclock(t)
  \/ Session \/ (\E on \in BOOLEAN : SetTdd(on)) \/ SetAnchor \/ ArmRing

Step(p) ==
  \/ BeginSend(p) \/ BeginQuiesce(p) \/ BeginTdd(p) \/ BeginLocked(p) \/ Lock(p) \/ LockAgain(p)
  \/ Enter(p) \/ Check(p) \/ Post(p) \/ AwaitDone(p) \/ AwaitTimeout(p) \/ FreeTdd(p) \/ FreeWord(p)
  \/ Commit(p) \/ Unlock(p) \/ Clear(p) \/ Relatch(p)

\* what the driver and a working firmware do by themselves
Work ==
  \/ \E p \in Proc : Step(p)
  \/ ResetBegin \/ ResetEnd
  \/ DetectRestart \/ NotifyRead \/ NotifyStash \/ StartHeal
  \/ M4Take \/ M4Done

Next == Client \/ Work \/ ResetAbort \/ ChipRestart \/ M4Fail

Spec == Init /\ [][Next]_vars

\* Bound of the run: one operation less is explored beyond a doubt.
FewInDoubt == doubt => ops < OpMax

-----------------------------------------------------------------------------
\* Nobody is sending, waiting or notifying, and the M4 has nothing to do.
Quiet ==
  /\ \A p \in Proc : Idle(p)
  /\ ~work /\ Noticed /\ ~irq /\ m4 = Free

\* Every variable keeps its type; no session and no stream is ahead of the
\* time generation.
TypeOK ==
  /\ {word, stash, note, wanted, fw.word} \subseteq Word /\ {tdd, armed, fence, lost, doubt} \subseteq BOOLEAN
  /\ lock \in Proc \cup {NoProc} /\ sess <= gen /\ sgen <= gen
  /\ box.st \in {"free", "posted", "done"} /\ m4.st \in {"free", "work"}

\* Once everything has come to rest, the recorded word is what the chip runs:
\* "under this lock the live word is settled truth" (rfnm_lalib.c:392), on which
\* the same-word early return relies.  Excepted is what is in doubt: since the
\* chip's last reset a command failed, or ran into what the lock does not cover.
Settled == Quiet /\ ~doubt => fw.word = word

\* The same, whatever failed and met: refuted.
AlwaysSettled == Quiet => fw.word = word

\* "Before the FIRST TX-carrying word of a phy time generation, run one internal
\* RX micro-cycle": the chip starts TX only when some lane has cycled since its
\* last reset, with the same exception (the cycle is fail-open).
TxCycled == [][("tx" \in fw'.word /\ "tx" \notin fw.word) => fw.cycled \/ doubt]_vars

\* What Work's actions ask for before they act, spelled out.
CanStep(p) ==
  \/ pc[p] = "idle" /\ \E what \in {"send", "quiesce", "tdd", "tddoff", "reapply", "heal", "relatch"} :
       Doing(p, what)
  \/ pc[p] = "lock" /\ lock = NoProc /\ \E what \in {"send", "quiesce", "reapply", "heal"} : Doing(p, what)
  \/ pc[p] = "enter" /\ cur[p].stage # "on"
  \/ pc[p] \in {"check", "post", "commit", "unlock", "clear"}
  \/ pc[p] = "await" /\ (fence \/ box.st = "done" \/ (~irq /\ m4 = Free))
  \/ pc[p] = "free" /\ cur[p].kind # "none"

CanWork ==
  \/ \E p \in Proc : CanStep(p)
  \/ pc["apply"] = "idle" /\ Doing("apply", "reset") /\ ~fence
  \/ fence \/ ~Noticed \/ irq \/ m4 # Free \/ (work /\ Idle("heal"))

WorkEnabled == ENABLED Work

\* Where CanWork holds, the driver, its timer or the M4 can act: CanWork stands
\* for ENABLED Work in what is proved of a sender that waits.
GuardsTrue == CanWork => WorkEnabled

\* No sender waits for ever: as long as an operation is unfinished, the driver,
\* its timer or the M4 has a step to take, whoever failed on the way.
NoHang == (\E p \in Proc : ~Idle(p)) => WorkEnabled

\* A word nobody wants any more is not streamed: at rest the word is off or the
\* one last asked for.  A re-apply must not "cross a concurrent quiesce and heal
\* a torn-down session" (rfnm_lalib.c:391).
NoStaleWord == Quiet => word \ {"win"} \in {wanted, Off}
=============================================================================
