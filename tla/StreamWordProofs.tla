-------------------------- MODULE StreamWordProofs --------------------------
(***************************************************************************)
(* Proofs about StreamWord, for any processes, words, operations and       *)
(* troubles: where nothing is in doubt (no command failed and none ran     *)
(* into what the send lock does not cover, since the chip's last reset),   *)
(* the recorded word is what the chip runs, and no TX starts before a lane *)
(* has cycled; whatever overlaps and fails, an unfinished operation finds  *)
(* somebody who can act.                                                   *)
(***************************************************************************)
EXTENDS StreamWord, SequenceTheorems, TLAPS

(***************************************************************************)
(* The inductive invariant.                                                *)
(***************************************************************************)
Deed == {"send", "quiesce", "tddoff", "reset", "relatch", "tdd", "reapply", "heal"}
Kind == {"none", "word", "tdd"}
Cmd  == [kind : Kind, t : Word, outer : Word, force : BOOLEAN,
         stage : {"main", "on", "off"}, again : BOOLEAN]
Act  == [do : Deed, t : Word]
Mail == [st : {"free", "posted", "work", "done"}, kind : Kind, t : Word, ok : BOOLEAN]
Label == {"idle", "lock", "enter", "check", "post", "await", "free", "commit", "unlock", "clear"}

TypedWords ==
  /\ word \in Word /\ stash \in Word /\ note \in Word /\ wanted \in Word
  /\ fw \in [word : Word, tdd : BOOLEAN, cycled : BOOLEAN] /\ tdd \in BOOLEAN

TypedChip ==
  /\ armed \in BOOLEAN /\ fence \in BOOLEAN /\ lost \in BOOLEAN
  /\ irq \in BOOLEAN /\ work \in BOOLEAN /\ timer \in {"idle", "notify", "stash"}
  /\ doubt \in BOOLEAN
  /\ box \in Mail /\ box.st # "work" /\ m4 \in Mail /\ m4.st \in {"free", "work"}

TypedCounts ==
  /\ gen \in Nat /\ sess \in 0..gen /\ sgen \in 0..gen
  /\ ops \in Nat /\ restarts \in Nat /\ fails \in Nat

TypedProcs ==
  /\ lock \in Proc \cup {NoProc} /\ pc \in [Proc -> Label]
  /\ plan \in [Proc -> Seq(Act)] /\ cur \in [Proc -> Cmd] /\ res \in [Proc -> BOOLEAN]

Typed == TypedWords /\ TypedChip /\ TypedCounts /\ TypedProcs

\* the lock belongs to the sender of a word, until it has recorded it
Holds(p) ==
  /\ pc[p] # "idle" => plan[p] # <<>>
  /\ pc[p] \in {"enter", "commit", "unlock"} => lock = p
  /\ lock = p => pc[p] \notin {"idle", "lock", "clear"}
  /\ InBox(p) => cur[p].kind # "none" /\ (cur[p].kind = "word" <=> lock = p)
  /\ pc[p] \in {"enter", "commit"} => cur[p].kind = "word" /\ ~(pc[p] = "enter" /\ cur[p].again)
  /\ pc[p] = "lock" /\ (Doing(p, "send") \/ Doing(p, "quiesce")) =>
       cur[p].kind = "word" /\ cur[p].stage = "main" /\ ~cur[p].again
  /\ InBox(p) /\ cur[p].kind = "tdd" => ~Doing(p, "quiesce")
  /\ cur[p].kind = "tdd" => ~cur[p].again
  /\ cur[p].stage = "on" => cur[p].t = {"rx"}
  /\ cur[p].stage = "off" => cur[p].t = Off /\ ~cur[p].again

\* a quiesce sends the empty word and nothing else
Stops(p) ==
  /\ Doing(p, "quiesce") /\ pc[p] # "idle" =>
       cur[p].kind = "word" /\ cur[p].stage = "main" /\ cur[p].t = Off
  /\ pc[p] = "clear" => Doing(p, "quiesce")

\* the reset fences the link for the apply that commanded it
Fenced == fence => pc["apply"] = "idle" /\ Doing("apply", "reset")

Wired == Typed /\ (\A p \in Proc : Holds(p) /\ Stops(p)) /\ Fenced

\* a process has the mailbox or the word
Active(p) == lock = p \/ InBox(p) \/ pc[p] = "clear"

Excl ==
  ~doubt =>
    /\ \A p, q \in Proc : Active(p) /\ Active(q) => p = q
    /\ \A p \in Proc : Active(p) => Noticed /\ ~fence
    /\ fence => Noticed

\* the word an active process sends, or sent before it sends it again
Known(p) == IF cur[p].again THEN cur[p].t ELSE word

\* how the mailbox and the M4 have the command p waits for
Answering(p) ==
  \/ /\ box = [st |-> "posted", kind |-> cur[p].kind, t |-> cur[p].t, ok |-> TRUE]
     /\ irq /\ m4 = Free /\ fw.word = Known(p)
  \/ /\ box = [st |-> "posted", kind |-> cur[p].kind, t |-> cur[p].t, ok |-> TRUE]
     /\ ~irq /\ m4 = [box EXCEPT !.st = "work"] /\ fw.word = Known(p)
  \/ /\ box.st = "done" /\ box.ok /\ ~irq /\ m4 = Free
     /\ fw.word = IF cur[p].kind = "word" THEN cur[p].t ELSE word

Answered ==
  /\ \A p \in Proc : pc[p] \in {"free", "commit", "unlock"} => res[p]
  /\ (\A p \in Proc : pc[p] # "await") => box.st = "free" /\ ~irq /\ m4 = Free
  /\ \A p \in Proc : pc[p] = "await" => Answering(p)

\* what the chip runs, by where the sender of a word is
Truth ==
  /\ fence \/ ~Noticed => fw.word = Off
  /\ Noticed /\ ~fence /\ (\A p \in Proc : ~Active(p)) => fw.word = word
  /\ \A p \in Proc :
       /\ pc[p] \in {"enter", "clear", "unlock"} => fw.word = word
       /\ pc[p] \in {"check", "post"} => fw.word = Known(p)
       /\ pc[p] \in {"free", "commit"} =>
            fw.word = IF cur[p].kind = "word" THEN cur[p].t ELSE word
       /\ pc[p] = "clear" \/ (pc[p] = "unlock" /\ Doing(p, "quiesce")) => word = Off

\* a lane has cycled: the chip runs or ran a word, or recorded one in this
\* generation, or is about to be told to transmit
Cycled ==
  /\ fw.word # Off => fw.cycled
  /\ ~lost /\ ~fence /\ sgen = gen => fw.cycled
  /\ \A p \in Proc : lock = p =>
       /\ pc[p] # "enter" /\ "tx" \in cur[p].t => fw.cycled
       /\ cur[p].stage = "off" => fw.cycled

Trues == ~doubt => Answered /\ Truth /\ Cycled

SInv == Wired /\ Excl /\ Trues

LEMMA Words ==
  /\ Off \in Word /\ {"rx"} \in Word /\ (\A t \in Word : t \cup {"win"} \in Word)
  /\ Free \in Mail /\ NoCmd \in Cmd
<1>1. Off \in Word /\ {"rx"} \in Word /\ (\A t \in Word : t \cup {"win"} \in Word)
  BY DEF Off, Word
<1>2. Free \in Mail /\ NoCmd \in Cmd
  BY <1>1 DEF Free, NoCmd, Mail, Cmd, Kind
<1> QED BY <1>1, <1>2

\* The rest of a plan is a plan.
LEMMA PlanTail ==
  ASSUME NEW s \in Seq(Act), s # <<>>
  PROVE  /\ Tail(s) \in Seq(Act) /\ s[1] \in Act
         /\ <<Op("reapply", Off)>> \o Tail(s) \in Seq(Act)
<1>1. Op("reapply", Off) \in Act
  BY Words DEF Op, Act, Deed
<1>2. Tail(s) \in Seq(Act) /\ s[1] \in Act
  OBVIOUS
<1> QED BY <1>1, <1>2

\* A process that loads a command has that command.
LEMMA Loads ==
  ASSUME Typed, NEW p \in Proc, NEW k \in Kind, NEW t \in Word, NEW f \in BOOLEAN, Load(p, k, t, f)
  PROVE  /\ cur' \in [Proc -> Cmd] /\ \A q \in Proc \ {p} : cur'[q] = cur[q]
         /\ cur'[p].kind = k /\ cur'[p].t = t /\ cur'[p].outer = t
         /\ cur'[p].stage = "main" /\ ~cur'[p].again
<1> DEFINE c == [NoCmd EXCEPT !.kind = k, !.t = t, !.outer = t, !.force = f]
<1>1. c.kind = k /\ c.t = t /\ c.outer = t /\ c.stage = "main" /\ ~c.again
  BY DEF NoCmd
<1>2. c \in Cmd
  BY Words DEF Cmd
<1>3. cur \in [Proc -> Cmd] /\ cur' = [cur EXCEPT ![p] = c]
  BY DEF Load, Typed, TypedProcs
<1> HIDE DEF c
<1> QED BY <1>1, <1>2, <1>3

\* What changes in a mail leaves it a mail.
LEMMA MailSt ==
  ASSUME NEW b \in Mail, NEW s \in {"free", "posted", "work", "done"}
  PROVE  [b EXCEPT !.st = s] \in Mail /\ [b EXCEPT !.st = s].st = s
  BY DEF Mail

LEMMA MailOk ==
  ASSUME NEW b \in Mail, NEW s \in {"free", "posted", "work", "done"}, NEW o \in BOOLEAN
  PROVE  [b EXCEPT !.st = s, !.ok = o] \in Mail /\ [b EXCEPT !.st = s, !.ok = o].st = s
  BY DEF Mail

LEMMA InitInv == Init => SInv
<1> SUFFICES ASSUME Init PROVE SInv
  OBVIOUS
<1> USE WordAssumption DEF Init
<1>1. Typed
  <2>1. TypedWords
    BY Words DEF TypedWords
  <2>2. Free.st = "free"
    BY DEF Free
  <2>3. TypedChip
    BY Words, <2>2 DEF TypedChip
  <2>4. TypedCounts
    BY DEF TypedCounts
  <2>5. TypedProcs
    BY Words DEF TypedProcs, Label
  <2> QED BY <2>1, <2>3, <2>4, <2>5 DEF Typed
<1>2. \A p \in Proc : Holds(p) /\ Stops(p)
  BY DEF Holds, Stops, InBox, Doing, NoCmd, Proc
<1>3. Fenced /\ Excl
  BY DEF Fenced, Excl, Active, InBox, Proc
<1>4. Trues
  BY DEF Trues, Answered, Truth, Cycled, Noticed, Free, Off
<1> QED BY <1>1, <1>2, <1>3, <1>4 DEF SInv, Wired

(***************************************************************************)
(* Wired, which holds whatever overlaps and whatever fails.                *)
(***************************************************************************)

\* A process that is done with what its plan began with.
LEMMA Skip ==
  ASSUME Wired, NEW p \in Proc, NEW s \in Seq(Act), plan' = [plan EXCEPT ![p] = s],
         pc' = [pc EXCEPT ![p] = "idle"], cur' = cur, res' = res,
         lock' = IF lock = p THEN NoProc ELSE lock
  PROVE  TypedProcs' /\ \A q \in Proc : Holds(q)' /\ Stops(q)'
<1> USE WordAssumption DEF Wired, Typed, TypedProcs
<1>1. TypedProcs'
  BY DEF Label
<1>2. ASSUME NEW q \in Proc PROVE Holds(q)' /\ Stops(q)'
  BY DEF Holds, Stops, InBox, Doing
<1> QED BY <1>1, <1>2

\* A process that has loaded a command, at l: before the lock, with the lock
\* for a re-apply, or at the mailbox for a TDD command.
LEMMA Loaded ==
  ASSUME Wired, NEW p \in Proc, NEW k \in Kind, NEW t \in Word, NEW f \in BOOLEAN, Load(p, k, t, f),
         NEW l \in Label, pc' = [pc EXCEPT ![p] = l], plan' = plan, res' = res, lock # p, plan[p] # <<>>,
         \/ l = "lock" /\ k = "word" /\ lock' = lock /\ (Doing(p, "quiesce") => t = Off)
         \/ l = "enter" /\ k = "word" /\ lock = NoProc /\ lock' = p /\ ~Doing(p, "quiesce")
         \/ l = "check" /\ k = "tdd" /\ lock' = lock /\ ~Doing(p, "quiesce")
  PROVE  TypedProcs' /\ \A q \in Proc : Holds(q)' /\ Stops(q)'
<1> USE WordAssumption DEF Wired, Typed, TypedProcs
<1>1. /\ cur' \in [Proc -> Cmd] /\ \A q \in Proc \ {p} : cur'[q] = cur[q]
      /\ cur'[p].kind = k /\ cur'[p].t = t /\ cur'[p].outer = t
      /\ cur'[p].stage = "main" /\ ~cur'[p].again
  BY Loads
<1>2. TypedProcs'
  BY <1>1 DEF Label
<1>3. ASSUME NEW q \in Proc PROVE Holds(q)' /\ Stops(q)'
  <2>1. CASE q = p
    BY <1>1, <2>1 DEF Holds, Stops, InBox, Doing
  <2>2. CASE q # p
    <3>1. cur'[q] = cur[q] /\ pc'[q] = pc[q] /\ plan'[q] = plan[q]
      BY <1>1, <2>2
    <3>2. Holds(q) /\ Stops(q)
      OBVIOUS
    <3> QED BY <3>1, <3>2, <2>2 DEF Holds, Stops, InBox, Doing
  <2> QED BY <2>1, <2>2
<1> QED BY <1>2, <1>3

LEMMA BeginWired ==
  ASSUME Wired, NEW p \in Proc,
         BeginSend(p) \/ BeginQuiesce(p) \/ BeginTdd(p) \/ BeginLocked(p) \/ LockAgain(p) \/ Relatch(p)
  PROVE  Wired'
<1> USE WordAssumption DEF procs, chip, time
<1>0. Typed /\ TypedProcs /\ TypedWords /\ Fenced /\ Holds(p) /\ Stops(p) /\ \A q \in Proc : Holds(q) /\ Stops(q)
  BY DEF Wired, Typed
<1>1. plan[p] # <<>>
  BY DEF BeginSend, BeginQuiesce, BeginTdd, BeginLocked, LockAgain, Relatch, Doing
<1>2. Tail(plan[p]) \in Seq(Act) /\ plan[p][1] \in Act /\ plan[p][1].t \in Word
  BY <1>0, <1>1, PlanTail DEF TypedProcs, Act
<1>3. TypedWords' /\ TypedChip' /\ TypedCounts'
  <2>1. TypedWords'
    BY <1>0, <1>2, Words DEF BeginSend, BeginQuiesce, BeginTdd, BeginLocked, LockAgain, Relatch, TypedWords
  <2>2. TypedChip'
    <3>1. doubt' \in BOOLEAN
      BY <1>0 DEF BeginSend, BeginQuiesce, BeginTdd, BeginLocked, LockAgain, Relatch, Meet, Typed, TypedChip
    <3> QED BY <1>0, <3>1 DEF BeginSend, BeginQuiesce, BeginTdd, BeginLocked, LockAgain, Relatch, Typed, TypedChip
  <2>3. TypedCounts'
    <3>1. CASE Relatch(p)
      BY <1>0, <3>1 DEF Relatch, Typed, TypedCounts
    <3>2. CASE ~Relatch(p)
      BY <1>0, <3>2 DEF BeginSend, BeginQuiesce, BeginTdd, BeginLocked, LockAgain, Typed, TypedCounts
    <3> QED BY <3>1, <3>2
  <2> QED BY <2>1, <2>2, <2>3
<1>4. Fenced'
  <2>1. fence' = fence /\ (p = "apply" /\ fence => FALSE)
    BY <1>0 DEF BeginSend, BeginQuiesce, BeginTdd, BeginLocked, LockAgain, Relatch, Fenced, Doing
  <2>2. p # "apply" => plan'["apply"] = plan["apply"] /\ pc'["apply"] = pc["apply"]
    <3>1. plan' = plan \/ Next1(p)
      BY DEF BeginSend, BeginQuiesce, BeginTdd, BeginLocked, LockAgain, Relatch
    <3>2. pc' = pc \/ Goto(p, "idle") \/ Goto(p, "lock") \/ Goto(p, "enter") \/ Goto(p, "check")
      BY DEF BeginSend, BeginQuiesce, BeginTdd, BeginLocked, LockAgain, Relatch
    <3> QED BY <1>0, <3>1, <3>2 DEF TypedProcs, Proc, Next1, Goto
  <2> QED BY <1>0, <2>1, <2>2 DEF Fenced, Doing
<1>5. lock # p
  BY <1>0 DEF BeginSend, BeginQuiesce, BeginTdd, BeginLocked, LockAgain, Relatch, Holds
<1>6. ASSUME pc' = [pc EXCEPT ![p] = "idle"] \/ (pc[p] = "idle" /\ pc' = pc), Next1(p), UNCHANGED <<cur, res, lock>>
      PROVE  TypedProcs' /\ \A q \in Proc : Holds(q)' /\ Stops(q)'
  <2>1. pc' = [pc EXCEPT ![p] = "idle"]
    BY <1>0, <1>6 DEF TypedProcs
  <2> QED BY <1>2, <1>5, <1>6, <2>1, Skip DEF Next1
<1>7. TypedProcs' /\ \A q \in Proc : Holds(q)' /\ Stops(q)'
  <2>1. CASE BeginSend(p)
    <3>1. CASE plan[p][1].t = word
      BY <2>1, <3>1, <1>6 DEF BeginSend
    <3>2. CASE plan[p][1].t # word
      <4>1. ~Doing(p, "quiesce")
        BY <2>1 DEF BeginSend, Doing
      <4> QED BY <2>1, <3>2, <4>1, <1>1, <1>2, <1>5, Loaded DEF BeginSend, Goto, Kind, Label
    <3> QED BY <3>1, <3>2
  <2>2. CASE BeginQuiesce(p)
    <3>1. CASE word = Off
      BY <2>2, <3>1, <1>6 DEF BeginQuiesce
    <3>2. CASE word # Off
      BY <2>2, <3>2, <1>1, <1>5, Words, Loaded DEF BeginQuiesce, Goto, Kind, Label
    <3> QED BY <3>1, <3>2
  <2>3. CASE BeginTdd(p)
    <3>1. CASE SessOk /\ (Doing(p, "tddoff") => tdd)
      <4>1. ~Doing(p, "quiesce")
        BY <2>3 DEF BeginTdd, Doing
      <4> QED BY <2>3, <3>1, <4>1, <1>1, <1>2, <1>5, Loaded DEF BeginTdd, Goto, Kind, Label
    <3>2. CASE ~(SessOk /\ (Doing(p, "tddoff") => tdd))
      BY <2>3, <3>2, <1>6 DEF BeginTdd
    <3> QED BY <3>1, <3>2
  <2>4. CASE BeginLocked(p)
    <3>1. TypedProcs'
      BY <1>0, <2>4 DEF BeginLocked, TypedProcs, Goto, Label
    <3>2. ASSUME NEW q \in Proc PROVE Holds(q)' /\ Stops(q)'
      BY <1>0, <2>4 DEF BeginLocked, TypedProcs, Goto, Holds, Stops, InBox, Doing
    <3> QED BY <3>1, <3>2
  <2>5. CASE LockAgain(p)
    <3> DEFINE t == IF Doing(p, "heal") THEN stash ELSE word
    <3>1. t \in Word
      BY <1>0 DEF TypedWords
    <3>2. ~Doing(p, "quiesce") /\ lock = NoProc
      BY <2>5 DEF LockAgain, Doing
    <3>3. CASE "rx" \in t
      <4>1. lock' = p /\ pc' = [pc EXCEPT ![p] = "enter"] /\ Load(p, "word", t, TRUE) /\ plan' = plan /\ res' = res
        BY <2>5, <3>3 DEF LockAgain, Goto
      <4> HIDE DEF t
      <4> QED BY <4>1, <3>1, <3>2, <1>1, <1>5, Loaded DEF Kind, Label
    <3>4. CASE "rx" \notin t
      BY <2>5, <3>4, <1>6 DEF LockAgain, Goto
    <3> QED BY <3>3, <3>4
  <2>6. CASE Relatch(p)
    BY <2>6, <1>6 DEF Relatch
  <2> QED BY <2>1, <2>2, <2>3, <2>4, <2>5, <2>6
<1> QED BY <1>3, <1>4, <1>7 DEF Wired, Typed

\* A process that edits its command within the send.
LEMMA Edited ==
  ASSUME Wired, NEW p \in Proc, NEW c \in Cmd, NEW l \in Label,
         cur' = [cur EXCEPT ![p] = c], pc' = [pc EXCEPT ![p] = l], plan' = plan, lock' = lock,
         res' \in [Proc -> BOOLEAN], lock = p, c.kind = "word",
         l \in {"enter", "check", "post", "await", "free", "commit", "unlock"}, l = "enter" => ~c.again,
         c.stage = "on" => c.t = {"rx"}, c.stage = "off" => c.t = Off /\ ~c.again,
         Doing(p, "quiesce") => c.stage = "main" /\ c.t = Off
  PROVE  TypedProcs' /\ \A q \in Proc : Holds(q)' /\ Stops(q)'
<1> USE WordAssumption DEF Wired, Typed, TypedProcs
<1>1. TypedProcs'
  OBVIOUS
<1>2. ASSUME NEW q \in Proc PROVE Holds(q)' /\ Stops(q)'
  <2>1. CASE q = p
    BY <2>1 DEF Holds, Stops, InBox, Doing
  <2>2. CASE q # p
    <3>1. cur'[q] = cur[q] /\ pc'[q] = pc[q] /\ plan'[q] = plan[q] /\ Holds(q) /\ Stops(q)
      BY <2>2
    <3> QED BY <3>1, <2>2 DEF Holds, Stops, InBox, Doing
  <2> QED BY <2>1, <2>2
<1> QED BY <1>1, <1>2

LEMMA EnterWired == ASSUME Wired, NEW p \in Proc, Enter(p) PROVE Wired'
<1> USE WordAssumption DEF procs, chip, time
<1>0. Typed /\ Fenced /\ Holds(p) /\ Stops(p)
  BY DEF Wired
<1> DEFINE c == cur[p]
           t == IF c.stage = "main" THEN Windowed(c.t) ELSE c.t
<1>1. c \in Cmd /\ c.t \in Word /\ c.outer \in Word /\ c.stage \in {"main", "on", "off"} /\ lock = p
  BY <1>0 DEF Typed, TypedProcs, Cmd, Enter, Holds
<1>2. t \in Word
  BY <1>1, Words DEF Windowed
<1>3. Doing(p, "quiesce") => c.stage = "main" /\ t = Off
  BY <1>0 DEF Stops, Enter, Windowed, Off
<1>4. c.kind = "word" /\ ~c.again
  BY <1>0 DEF Holds, Enter
<1>5. PICK e \in Cmd, l \in {"check", "unlock"} :
        /\ cur' = [cur EXCEPT ![p] = e] /\ pc' = [pc EXCEPT ![p] = l]
        /\ e.kind = "word" /\ ~e.again /\ (e.stage = "on" => e.t = {"rx"}) /\ (e.stage = "off" => e.t = Off)
        /\ Doing(p, "quiesce") => e.stage = "main" /\ e.t = Off
  <2>1. CASE c.stage = "main" /\ ~c.force /\ t = word /\ Goto(p, "unlock") /\ UNCHANGED cur
    <3>1. cur' = [cur EXCEPT ![p] = c]
      BY <2>1, <1>0 DEF Typed, TypedProcs
    <3> QED BY <2>1, <3>1, <1>1, <1>4, <1>0 DEF Goto, Stops, Enter, Holds
  <2>2. CASE c.stage = "main" /\ Goto(p, "check")
             /\ cur' = [cur EXCEPT ![p] = IF NeedsCycle(t)
                          THEN [c EXCEPT !.t = {"rx"}, !.outer = t, !.stage = "on"]
                          ELSE [c EXCEPT !.t = t, !.outer = t]]
    <3>1. CASE NeedsCycle(t)
      <4> DEFINE e == [c EXCEPT !.t = {"rx"}, !.outer = t, !.stage = "on"]
      <4>1. e \in Cmd /\ e.kind = "word" /\ ~e.again /\ e.stage = "on" /\ e.t = {"rx"}
        BY <1>1, <1>2, <1>4, Words DEF Cmd
      <4>2. ~Doing(p, "quiesce")
        BY <1>3, <3>1 DEF NeedsCycle, Off
      <4> QED BY <2>2, <3>1, <4>1, <4>2 DEF Goto
    <3>2. CASE ~NeedsCycle(t)
      <4> DEFINE e == [c EXCEPT !.t = t, !.outer = t]
      <4>1. e \in Cmd /\ e.kind = "word" /\ ~e.again /\ e.stage = "main" /\ e.t = t
        BY <1>1, <1>2, <1>4, <2>2 DEF Cmd
      <4> QED BY <2>2, <3>2, <4>1, <1>3 DEF Goto
    <3> QED BY <3>1, <3>2
  <2>3. CASE c.stage = "off" /\ Goto(p, "check")
             /\ cur' = [cur EXCEPT ![p] = IF c.t = word THEN [c EXCEPT !.t = c.outer, !.stage = "main"] ELSE c]
    <3> DEFINE e == IF c.t = word THEN [c EXCEPT !.t = c.outer, !.stage = "main"] ELSE c
    <3>1. e \in Cmd /\ e.kind = "word" /\ ~e.again /\ e.stage \in {"main", "off"} /\ (e.stage = "off" => e.t = Off)
      BY <1>0, <1>1, <1>4, <2>3 DEF Cmd, Holds
    <3>2. ~Doing(p, "quiesce")
      BY <1>3, <2>3
    <3> QED BY <2>3, <3>1, <3>2 DEF Goto
  <2> QED BY <2>1, <2>2, <2>3 DEF Enter
<1>6. plan' = plan /\ lock' = lock /\ res' \in [Proc -> BOOLEAN]
  BY <1>0 DEF Enter, Typed, TypedProcs
<1>7. TypedProcs' /\ \A q \in Proc : Holds(q)' /\ Stops(q)'
  <2> HIDE DEF c, t
  <2> QED BY <1>1, <1>5, <1>6, Edited DEF Label
<1>8. TypedWords' /\ TypedChip' /\ TypedCounts'
  BY <1>0 DEF Enter, Typed, TypedWords, TypedChip, TypedCounts
<1>9. Fenced'
  BY <1>0 DEF Enter, Fenced, Doing, Goto, Typed, TypedProcs, Proc
<1> QED BY <1>7, <1>8, <1>9 DEF Wired, Typed

LEMMA BoxWired ==
  ASSUME Wired, NEW p \in Proc, Lock(p) \/ Check(p) \/ Post(p) \/ AwaitDone(p) \/ AwaitTimeout(p)
  PROVE  Wired'
<1> USE WordAssumption DEF procs, chip, time
<1>0. Typed /\ TypedProcs /\ TypedChip /\ Fenced /\ Holds(p) /\ Stops(p) /\ \A q \in Proc : Holds(q) /\ Stops(q)
  BY DEF Wired, Typed
<1>1. box \in Mail /\ cur[p] \in Cmd
  BY <1>0 DEF TypedChip, TypedProcs
<1>2. box' \in Mail /\ box'.st # "work"
  <2>1. [st |-> "posted", kind |-> cur[p].kind, t |-> cur[p].t, ok |-> TRUE] \in Mail
    BY <1>1 DEF Cmd, Mail
  <2>0. [st |-> "posted", kind |-> cur[p].kind, t |-> cur[p].t, ok |-> TRUE].st = "posted"
    OBVIOUS
  <2>2. box' = box \/ box' = [box EXCEPT !.st = "free"]
          \/ box' = [st |-> "posted", kind |-> cur[p].kind, t |-> cur[p].t, ok |-> TRUE]
    BY DEF Lock, Check, Post, AwaitDone, AwaitTimeout, FreeCmd
  <2>3. [box EXCEPT !.st = "free"] \in Mail /\ [box EXCEPT !.st = "free"].st = "free"
    BY <1>1, MailSt
  <2> QED BY <1>0, <2>0, <2>1, <2>2, <2>3 DEF TypedChip
<1>3. TypedWords' /\ TypedCounts'
  BY <1>0 DEF Lock, Check, Post, AwaitDone, AwaitTimeout, Typed, TypedWords, TypedCounts
<1>4. TypedChip'
  <2>1. doubt' \in BOOLEAN
    BY <1>0 DEF Lock, Check, Post, AwaitDone, AwaitTimeout, Meet, TypedChip
  <2> QED BY <1>0, <1>2, <2>1 DEF Lock, Check, Post, AwaitDone, AwaitTimeout, TypedChip
<1>5. TypedProcs'
  <2>1. box.ok \in BOOLEAN
    BY <1>1 DEF Mail
  <2> QED BY <1>0, <2>1 DEF Lock, Check, Post, AwaitDone, AwaitTimeout, TypedProcs, Goto, Label
<1>6. ASSUME NEW q \in Proc PROVE Holds(q)' /\ Stops(q)'
  <2>1. CASE Lock(p)
    BY <1>0, <2>1 DEF Lock, TypedProcs, Holds, Stops, InBox, Doing, Goto
  <2>2. CASE ~Lock(p)
    <3>1. /\ cur' = cur /\ plan' = plan /\ lock' = lock /\ InBox(p)
          /\ pc' = [pc EXCEPT ![p] = "post"] \/ pc' = [pc EXCEPT ![p] = "await"] \/ pc' = [pc EXCEPT ![p] = "free"]
      BY <2>2 DEF Check, Post, AwaitDone, AwaitTimeout, Goto, InBox
    <3> QED BY <1>0, <3>1 DEF TypedProcs, Holds, Stops, InBox, Doing
  <2> QED BY <2>1, <2>2
<1>7. Fenced'
  <2>1. pc[p] # "idle" /\ fence' = fence /\ plan' = plan
    BY DEF Lock, Check, Post, AwaitDone, AwaitTimeout
  <2>2. Goto(p, "enter") \/ Goto(p, "free") \/ Goto(p, "post") \/ Goto(p, "await")
    BY DEF Lock, Check, Post, AwaitDone, AwaitTimeout
  <2> QED BY <1>0, <2>1, <2>2 DEF Fenced, Doing, Goto, TypedProcs, Proc
<1> QED BY <1>3, <1>4, <1>5, <1>6, <1>7 DEF Wired, Typed

LEMMA FreeWired == ASSUME Wired, NEW p \in Proc, FreeTdd(p) \/ FreeWord(p) PROVE Wired'
<1> USE WordAssumption DEF procs, chip, time
<1>0. Typed /\ TypedProcs /\ TypedChip /\ Fenced /\ Holds(p) /\ Stops(p)
  BY DEF Wired, Typed
<1>1. box' \in Mail /\ box'.st # "work"
  <2>1. box' = box \/ box' = [box EXCEPT !.st = "free"]
    BY DEF FreeTdd, FreeWord, FreeCmd
  <2>2. [box EXCEPT !.st = "free"] \in Mail /\ [box EXCEPT !.st = "free"].st = "free"
    BY <1>0, MailSt DEF TypedChip
  <2> QED BY <1>0, <2>1, <2>2 DEF TypedChip
<1>2. TypedWords'
  BY <1>0 DEF FreeTdd, FreeWord, Typed, TypedWords
<1>3. TypedCounts'
  BY <1>0 DEF FreeTdd, FreeWord, Typed, TypedCounts
<1>4. TypedChip'
  BY <1>0, <1>1 DEF FreeTdd, FreeWord, TypedChip
<1>5. TypedProcs' /\ \A q \in Proc : Holds(q)' /\ Stops(q)'
  <2>1. CASE FreeTdd(p)
    <3>1. lock # p
      BY <1>0, <2>1 DEF FreeTdd, Holds, InBox
    <3>0. plan[p] \in Seq(Act) /\ plan[p] # <<>>
      BY <1>0, <2>1 DEF FreeTdd, Holds, TypedProcs
    <3>2. PICK s \in Seq(Act) : plan' = [plan EXCEPT ![p] = s]
      <4>1. CASE res[p]
        <5>1. plan' = [plan EXCEPT ![p] = <<Op("reapply", Off)>> \o Tail(plan[p])]
          BY <2>1, <4>1 DEF FreeTdd
        <5>2. <<Op("reapply", Off)>> \o Tail(plan[p]) \in Seq(Act)
          BY <3>0, PlanTail
        <5> QED BY <5>1, <5>2
      <4>2. CASE ~res[p]
        BY <3>0, <2>1, <4>2, PlanTail DEF FreeTdd, Next1
      <4> QED BY <4>1, <4>2
    <3> QED BY <2>1, <3>1, <3>2, Skip DEF FreeTdd, Goto
  <2>2. CASE FreeWord(p)
    <3> DEFINE c == cur[p]
    <3>1. c \in Cmd /\ lock = p /\ c.kind = "word"
      BY <1>0, <2>2 DEF TypedProcs, Holds, InBox, FreeWord
    <3>2. PICK e \in Cmd, l \in {"commit", "check", "unlock"} :
            /\ cur' = [cur EXCEPT ![p] = e] /\ pc' = [pc EXCEPT ![p] = l] /\ e.kind = "word"
            /\ (e.stage = "on" => e.t = {"rx"}) /\ (e.stage = "off" => e.t = Off /\ ~e.again)
            /\ Doing(p, "quiesce") => e.stage = "main" /\ e.t = Off
      <4>1. CASE UNCHANGED cur /\ (Goto(p, "commit") \/ Goto(p, "unlock"))
        <5>1. cur' = [cur EXCEPT ![p] = c]
          BY <4>1, <1>0 DEF TypedProcs
        <5> QED BY <1>0, <2>2, <3>1, <4>1, <5>1 DEF Goto, Holds, Stops, FreeWord
      <4>2. CASE c.t # Off /\ Goto(p, "check") /\ cur' = [cur EXCEPT ![p].again = TRUE]
        <5> DEFINE e == [c EXCEPT !.again = TRUE]
        <5>1. e \in Cmd /\ e.kind = "word" /\ e.stage = c.stage /\ e.t = c.t
          BY <3>1 DEF Cmd
        <5>2. cur' = [cur EXCEPT ![p] = e]
          BY <4>2
        <5>3. (e.stage = "on" => e.t = {"rx"}) /\ (Doing(p, "quiesce") => e.stage = "main" /\ e.t = Off)
          BY <1>0, <2>2, <5>1 DEF Holds, Stops, FreeWord
        <5>4. e.stage # "off"
          BY <1>0, <4>2, <5>1 DEF Holds
        <5> HIDE DEF e
        <5> QED BY <4>2, <5>1, <5>2, <5>3, <5>4 DEF Goto
      <4>3. CASE /\ c.stage # "main" /\ Goto(p, "check")
                 /\ cur' = [cur EXCEPT ![p].t = c.outer, ![p].stage = "main", ![p].again = FALSE]
        <5> DEFINE e == [c EXCEPT !.t = c.outer, !.stage = "main", !.again = FALSE]
        <5>1. e \in Cmd /\ e.kind = "word" /\ e.stage = "main"
          BY <3>1 DEF Cmd
        <5>2. cur' = [cur EXCEPT ![p] = e]
          BY <1>0, <4>3 DEF TypedProcs
        <5>3. ~Doing(p, "quiesce")
          BY <1>0, <2>2, <4>3 DEF Stops, FreeWord
        <5> HIDE DEF e
        <5> QED BY <4>3, <5>1, <5>2, <5>3 DEF Goto
      <4> QED BY <2>2, <4>1, <4>2, <4>3 DEF FreeWord
    <3>3. plan' = plan /\ lock' = lock /\ res' \in [Proc -> BOOLEAN]
      BY <1>0, <2>2 DEF FreeWord, TypedProcs
    <3> QED BY <3>1, <3>2, <3>3, Edited DEF Label
  <2> QED BY <2>1, <2>2
<1>6. Fenced'
  <2>1. pc[p] # "idle" /\ fence' = fence
    BY DEF FreeTdd, FreeWord
  <2>2. p # "apply" => plan'["apply"] = plan["apply"] /\ pc'["apply"] = pc["apply"]
    BY <1>0 DEF FreeTdd, FreeWord, Goto, Next1, TypedProcs, Proc
  <2> QED BY <1>0, <2>1, <2>2 DEF Fenced, Doing
<1> QED BY <1>2, <1>3, <1>4, <1>5, <1>6 DEF Wired, Typed

LEMMA CommitWired == ASSUME Wired, NEW p \in Proc, Commit(p) PROVE Wired'
<1> USE WordAssumption DEF procs, chip, time
<1>0. Typed /\ TypedProcs /\ Fenced /\ Holds(p) /\ Stops(p)
  BY DEF Wired, Typed
<1> DEFINE c == cur[p]
<1>1. c \in Cmd /\ c.t \in Word /\ lock = p /\ c.kind = "word" /\ c.stage \in {"main", "on", "off"}
  BY <1>0 DEF TypedProcs, Holds, Commit, Cmd
<1>2. TypedWords'
  BY <1>0, <1>1 DEF Commit, Typed, TypedWords
<1>3. TypedCounts'
  BY <1>0 DEF Commit, Typed, TypedCounts
<1>4. TypedChip'
  BY <1>0 DEF Commit, Typed, TypedChip
<1>5. PICK e \in Cmd, l \in {"unlock", "enter", "check"} :
        /\ cur' = [cur EXCEPT ![p] = e] /\ pc' = [pc EXCEPT ![p] = l] /\ e.kind = "word"
        /\ (e.stage = "on" => e.t = {"rx"}) /\ (e.stage = "off" => e.t = Off /\ ~e.again)
        /\ (l = "enter" => ~e.again) /\ (Doing(p, "quiesce") => e.stage = "main" /\ e.t = Off)
  <2>1. CASE c.stage = "main"
    <3>1. Goto(p, "unlock") /\ cur' = cur
      BY <2>1 DEF Commit
    <3>2. cur' = [cur EXCEPT ![p] = c]
      BY <3>1, <1>0 DEF TypedProcs
    <3> QED BY <1>0, <1>1, <2>1, <3>1, <3>2 DEF Goto, Stops, Commit
  <2>2. CASE c.stage = "on"
    <3> DEFINE e == [c EXCEPT !.t = Off, !.stage = "off", !.again = FALSE]
    <3>1. Goto(p, "enter") /\ cur' = [cur EXCEPT ![p].t = Off, ![p].stage = "off", ![p].again = FALSE]
      BY <2>2 DEF Commit
    <3>2. cur' = [cur EXCEPT ![p] = e]
      BY <3>1, <1>0 DEF TypedProcs
    <3>3. e \in Cmd /\ e.kind = "word" /\ e.stage = "off" /\ e.t = Off /\ ~e.again
      BY <1>1, Words DEF Cmd
    <3>4. ~Doing(p, "quiesce")
      BY <1>0, <2>2 DEF Stops, Commit
    <3> HIDE DEF e
    <3> QED BY <3>1, <3>2, <3>3, <3>4 DEF Goto
  <2>3. CASE c.stage = "off"
    <3> DEFINE e == [c EXCEPT !.t = c.outer, !.stage = "main"]
    <3>1. Goto(p, "check") /\ cur' = [cur EXCEPT ![p].t = c.outer, ![p].stage = "main"]
      BY <2>3 DEF Commit
    <3>2. cur' = [cur EXCEPT ![p] = e]
      BY <3>1, <1>0 DEF TypedProcs
    <3>3. e \in Cmd /\ e.kind = "word" /\ e.stage = "main"
      BY <1>1 DEF Cmd
    <3>4. ~Doing(p, "quiesce")
      BY <1>0, <2>3 DEF Stops, Commit
    <3> HIDE DEF e
    <3> QED BY <3>1, <3>2, <3>3, <3>4 DEF Goto
  <2> QED BY <1>1, <2>1, <2>2, <2>3
<1>6. plan' = plan /\ lock' = lock /\ res' \in [Proc -> BOOLEAN]
  BY <1>0 DEF Commit, TypedProcs
<1>7. TypedProcs' /\ \A q \in Proc : Holds(q)' /\ Stops(q)'
  <2> HIDE DEF c
  <2> QED BY <1>1, <1>5, <1>6, Edited DEF Label
<1>8. Fenced'
  <2>1. pc[p] # "idle" /\ fence' = fence
    BY DEF Commit
  <2> QED BY <1>0, <1>5, <1>6, <2>1 DEF Fenced, Doing, TypedProcs, Proc
<1> QED BY <1>2, <1>3, <1>4, <1>7, <1>8 DEF Wired, Typed

LEMMA EndWired == ASSUME Wired, NEW p \in Proc, Unlock(p) \/ Clear(p) PROVE Wired'
<1> USE WordAssumption DEF procs, chip, time
<1>0. Typed /\ TypedProcs /\ TypedWords /\ Fenced /\ Holds(p) /\ \A q \in Proc : Holds(q) /\ Stops(q)
  BY DEF Wired, Typed
<1>1. plan[p] \in Seq(Act) /\ plan[p] # <<>> /\ plan[p][1].t \in Word /\ Tail(plan[p]) \in Seq(Act)
  <2>1. plan[p] \in Seq(Act) /\ plan[p] # <<>>
    BY <1>0 DEF Unlock, Clear, Holds, TypedProcs
  <2> QED BY <2>1, PlanTail DEF Act
<1>2. TypedWords'
  BY <1>0, <1>1, Words DEF Unlock, Clear, TypedWords
<1>3. TypedCounts' /\ TypedChip'
  BY <1>0 DEF Unlock, Clear, Typed, TypedCounts, TypedChip
<1>4. TypedProcs' /\ \A q \in Proc : Holds(q)' /\ Stops(q)'
  <2>1. CASE Unlock(p) /\ Doing(p, "quiesce")
    <3>1. lock = p /\ lock' = NoProc /\ pc' = [pc EXCEPT ![p] = "clear"] /\ UNCHANGED <<plan, cur, res>>
      <4>1. lock = p /\ lock' = NoProc /\ UNCHANGED <<cur, res>>
        BY <1>0, <2>1 DEF Unlock, Holds
      <4>2. pc' = [pc EXCEPT ![p] = "clear"]
        BY <2>1 DEF Unlock, Goto
      <4>3. plan' = plan
        BY <2>1 DEF Unlock, Doing
      <4> QED BY <4>1, <4>2, <4>3
    <3>2. TypedProcs'
      BY <1>0, <3>1 DEF TypedProcs, Label
    <3>3. ASSUME NEW q \in Proc PROVE Holds(q)' /\ Stops(q)'
      <4>1. Holds(q) /\ Stops(q) /\ pc[p] = "unlock"
        BY <1>0, <2>1 DEF Unlock
      <4> QED BY <1>0, <2>1, <3>1, <4>1 DEF TypedProcs, Holds, Stops, InBox, Doing
    <3> QED BY <3>2, <3>3
  <2>2. CASE Unlock(p) /\ ~Doing(p, "quiesce")
    <3>1. lock = p /\ lock' = NoProc /\ pc' = [pc EXCEPT ![p] = "idle"] /\ UNCHANGED <<cur, res>>
      BY <1>0, <2>2 DEF Unlock, Holds, Goto
    <3>2. PICK s \in Seq(Act) : plan' = [plan EXCEPT ![p] = s]
      <4>1. plan' = [plan EXCEPT ![p] = <<>>] \/ plan' = [plan EXCEPT ![p] = Tail(plan[p])]
        BY <2>2 DEF Unlock
      <4>2. <<>> \in Seq(Act)
        OBVIOUS
      <4> QED BY <1>1, <4>1, <4>2
    <3> QED BY <3>1, <3>2, Skip
  <2>3. CASE Clear(p)
    <3>1. lock # p
      BY <1>0, <2>3 DEF Clear, Holds
    <3> QED BY <1>1, <2>3, <3>1, Skip DEF Clear, Goto, Next1
  <2> QED BY <2>1, <2>2, <2>3
<1>5. Fenced'
  <2>1. pc[p] # "idle" /\ fence' = fence
    BY DEF Unlock, Clear
  <2>2. p # "apply" => plan'["apply"] = plan["apply"]
    BY <1>0 DEF Unlock, Clear, Next1, TypedProcs, Proc
  <2>3. p # "apply" => pc'["apply"] = pc["apply"]
    BY <1>0 DEF Unlock, Clear, Goto, TypedProcs, Proc
  <2> QED BY <1>0, <2>1, <2>2, <2>3 DEF Fenced, Doing
<1> QED BY <1>2, <1>3, <1>4, <1>5 DEF Wired, Typed

(***************************************************************************)
(* What nobody's step is: the clients, the reset, the timer and the chip.  *)
(***************************************************************************)
LEMMA StartPlan ==
  ASSUME Wired, NEW p \in Proc, NEW s \in Seq(Act), Start(p, s)
  PROVE  Wired'
<1> USE WordAssumption DEF procs, chip, time
<1>0. Typed /\ TypedProcs /\ Fenced /\ Holds(p)
  BY DEF Wired, Typed
<1>1. TypedWords'
  BY <1>0 DEF Start, Typed, TypedWords
<1>2. TypedChip'
  BY <1>0 DEF Start, Typed, TypedChip
<1>3. TypedCounts'
  BY <1>0 DEF Start, Typed, TypedCounts
<1>4. TypedProcs' /\ \A q \in Proc : Holds(q)' /\ Stops(q)'
  <2>1. lock # p /\ pc' = [pc EXCEPT ![p] = "idle"]
    BY <1>0 DEF Start, Idle, Holds, TypedProcs
  <2> QED BY <2>1, Skip DEF Start
<1>5. Fenced'
  BY <1>0 DEF Start, Idle, Fenced, Doing, TypedProcs, Proc
<1> QED BY <1>1, <1>2, <1>3, <1>4, <1>5 DEF Wired, Typed

LEMMA ClientPlan == ASSUME Client PROVE ArmRing \/ \E p \in Proc : \E s \in Seq(Act) : Start(p, s)
<1>0. /\ \A d \in Deed, t \in Word : Op(d, t) \in Act
      /\ {"send", "quiesce", "tddoff", "reset", "relatch", "tdd", "reapply"} \subseteq Deed
      /\ {"apply", "session", "verb", "anchor"} \subseteq Proc
  BY DEF Op, Act, Deed, Proc
<1>w. Off \in Word /\ {"rx"} \in Word /\ Ask \subseteq Word
  BY Words, WordAssumption DEF Word
<1>1. CASE \E t \in Ask : Apply(t)
  <2>1. \A t \in Ask : <<Op("send", t)>> \in Seq(Act)
    BY <1>0, <1>w
  <2> QED BY <1>0, <1>1, <2>1 DEF Apply
<1>2. CASE \E t \in Ask : ApplyReclock(t)
  <2>1. \A t \in Ask : <<Op("quiesce", Off), Op("tddoff", Off), Op("reset", Off), Op("send", t)>> \in Seq(Act)
    BY <1>0, <1>w
  <2> QED BY <1>0, <1>2, <2>1 DEF ApplyReclock
<1>3. CASE Session
  <2>1. <<Op("quiesce", Off), Op("tddoff", Off), Op("relatch", Off)>> \in Seq(Act)
    BY <1>0, <1>w
  <2> QED BY <1>0, <1>3, <2>1 DEF Session
<1>4. CASE \E on \in BOOLEAN : SetTdd(on)
  <2>1. \A on \in BOOLEAN : <<Op("tdd", IF on THEN {"rx"} ELSE Off)>> \in Seq(Act)
    BY <1>0, <1>w
  <2> QED BY <1>0, <1>4, <2>1 DEF SetTdd
<1>5. CASE SetAnchor
  <2>1. <<Op("reapply", Off)>> \in Seq(Act)
    BY <1>0, <1>w
  <2> QED BY <1>0, <1>5, <2>1 DEF SetAnchor
<1> QED BY <1>1, <1>2, <1>3, <1>4, <1>5 DEF Client

LEMMA RestWired ==
  ASSUME Wired, \/ ArmRing \/ StartHeal \/ ResetBegin \/ ResetAbort \/ ResetEnd
                \/ ChipRestart \/ DetectRestart \/ NotifyRead \/ NotifyStash \/ M4Take \/ M4Done \/ M4Fail
  PROVE  Wired'
<1> USE WordAssumption DEF procs, chip, time
<1>0. Typed /\ TypedProcs /\ TypedChip /\ TypedWords /\ TypedCounts /\ Fenced /\ \A q \in Proc : Holds(q) /\ Stops(q)
  BY DEF Wired, Typed
<1>1. CASE ArmRing
  BY <1>0, <1>1 DEF ArmRing, Wired, Typed, TypedProcs, TypedChip, TypedWords, TypedCounts, Holds, Stops, InBox,
     Doing, Fenced
<1>2. CASE StartHeal
  <2>1. TypedProcs' /\ \A q \in Proc : Holds(q)' /\ Stops(q)'
    <3>1. "heal" \in Proc /\ <<Op("heal", Off)>> \in Seq(Act)
      BY Words DEF Proc, Op, Act, Deed
    <3>2. lock # "heal" /\ pc' = [pc EXCEPT !["heal"] = "idle"]
      BY <1>0, <1>2, <3>1 DEF StartHeal, Idle, Holds, TypedProcs
    <3> QED BY <1>2, <3>1, <3>2, Skip DEF StartHeal
  <2>2. Fenced'
    BY <1>0, <1>2 DEF StartHeal, Fenced, Doing, TypedProcs, Proc
  <2>3. TypedWords' /\ TypedChip'
    BY <1>0, <1>2 DEF StartHeal, TypedWords, TypedChip
  <2>4. TypedCounts'
    BY <1>0, <1>2 DEF StartHeal, TypedCounts
  <2> QED BY <2>1, <2>2, <2>3, <2>4 DEF Wired, Typed
<1>3. CASE ResetAbort \/ ResetEnd
  <2> "apply" \in Proc
    BY DEF Proc
  <2>1. TypedProcs' /\ \A q \in Proc : Holds(q)' /\ Stops(q)'
    <3>1. pc["apply"] = "idle" /\ plan["apply"] # <<>> /\ UNCHANGED <<pc, cur, res, lock>>
      BY <1>0, <1>3 DEF ResetAbort, ResetEnd, Fenced, Doing
    <3>2. lock # "apply" /\ pc' = [pc EXCEPT !["apply"] = "idle"]
      BY <1>0, <3>1 DEF Holds, TypedProcs
    <3>3. PICK s \in Seq(Act) : plan' = [plan EXCEPT !["apply"] = s]
      <4>1. plan["apply"] \in Seq(Act)
        BY <1>0 DEF TypedProcs
      <4>2. Tail(plan["apply"]) \in Seq(Act) /\ <<>> \in Seq(Act)
        BY <3>1, <4>1, PlanTail
      <4> QED BY <1>3, <4>2 DEF ResetAbort, ResetEnd, Next1
    <3> QED BY <3>1, <3>2, <3>3, Skip
  <2>2. Fenced'
    BY <1>3 DEF ResetAbort, ResetEnd, Fenced
  <2>3. TypedWords'
    BY <1>0, <1>3, Words DEF ResetAbort, ResetEnd, TypedWords
  <2>4. TypedChip'
    BY <1>0, <1>3 DEF ResetAbort, ResetEnd, TypedChip
  <2>5. TypedCounts'
    <3>1. CASE ResetAbort
      BY <1>0, <3>1 DEF ResetAbort, TypedCounts
    <3>2. CASE ResetEnd
      BY <1>0, <3>2 DEF ResetEnd, TypedCounts
    <3> QED BY <1>3, <3>1, <3>2
  <2> QED BY <2>1, <2>2, <2>3, <2>4, <2>5 DEF Wired, Typed
<1>4. CASE \/ ResetBegin \/ ChipRestart \/ DetectRestart \/ NotifyRead \/ NotifyStash \/ M4Take \/ M4Done \/ M4Fail
  <2>1. UNCHANGED procs /\ lock' = lock
    BY <1>4 DEF ResetBegin, ChipRestart, DetectRestart, NotifyRead, NotifyStash, M4Take, M4Done, M4Fail
  <2>2. TypedProcs' /\ \A q \in Proc : Holds(q)' /\ Stops(q)'
    BY <1>0, <2>1 DEF TypedProcs, Holds, Stops, InBox, Doing
  <2>3. fence' = fence \/ ResetBegin
    BY <1>4 DEF ResetBegin, ChipRestart, DetectRestart, NotifyRead, NotifyStash, M4Take, M4Done, M4Fail
  <2>4. Fenced'
    BY <1>0, <2>1, <2>3 DEF Fenced, ResetBegin, Doing
  <2>5. TypedWords'
    <3>1. m4.t \in Word /\ fw \in [word : Word, tdd : BOOLEAN, cycled : BOOLEAN]
      BY <1>0 DEF TypedChip, TypedWords, Mail
    <3>2. fw' \in [word : Word, tdd : BOOLEAN, cycled : BOOLEAN]
      <4>1. CASE M4Done
        BY <3>1, <4>1 DEF M4Done
      <4>2. CASE M4Fail
        BY <3>1, <4>2, Words DEF M4Fail
      <4>3. CASE ResetBegin \/ ChipRestart
        <5>1. fw' = [word |-> Off, tdd |-> FALSE, cycled |-> FALSE]
          BY <4>3 DEF ResetBegin, ChipRestart, ChipOff
        <5> QED BY <5>1, Words
      <4>4. CASE DetectRestart \/ NotifyRead \/ NotifyStash \/ M4Take
        BY <3>1, <4>4 DEF DetectRestart, NotifyRead, NotifyStash, M4Take
      <4> QED BY <1>4, <4>1, <4>2, <4>3, <4>4
    <3>3. (word \in Word /\ stash \in Word /\ note \in Word /\ wanted \in Word /\ tdd \in BOOLEAN)'
      BY <1>0, <1>4, Words DEF ResetBegin, ChipRestart, DetectRestart, NotifyRead, NotifyStash, M4Take, M4Done, M4Fail,
         TypedWords
    <3> QED BY <3>2, <3>3 DEF TypedWords
  <2>6. TypedChip'
    <3>1. Free \in Mail /\ Free.st = "free"
      BY Words DEF Free
    <3>2. box \in Mail /\ box.st # "work" /\ m4 \in Mail /\ m4.st \in {"free", "work"}
      BY <1>0 DEF TypedChip
    <3>3. box' \in Mail /\ box'.st # "work"
      <4>1. \A o \in BOOLEAN : LET b == [box EXCEPT !.st = "done", !.ok = o] IN b \in Mail /\ b.st = "done"
        BY <3>2, MailOk
      <4>2. box' = box \/ box' = Free \/ \E o \in BOOLEAN : box' = [box EXCEPT !.st = "done", !.ok = o]
        BY <1>4 DEF ResetBegin, ChipRestart, DetectRestart, NotifyRead, NotifyStash, M4Take, M4Done, M4Fail, ChipOff
      <4> HIDE DEF Free
      <4> QED BY <3>1, <3>2, <4>1, <4>2
    <3>4. m4' \in Mail /\ m4'.st \in {"free", "work"}
      <4>1. [box EXCEPT !.st = "work"] \in Mail /\ [box EXCEPT !.st = "work"].st = "work"
        BY <3>2, MailSt
      <4>2. m4' = m4 \/ m4' = Free \/ m4' = [box EXCEPT !.st = "work"]
        BY <1>4 DEF ResetBegin, ChipRestart, DetectRestart, NotifyRead, NotifyStash, M4Take, M4Done, M4Fail, ChipOff
      <4> QED BY <3>1, <3>2, <4>1, <4>2
    <3>5. (/\ armed \in BOOLEAN /\ fence \in BOOLEAN /\ lost \in BOOLEAN /\ doubt \in BOOLEAN
           /\ irq \in BOOLEAN /\ work \in BOOLEAN /\ timer \in {"idle", "notify", "stash"})'
      BY <1>0, <1>4 DEF ResetBegin, ChipRestart, DetectRestart, NotifyRead, NotifyStash, M4Take, M4Done, M4Fail,
         ChipOff, TypedChip
    <3> QED BY <3>3, <3>4, <3>5 DEF TypedChip
  <2>7. TypedCounts'
    <3>1. CASE DetectRestart
      BY <1>0, <3>1 DEF DetectRestart, TypedCounts
    <3>2. CASE ~DetectRestart
      <4>1. UNCHANGED <<gen, sess, sgen, ops>>
        BY <1>4, <3>2 DEF ResetBegin, ChipRestart, NotifyRead, NotifyStash, M4Take, M4Done, M4Fail
      <4>2. restarts' \in {restarts, restarts + 1} /\ fails' \in {fails, fails + 1}
        BY <1>4, <3>2 DEF ResetBegin, ChipRestart, NotifyRead, NotifyStash, M4Take, M4Done, M4Fail
      <4> QED BY <1>0, <4>1, <4>2 DEF TypedCounts
    <3> QED BY <3>1, <3>2
  <2> QED BY <2>2, <2>4, <2>5, <2>6, <2>7 DEF Wired, Typed
<1> QED BY <1>1, <1>2, <1>3, <1>4

LEMMA WiredNext == ASSUME Wired, [Next]_vars PROVE Wired'
<1>1. CASE Client
  <2>1. CASE ArmRing
    BY <2>1, RestWired
  <2>2. CASE \E p \in Proc : \E s \in Seq(Act) : Start(p, s)
    BY <2>2, StartPlan
  <2> QED BY <1>1, <2>1, <2>2, ClientPlan
<1>2. CASE \E p \in Proc : Step(p)
  <2>1. PICK p \in Proc : Step(p)
    BY <1>2
  <2> QED BY <2>1, BeginWired, BoxWired, EnterWired, FreeWired, CommitWired, EndWired DEF Step
<1>3. CASE UNCHANGED vars
  BY <1>3 DEF vars, procs, chip, time, Wired, Typed, TypedProcs, TypedChip, TypedWords, TypedCounts, Holds, Stops,
     InBox, Doing, Fenced
<1> QED BY <1>1, <1>2, <1>3, RestWired DEF Next, Work

(***************************************************************************)
(* Excl: unless in doubt, one process at a time has the mailbox or the     *)
(* word, while the chip is up and its last restart has been noticed.       *)
(***************************************************************************)

\* Only a reset of the chip, begun alone, ends a doubt.
LEMMA StepSure == ASSUME NEW p \in Proc, Step(p), ~doubt' PROVE ~doubt
<1> USE DEF Meet
<1>1. CASE BeginSend(p) \/ BeginQuiesce(p) \/ BeginTdd(p) \/ BeginLocked(p) \/ LockAgain(p) \/ Relatch(p)
  BY <1>1 DEF BeginSend, BeginQuiesce, BeginTdd, BeginLocked, LockAgain, Relatch
<1>2. CASE Lock(p) \/ Enter(p) \/ Check(p) \/ Post(p) \/ AwaitDone(p) \/ AwaitTimeout(p)
  BY <1>2 DEF Lock, Enter, Check, Post, AwaitDone, AwaitTimeout
<1>3. CASE FreeTdd(p) \/ FreeWord(p) \/ Commit(p) \/ Unlock(p) \/ Clear(p)
  BY <1>3 DEF FreeTdd, FreeWord, Commit, Unlock, Clear
<1> QED BY <1>1, <1>2, <1>3 DEF Step

LEMMA Sure == ASSUME Typed, [Next]_vars, ~doubt', ~ResetBegin, ~ChipRestart PROVE ~doubt
<1>1. CASE Client
  <2>1. CASE ArmRing
    BY <2>1 DEF ArmRing
  <2>2. CASE \E p \in Proc : \E s \in Seq(Act) : Start(p, s)
    BY <2>2 DEF Start
  <2> QED BY <1>1, <2>1, <2>2, ClientPlan
<1>2. CASE \E p \in Proc : Step(p)
  BY <1>2, StepSure
<1>3. CASE \/ ResetAbort \/ ResetEnd \/ DetectRestart \/ NotifyRead \/ NotifyStash \/ StartHeal
           \/ M4Take \/ M4Done \/ M4Fail
  BY <1>3 DEF ResetAbort, ResetEnd, DetectRestart, NotifyRead, NotifyStash, StartHeal, M4Take, M4Done, M4Fail
<1>4. CASE UNCHANGED vars
  BY <1>4 DEF vars
<1> QED BY <1>1, <1>2, <1>3, <1>4 DEF Next, Work

\* What no process touches, and what it does not touch of the others.
LEMMA StepFrame ==
  ASSUME NEW p \in Proc, Step(p)
  PROVE  UNCHANGED <<gen, timer, lost, fence, fw>>
<1> USE DEF time, chip
<1>1. CASE BeginSend(p) \/ BeginQuiesce(p) \/ BeginTdd(p) \/ BeginLocked(p) \/ LockAgain(p) \/ Relatch(p)
  BY <1>1 DEF BeginSend, BeginQuiesce, BeginTdd, BeginLocked, LockAgain, Relatch
<1>2. CASE Lock(p) \/ Enter(p) \/ Check(p) \/ Post(p) \/ AwaitDone(p) \/ AwaitTimeout(p)
  BY <1>2 DEF Lock, Enter, Check, Post, AwaitDone, AwaitTimeout
<1>3. CASE FreeTdd(p) \/ FreeWord(p) \/ Commit(p) \/ Unlock(p) \/ Clear(p)
  BY <1>3 DEF FreeTdd, FreeWord, Commit, Unlock, Clear
<1> QED BY <1>1, <1>2, <1>3 DEF Step

LEMMA StepOthers ==
  ASSUME Typed, NEW p \in Proc, Step(p), NEW q \in Proc \ {p}
  PROVE  pc'[q] = pc[q] /\ cur'[q] = cur[q] /\ plan'[q] = plan[q] /\ res'[q] = res[q]
<1> USE DEF procs, Goto, Next1, Load
<1>0. /\ pc \in [Proc -> Label] /\ plan \in [Proc -> Seq(Act)] /\ cur \in [Proc -> Cmd] /\ res \in [Proc -> BOOLEAN]
  BY DEF Typed, TypedProcs
<1>1. CASE BeginSend(p) \/ BeginQuiesce(p) \/ BeginTdd(p)
  BY <1>0, <1>1 DEF BeginSend, BeginQuiesce, BeginTdd
<1>2. CASE BeginLocked(p) \/ LockAgain(p) \/ Relatch(p) \/ Lock(p)
  BY <1>0, <1>2 DEF BeginLocked, LockAgain, Relatch, Lock
<1>3. CASE Enter(p) \/ Check(p) \/ Post(p)
  BY <1>0, <1>3 DEF Enter, Check, Post
<1>4. CASE AwaitDone(p) \/ AwaitTimeout(p) \/ FreeTdd(p)
  BY <1>0, <1>4 DEF AwaitDone, AwaitTimeout, FreeTdd
<1>5. CASE FreeWord(p)
  BY <1>0, <1>5 DEF FreeWord
<1>6. CASE Commit(p)
  <2>1. cur[p].stage \in {"main", "on", "off"}
    BY <1>0 DEF Cmd
  <2>2. CASE cur[p].stage = "main"
    BY <1>0, <1>6, <2>2 DEF Commit
  <2>3. CASE cur[p].stage = "on"
    BY <1>0, <1>6, <2>3 DEF Commit
  <2>4. CASE cur[p].stage = "off"
    BY <1>0, <1>6, <2>4 DEF Commit
  <2> QED BY <2>1, <2>2, <2>3, <2>4
<1>7. CASE Unlock(p)
  BY <1>0, <1>7 DEF Unlock
<1>8. CASE Clear(p)
  BY <1>0, <1>8 DEF Clear
<1> QED BY <1>1, <1>2, <1>3, <1>4, <1>5, <1>6, <1>7, <1>8 DEF Step

\* A process that becomes active is alone then.
LEMMA StepActive ==
  ASSUME Wired, ~doubt', NEW p \in Proc, Step(p)
  PROVE  \/ \A q \in Proc : Active(q)' => Active(q)
         \/ Alone /\ \A q \in Proc \ {p} : ~Active(q)'
<1>0. Typed /\ TypedProcs /\ Holds(p)
  BY DEF Wired, Typed
<1>1. \A q \in Proc \ {p} : pc'[q] = pc[q]
  BY <1>0, StepOthers
<1>2. CASE Active(p)' => Active(p)
  <2>1. lock' \in {lock, p, NoProc}
    <3>1. CASE BeginSend(p) \/ BeginQuiesce(p) \/ BeginTdd(p) \/ BeginLocked(p) \/ LockAgain(p) \/ Relatch(p)
      BY <3>1 DEF BeginSend, BeginQuiesce, BeginTdd, BeginLocked, LockAgain, Relatch
    <3>2. CASE Lock(p) \/ Enter(p) \/ Check(p) \/ Post(p) \/ AwaitDone(p) \/ AwaitTimeout(p)
      BY <3>2 DEF Lock, Enter, Check, Post, AwaitDone, AwaitTimeout
    <3>3. CASE FreeTdd(p) \/ FreeWord(p) \/ Commit(p) \/ Unlock(p) \/ Clear(p)
      BY <3>3 DEF FreeTdd, FreeWord, Commit, Unlock, Clear
    <3> QED BY <3>1, <3>2, <3>3 DEF Step
  <2> QED BY <1>1, <1>2, <2>1, WordAssumption DEF Active, InBox
<1>3. CASE Active(p)' /\ ~Active(p)
  <2>1. BeginTdd(p) \/ Lock(p) \/ LockAgain(p)
    <3>1. pc[p] \in {"idle", "lock"}
      BY <1>0, <1>3 DEF Step, Active, InBox, Holds, BeginSend, BeginQuiesce, BeginTdd, BeginLocked, LockAgain,
         Relatch, Lock, Enter, Check, Post, AwaitDone, AwaitTimeout, FreeTdd, FreeWord, Commit, Unlock, Clear
    <3>2. ~(BeginSend(p) \/ BeginQuiesce(p) \/ BeginLocked(p) \/ Relatch(p))
      BY <1>0, <1>3, <3>1 DEF BeginSend, BeginQuiesce, BeginLocked, Relatch, Active, InBox, Goto, TypedProcs
    <3> QED BY <3>1, <3>2 DEF Step, Enter, Check, Post, AwaitDone, AwaitTimeout, FreeTdd, FreeWord, Commit, Unlock, Clear
  <2>2. Alone
    BY <1>0, <1>3, <2>1 DEF BeginTdd, Lock, LockAgain, Meet, Active, InBox, Goto, Next1, TypedProcs
  <2>3. lock' \in {lock, p}
    BY <2>1 DEF BeginTdd, Lock, LockAgain
  <2> QED BY <1>1, <2>2, <2>3, WordAssumption DEF Alone, Active, InBox
<1> QED BY <1>2, <1>3

\* A step leaves the plan of its process, drops it, drops what it begins with,
\* or lets the re-apply of a TDD command take that one's place.
LEMMA StepPlan ==
  ASSUME Wired, NEW p \in Proc, Step(p)
  PROVE  /\ plan[p] \in Seq(Act)
         /\ plan'[p] \in {plan[p], <<>>} \cup (IF plan[p] = <<>> THEN {}
                           ELSE {Tail(plan[p]), <<Op("reapply", Off)>> \o Tail(plan[p])})
<1>0. plan \in [Proc -> Seq(Act)]
  BY DEF Wired, Typed, TypedProcs
<1> DEFINE s == plan[p]
<1> USE DEF procs, Next1, Doing
<1>1. CASE BeginSend(p) \/ BeginQuiesce(p) \/ BeginTdd(p)
  BY <1>0, <1>1 DEF BeginSend, BeginQuiesce, BeginTdd
<1>2. CASE BeginLocked(p) \/ LockAgain(p) \/ Relatch(p) \/ Lock(p)
  BY <1>0, <1>2 DEF BeginLocked, LockAgain, Relatch, Lock
<1>3. CASE Enter(p) \/ Check(p) \/ Post(p) \/ AwaitDone(p) \/ AwaitTimeout(p) \/ FreeWord(p) \/ Commit(p)
  BY <1>0, <1>3 DEF Enter, Check, Post, AwaitDone, AwaitTimeout, FreeWord, Commit
<1>4. CASE FreeTdd(p) \/ Unlock(p) \/ Clear(p)
  <2>1. s # <<>>
    BY <1>4 DEF Wired, Holds, FreeTdd, Unlock, Clear
  <2>2. CASE FreeTdd(p)
    BY <1>0, <2>1, <2>2 DEF FreeTdd
  <2>3. CASE Unlock(p)
    BY <1>0, <2>1, <2>3 DEF Unlock
  <2>4. CASE Clear(p)
    BY <1>0, <2>1, <2>4 DEF Clear
  <2> QED BY <1>4, <2>2, <2>3, <2>4
<1> QED BY <1>1, <1>2, <1>3, <1>4 DEF Step

\* What a process plans to do after its step it planned before, or it is the
\* re-apply of a TDD command.
LEMMA StepDeed ==
  ASSUME Wired, NEW p \in Proc, Step(p), NEW i \in DOMAIN plan'[p], plan'[p][i].do # "reapply"
  PROVE  \E j \in DOMAIN plan[p] : plan[p][j] = plan'[p][i]
<1> DEFINE s == plan[p]
<1>1. /\ s \in Seq(Act)
      /\ plan'[p] \in {s, <<>>} \cup (IF s = <<>> THEN {} ELSE {Tail(s), <<Op("reapply", Off)>> \o Tail(s)})
  BY StepPlan
<1>2. CASE plan'[p] = s
  BY <1>2
<1>3. CASE plan'[p] = <<>>
  BY <1>3
<1>4. CASE s # <<>> /\ plan'[p] = Tail(s)
  <2>1. Tail(s)[i] = s[i + 1] /\ i + 1 \in DOMAIN s
    BY <1>1, <1>4
  <2> QED BY <1>4, <2>1
<1>5. CASE s # <<>> /\ plan'[p] = <<Op("reapply", Off)>> \o Tail(s)
  <2>1. Tail(s) \in Seq(Act) /\ Len(Tail(s)) = Len(s) - 1 /\ Op("reapply", Off).do = "reapply"
    BY <1>1, <1>5 DEF Op
  <2>2. i # 1
    BY <1>5, <2>1
  <2>3. i \in DOMAIN s /\ plan'[p][i] = s[i]
    BY <1>1, <1>5, <2>1, <2>2
  <2> QED BY <2>3
<1> QED BY <1>1, <1>2, <1>3, <1>4, <1>5

LEMMA ExclStep == ASSUME Wired, Excl, NEW p \in Proc, Step(p) PROVE Excl'
<1> SUFFICES ASSUME ~doubt'
             PROVE  /\ \A q, r \in Proc : Active(q)' /\ Active(r)' => q = r
                    /\ \A q \in Proc : Active(q)' => Noticed' /\ ~fence'
                    /\ fence' => Noticed'
  BY DEF Excl
<1>1. Noticed' = Noticed /\ fence' = fence /\ ~doubt
  BY StepFrame, StepSure DEF Noticed
<1>2. CASE \A q \in Proc : Active(q)' => Active(q)
  BY <1>1, <1>2 DEF Excl
<1>3. CASE Alone /\ \A q \in Proc \ {p} : ~Active(q)'
  BY <1>1, <1>3 DEF Excl, Alone
<1> QED BY <1>2, <1>3, StepActive

LEMMA ExclClient == ASSUME Wired, Excl, Client PROVE Excl'
<1>1. UNCHANGED <<pc, lock, fence, lost, timer, doubt>>
  <2>1. CASE ArmRing
    BY <2>1 DEF ArmRing, procs, chip, time
  <2>2. CASE \E p \in Proc : \E s \in Seq(Act) : Start(p, s)
    BY <2>2 DEF Start, chip, time
  <2> QED BY <2>1, <2>2, ClientPlan DEF Wired
<1> QED BY <1>1 DEF Excl, Active, InBox, Noticed

LEMMA ExclRest ==
  ASSUME Wired, Excl, \/ StartHeal \/ ResetBegin \/ ResetAbort \/ ResetEnd
                      \/ ChipRestart \/ DetectRestart \/ NotifyRead \/ NotifyStash \/ M4Take \/ M4Done \/ M4Fail
  PROVE  Excl'
<1> SUFFICES ASSUME ~doubt' PROVE Excl'
  BY DEF Excl
<1> USE DEF procs, chip, time
<1>1. UNCHANGED <<pc, lock>>
  BY DEF StartHeal, ResetBegin, ResetAbort, ResetEnd, ChipRestart, DetectRestart, NotifyRead, NotifyStash, M4Take,
     M4Done, M4Fail
<1>2. \A q \in Proc : Active(q)' = Active(q)
  BY <1>1 DEF Active, InBox
<1>3. ResetBegin \/ ChipRestart \/ ~doubt
  BY DEF StartHeal, ResetAbort, ResetEnd, DetectRestart, NotifyRead, NotifyStash, M4Take, M4Done, M4Fail
<1>4. CASE ~doubt /\ (StartHeal \/ ResetAbort \/ M4Take \/ M4Done \/ M4Fail)
  <2>1. UNCHANGED <<fence, lost, timer>>
    BY <1>4 DEF StartHeal, ResetAbort, M4Take, M4Done, M4Fail
  <2> QED BY <1>2, <1>4, <2>1 DEF Excl, Noticed
<1>5. CASE ResetBegin
  <2>1. (\A q \in Proc : ~Active(q)) /\ Noticed'
    BY <1>5, WordAssumption DEF ResetBegin, Alone, Active, Noticed
  <2> QED BY <1>2, <2>1 DEF Excl
<1>6. CASE ~doubt /\ ResetEnd
  <2>1. (\A q \in Proc : ~Active(q)) /\ Noticed'
    BY <1>6 DEF ResetEnd, Excl, Noticed
  <2> QED BY <1>2, <2>1 DEF Excl
<1>7. CASE ChipRestart
  <2>1. (\A q \in Proc : ~Active(q)) /\ ~fence'
    BY <1>7, WordAssumption DEF ChipRestart, Alone, Active
  <2> QED BY <1>2, <2>1 DEF Excl
<1>8. CASE ~doubt /\ (DetectRestart \/ NotifyRead \/ NotifyStash)
  <2>1. ~Noticed /\ fence' = fence
    BY <1>8 DEF DetectRestart, NotifyRead, NotifyStash, Noticed
  <2> QED BY <1>2, <1>8, <2>1 DEF Excl
<1> QED BY <1>3, <1>4, <1>5, <1>6, <1>7, <1>8

LEMMA ExclNext == ASSUME Wired, Excl, [Next]_vars PROVE Excl'
<1>1. CASE UNCHANGED vars
  BY <1>1 DEF vars, procs, chip, time, Excl, Active, InBox, Noticed
<1> QED BY <1>1, ExclClient, ExclRest, ExclStep DEF Next, Work

(***************************************************************************)
(* Trues: what the chip runs, unless in doubt.                             *)
(***************************************************************************)

\* What is so while p is active.
LEMMA Only ==
  ASSUME SInv, ~doubt, NEW p \in Proc, Active(p)
  PROVE  /\ Noticed /\ ~fence /\ ~lost /\ timer = "idle"
         /\ \A q \in Proc \ {p} : lock # q /\ pc[q] \in {"idle", "lock"}
<1>1. Noticed /\ ~fence /\ \A q \in Proc \ {p} : ~Active(q)
  BY DEF SInv, Excl
<1>2. ASSUME NEW q \in Proc \ {p} PROVE lock # q /\ pc[q] \in {"idle", "lock"}
  <2>1. ~Active(q) /\ Holds(q) /\ pc[q] \in Label
    BY <1>1 DEF SInv, Wired, Typed, TypedProcs
  <2> QED BY <2>1 DEF Active, InBox, Holds, Label
<1> QED BY <1>1, <1>2 DEF Noticed

\* The steps a process takes before it has the mailbox or the lock.
LEMMA OutsideTrue ==
  ASSUME SInv, ~doubt, Answered, Truth, Cycled, NEW p \in Proc,
         /\ pc[p] \in {"idle", "lock"} /\ pc'[p] \in {"idle", "lock"} /\ lock # p
         /\ \A q \in Proc \ {p} : pc'[q] = pc[q] /\ cur'[q] = cur[q] /\ plan'[q] = plan[q]
         /\ UNCHANGED <<word, fw, fence, lost, timer, lock, sgen, gen, box, irq, m4, res>>
  PROVE  (Answered /\ Truth /\ Cycled)'
<1>1. Answered'
  BY DEF Answered, Answering, Known
<1>2. Truth'
  BY DEF Truth, Active, InBox, Noticed, Known, Doing
<1>3. Cycled'
  BY DEF Cycled
<1> QED BY <1>1, <1>2, <1>3

LEMMA BeginTrue ==
  ASSUME SInv, ~doubt, ~doubt', Answered, Truth, Cycled, NEW p \in Proc,
         BeginSend(p) \/ BeginQuiesce(p) \/ BeginTdd(p) \/ BeginLocked(p) \/ LockAgain(p) \/ Relatch(p) \/ Lock(p)
  PROVE  (Answered /\ Truth /\ Cycled)'
<1> USE WordAssumption DEF procs, chip, time
<1>0. Typed /\ TypedProcs /\ Holds(p) /\ Stops(p)
  BY DEF SInv, Wired, Typed
<1>1. Step(p) /\ pc[p] \in {"idle", "lock"} /\ lock # p
  BY <1>0 DEF Step, Holds, BeginSend, BeginQuiesce, BeginTdd, BeginLocked, LockAgain, Relatch, Lock
<1>2. \A q \in Proc \ {p} : pc'[q] = pc[q] /\ cur'[q] = cur[q] /\ plan'[q] = plan[q]
  BY <1>0, <1>1, StepOthers
<1>3. UNCHANGED <<word, fw, fence, lost, timer, sgen, gen, box, irq, m4, res>>
  BY DEF BeginSend, BeginQuiesce, BeginTdd, BeginLocked, LockAgain, Relatch, Lock
<1>4. CASE pc'[p] \in {"idle", "lock"} /\ lock' = lock
  BY <1>1, <1>2, <1>3, <1>4, OutsideTrue
<1>5. CASE ~(pc'[p] \in {"idle", "lock"} /\ lock' = lock)
  <2>1. Alone /\ (BeginTdd(p) \/ Lock(p) \/ LockAgain(p))
    <3>1. CASE BeginSend(p) \/ BeginQuiesce(p) \/ BeginLocked(p) \/ Relatch(p)
      <4>1. lock' = lock
        BY <3>1 DEF BeginSend, BeginQuiesce, BeginLocked, Relatch
      <4>2. pc' = pc \/ Goto(p, "idle") \/ Goto(p, "lock")
        <5>1. CASE BeginSend(p)
          BY <5>1 DEF BeginSend
        <5>2. CASE BeginQuiesce(p)
          BY <5>2 DEF BeginQuiesce
        <5>3. CASE BeginLocked(p)
          BY <5>3 DEF BeginLocked
        <5>4. CASE Relatch(p)
          BY <5>4 DEF Relatch
        <5> QED BY <3>1, <5>1, <5>2, <5>3, <5>4
      <4>3. pc'[p] \in {"idle", "lock"}
        BY <1>0, <1>1, <4>2 DEF Goto, TypedProcs
      <4> QED BY <1>5, <4>1, <4>3
    <3>2. CASE BeginTdd(p)
      BY <1>1, <1>5, <3>2 DEF BeginTdd, Meet
    <3>3. CASE Lock(p) \/ LockAgain(p)
      BY <3>3 DEF Lock, LockAgain, Meet
    <3> QED BY <3>1, <3>2, <3>3
  <2>2. Noticed /\ ~fence /\ \A q \in Proc : ~Active(q)
    BY <2>1 DEF Alone, Active
  <2>3. fw.word = word /\ \A q \in Proc : lock # q /\ pc[q] \in {"idle", "lock"}
    <3>1. ASSUME NEW q \in Proc PROVE lock # q /\ pc[q] \in {"idle", "lock"}
      <4>1. Holds(q) /\ pc[q] \in Label
        BY <1>0 DEF SInv, Wired, TypedProcs
      <4> QED BY <2>2, <4>1 DEF Active, InBox, Holds, Label
    <3> QED BY <2>2, <3>1 DEF Truth
  <2>4. /\ pc'[p] \in {"enter", "check"} /\ ~cur'[p].again /\ cur'[p].stage = "main"
        /\ (lock' = p <=> pc'[p] = "enter") /\ lock' \in {lock, p}
    <3>1. CASE BeginTdd(p)
      <4>1. Load(p, "tdd", plan[p][1].t, FALSE) /\ plan[p][1].t \in Word /\ Goto(p, "check") /\ lock' = lock
        <5>1. plan[p] \in Seq(Act) /\ plan[p] # <<>>
          BY <1>0, <3>1 DEF BeginTdd, TypedProcs, Doing
        <5>2. plan[p][1] \in Act
          BY <5>1, PlanTail
        <5> QED BY <1>0, <1>1, <1>5, <3>1, <5>2 DEF BeginTdd, TypedProcs, Act
      <4> QED BY <1>0, <1>1, <4>1, Loads DEF Goto, TypedProcs, Kind
    <3>2. CASE Lock(p)
      <4>1. ~cur[p].again /\ cur[p].stage = "main"
        BY <1>0, <3>2 DEF Lock, Holds
      <4> QED BY <1>0, <3>2, <4>1 DEF Lock, Goto, TypedProcs
    <3>3. CASE LockAgain(p)
      <4> DEFINE t == IF Doing(p, "heal") THEN stash ELSE word
      <4>1. t \in Word
        BY <1>0 DEF Typed, TypedWords
      <4>2. lock' = p /\ Goto(p, "enter") /\ Load(p, "word", t, TRUE)
        <5>1. CASE "rx" \in t
          BY <3>3, <5>1 DEF LockAgain
        <5>2. CASE "rx" \notin t
          BY <1>0, <1>1, <1>5, <3>3, <5>2 DEF LockAgain, TypedProcs, Goto
        <5> QED BY <5>1, <5>2
      <4> HIDE DEF t
      <4> QED BY <1>0, <4>1, <4>2, Loads DEF Goto, TypedProcs, Kind
    <3> QED BY <2>1, <3>1, <3>2, <3>3
  <2>5. Answered'
    BY <1>2, <1>3, <2>3, <2>4 DEF Answered
  <2>6. Truth'
    BY <1>2, <1>3, <2>2, <2>3, <2>4 DEF Truth, Active, InBox, Noticed, Known
  <2>7. Cycled'
    BY <1>2, <1>3, <2>3, <2>4 DEF Cycled
  <2> QED BY <2>5, <2>6, <2>7
<1> QED BY <1>4, <1>5

LEMMA EnterTrue ==
  ASSUME SInv, ~doubt, Answered, Truth, Cycled, NEW p \in Proc, Enter(p)
  PROVE  (Answered /\ Truth /\ Cycled)'
<1> USE WordAssumption DEF procs, chip, time
<1>0. Typed /\ TypedProcs /\ Holds(p) /\ Stops(p) /\ Step(p)
  BY DEF SInv, Wired, Typed, Step
<1> DEFINE c == cur[p]
           t == IF c.stage = "main" THEN Windowed(c.t) ELSE c.t
<1>1. lock = p /\ c \in Cmd /\ c.kind = "word" /\ ~c.again /\ pc[p] = "enter"
  BY <1>0 DEF Enter, Holds, TypedProcs
<1>2. /\ Noticed /\ ~fence /\ ~lost /\ timer = "idle"
      /\ \A q \in Proc \ {p} : lock # q /\ pc[q] \in {"idle", "lock"}
  BY <1>1, Only DEF Active
<1>3. \A q \in Proc \ {p} : pc'[q] = pc[q] /\ cur'[q] = cur[q] /\ plan'[q] = plan[q] /\ res'[q] = res[q]
  BY <1>0, StepOthers
<1>4. UNCHANGED <<word, fw, fence, lost, timer, sgen, gen, box, irq, m4, lock, plan>>
  BY DEF Enter
<1>5. fw.word = word /\ (\A q \in Proc : pc[q] # "await")
  BY <1>1, <1>2 DEF Truth
<1>6. pc'[p] \in {"check", "unlock"} /\ (pc'[p] = "unlock" => res'[p]) /\ ~cur'[p].again
  <2>1. pc'[p] \in {"check", "unlock"} /\ (pc'[p] = "unlock" => res'[p])
    BY <1>0 DEF Enter, Goto, TypedProcs
  <2>2. ~cur'[p].again
    <3>1. CASE c.stage = "main" /\ UNCHANGED cur
      BY <1>1, <3>1
    <3>2. CASE c.stage = "main" /\ cur' = [cur EXCEPT ![p] = IF NeedsCycle(t)
                        THEN [c EXCEPT !.t = {"rx"}, !.outer = t, !.stage = "on"]
                        ELSE [c EXCEPT !.t = t, !.outer = t]]
      BY <1>0, <1>1, <3>2 DEF TypedProcs, Cmd
    <3>3. CASE cur' = [cur EXCEPT ![p] = IF c.t = word THEN [c EXCEPT !.t = c.outer, !.stage = "main"] ELSE c]
      BY <1>0, <1>1, <3>3 DEF TypedProcs, Cmd
    <3> QED BY <3>1, <3>2, <3>3, <1>0 DEF Enter
  <2> QED BY <2>1, <2>2
<1>7. pc'[p] = "unlock" => t = word /\ c.stage = "main" /\ cur' = cur
  BY <1>0 DEF Enter, Goto, TypedProcs
<1>8. Answered'
  BY <1>3, <1>4, <1>5, <1>6, <1>2 DEF Answered
<1>9. Truth'
  <2>1. pc'[p] = "unlock" /\ Doing(p, "quiesce")' => word = Off
    BY <1>0, <1>4, <1>7, <1>1 DEF Stops, Windowed, Doing, Off
  <2> QED BY <1>2, <1>3, <1>4, <1>5, <1>6, <2>1, <1>1 DEF Truth, Active, InBox, Noticed, Known
<1>10. Cycled'
  <2>1. CASE pc'[p] = "unlock"
    <3>1. "tx" \in c.t => word # Off
      BY <1>7, <2>1 DEF Windowed, Off
    <3> QED BY <1>1, <1>2, <1>3, <1>4, <1>5, <1>7, <2>1, <3>1 DEF Cycled
  <2>2. CASE c.stage = "main" /\ cur' = [cur EXCEPT ![p] = IF NeedsCycle(t)
                        THEN [c EXCEPT !.t = {"rx"}, !.outer = t, !.stage = "on"]
                        ELSE [c EXCEPT !.t = t, !.outer = t]]
    <3>1. CASE NeedsCycle(t)
      <4>1. cur'[p].t = {"rx"} /\ cur'[p].stage = "on"
        BY <1>0, <1>1, <2>2, <3>1 DEF TypedProcs, Cmd
      <4> QED BY <1>1, <1>2, <1>3, <1>4, <4>1 DEF Cycled
    <3>2. CASE ~NeedsCycle(t)
      <4>1. cur'[p].t = t /\ cur'[p].stage = "main"
        BY <1>0, <1>1, <2>2, <3>2 DEF TypedProcs, Cmd
      <4>2. "tx" \in t => fw.cycled
        BY <1>2, <1>5, <3>2 DEF NeedsCycle, Cycled, Off
      <4> QED BY <1>1, <1>2, <1>3, <1>4, <4>1, <4>2 DEF Cycled
    <3> QED BY <3>1, <3>2
  <2>3. CASE c.stage = "off"
    BY <1>1, <1>2, <1>3, <1>4, <2>3 DEF Cycled
  <2> QED BY <1>0, <1>1, <2>1, <2>2, <2>3 DEF Enter, Goto, TypedProcs
<1> QED BY <1>8, <1>9, <1>10

LEMMA BoxTrue ==
  ASSUME SInv, ~doubt, ~doubt', Answered, Truth, Cycled, NEW p \in Proc,
         Check(p) \/ Post(p) \/ AwaitDone(p) \/ AwaitTimeout(p)
  PROVE  (Answered /\ Truth /\ Cycled)'
<1> USE WordAssumption DEF procs, chip, time
<1>0. Typed /\ TypedProcs /\ Holds(p) /\ Stops(p) /\ Step(p) /\ InBox(p)
  BY DEF SInv, Wired, Typed, Step, Check, Post, AwaitDone, AwaitTimeout, InBox
<1>1. cur[p] \in Cmd /\ (cur[p].kind = "word" <=> lock = p)
  BY <1>0 DEF Holds, TypedProcs
<1>2. /\ Noticed /\ ~fence /\ ~lost /\ timer = "idle"
      /\ \A q \in Proc \ {p} : lock # q /\ pc[q] \in {"idle", "lock"}
  BY <1>0, Only DEF Active
<1>3. \A q \in Proc \ {p} : pc'[q] = pc[q] /\ cur'[q] = cur[q] /\ plan'[q] = plan[q] /\ res'[q] = res[q]
  BY <1>0, StepOthers
<1>4. UNCHANGED <<word, fw, fence, lost, timer, sgen, gen, m4, lock, plan, cur>>
  BY DEF Check, Post, AwaitDone, AwaitTimeout
<1>5. Cycled'
  <2>1. pc[p] # "enter" /\ pc'[p] # "enter"
    BY <1>0 DEF Check, Post, AwaitDone, AwaitTimeout, Goto, TypedProcs
  <2> QED BY <1>2, <1>3, <1>4, <2>1 DEF Cycled
<1>6. CASE Check(p)
  <2>1. box.st = "free" /\ ~irq /\ m4 = Free
    BY <1>2, <1>6 DEF Answered, Check
  <2>2. pc'[p] = "post" /\ UNCHANGED <<box, irq, res>>
    BY <1>0, <1>2, <1>6, <2>1 DEF Check, Goto, TypedProcs
  <2>3. Answered'
    BY <1>2, <1>3, <1>4, <2>1, <2>2 DEF Answered
  <2>4. Truth'
    BY <1>0, <1>2, <1>3, <1>4, <1>6, <2>2 DEF Truth, Active, InBox, Noticed, Known, Check
  <2> QED BY <1>5, <2>3, <2>4
<1>7. CASE Post(p)
  <2>1. pc'[p] = "await" /\ irq' /\ res' = res /\ m4 = Free /\ fw.word = Known(p)
        /\ box' = [st |-> "posted", kind |-> cur[p].kind, t |-> cur[p].t, ok |-> TRUE]
    <3>1. m4 = Free /\ fw.word = Known(p)
      BY <1>2, <1>7 DEF Answered, Truth, Post
    <3> QED BY <1>0, <1>2, <1>7, <3>1 DEF Post, Goto, TypedProcs
  <2>2. Answering(p)' 
    BY <1>4, <2>1 DEF Answering, Known
  <2>3. Answered'
    BY <1>2, <1>3, <2>1, <2>2 DEF Answered
  <2>4. Truth'
    BY <1>0, <1>2, <1>3, <1>4, <1>7, <2>1 DEF Truth, Active, InBox, Noticed
  <2> QED BY <1>5, <2>3, <2>4
<1>8. CASE AwaitDone(p)
  <2>1. box.ok /\ ~irq /\ m4 = Free /\ fw.word = IF cur[p].kind = "word" THEN cur[p].t ELSE word
    BY <1>8 DEF AwaitDone, Answered, Answering
  <2>2. pc'[p] = "free" /\ res'[p] /\ UNCHANGED irq
    BY <1>0, <1>8, <2>1 DEF AwaitDone, Goto, TypedProcs
  <2>3. box'.st = "free"
    <3>1. box \in Mail
      BY <1>0 DEF Typed, TypedChip
    <3> QED BY <1>8, <3>1, MailSt DEF AwaitDone
  <2>4. Answered'
    BY <1>2, <1>3, <1>4, <2>1, <2>2, <2>3 DEF Answered
  <2>5. Truth'
    BY <1>0, <1>2, <1>3, <1>4, <1>8, <2>1, <2>2 DEF Truth, Active, InBox, Noticed
  <2> QED BY <1>5, <2>4, <2>5
<1>9. CASE AwaitTimeout(p)
  <2>1. ~irq /\ m4 = Free /\ box.st # "done" /\ pc[p] = "await"
    <3>1. fails' = fails /\ fails \in Nat
      BY <1>0, <1>9 DEF AwaitTimeout, Typed, TypedCounts
    <3>2. fails # fails + 1
      BY <3>1
    <3> QED BY <1>2, <1>9, <3>1, <3>2 DEF AwaitTimeout
  <2>2. m4 = [box EXCEPT !.st = "work"]
    BY <2>1 DEF Answered, Answering
  <2>3. [box EXCEPT !.st = "work"].st = "work" /\ Free.st = "free"
    <3>1. box \in Mail
      BY <1>0 DEF Typed, TypedChip
    <3> QED BY <3>1, MailSt DEF Free
  <2> QED BY <2>1, <2>2, <2>3
<1> QED BY <1>6, <1>7, <1>8, <1>9

LEMMA FreeTrue ==
  ASSUME SInv, ~doubt, Answered, Truth, Cycled, NEW p \in Proc, FreeTdd(p) \/ FreeWord(p)
  PROVE  (Answered /\ Truth /\ Cycled)'
<1> USE WordAssumption DEF procs, chip, time
<1>0. Typed /\ TypedProcs /\ Holds(p) /\ Stops(p) /\ Step(p) /\ InBox(p) /\ pc[p] = "free" /\ res[p]
  BY DEF SInv, Wired, Typed, Step, FreeTdd, FreeWord, InBox, Answered
<1>1. cur[p] \in Cmd /\ (cur[p].kind = "word" <=> lock = p)
  BY <1>0 DEF Holds, TypedProcs
<1>2. /\ Noticed /\ ~fence /\ ~lost /\ timer = "idle"
      /\ \A q \in Proc \ {p} : lock # q /\ pc[q] \in {"idle", "lock"}
  BY <1>0, Only DEF Active
<1>3. \A q \in Proc \ {p} : pc'[q] = pc[q] /\ cur'[q] = cur[q] /\ plan'[q] = plan[q] /\ res'[q] = res[q]
  BY <1>0, StepOthers
<1>4. UNCHANGED <<word, fw, fence, lost, timer, sgen, gen, m4, irq, lock, res>>
  BY DEF FreeTdd, FreeWord
<1>5. box.st = "free" /\ ~irq /\ m4 = Free /\ fw.word = IF cur[p].kind = "word" THEN cur[p].t ELSE word
  BY <1>0, <1>2 DEF Answered, Truth
<1>6. box'.st = "free"
  <2>1. box \in Mail
    BY <1>0 DEF Typed, TypedChip
  <2>2. [box EXCEPT !.st = "free"].st = "free"
    BY <2>1, MailSt
  <2> QED BY <1>2, <2>2 DEF FreeTdd, FreeWord, FreeCmd
<1>7. CASE FreeTdd(p)
  <2>1. pc'[p] = "idle" /\ cur' = cur /\ lock # p
    BY <1>0, <1>1, <1>7 DEF FreeTdd, Goto, TypedProcs
  <2>2. Answered'
    BY <1>0, <1>2, <1>3, <1>4, <1>5, <1>6, <2>1 DEF Answered
  <2>3. Truth'
    BY <1>0, <1>2, <1>3, <1>4, <1>5, <1>7, <2>1 DEF Truth, Active, InBox, Noticed, FreeTdd
  <2>4. Cycled'
    BY <1>2, <1>3, <1>4, <2>1 DEF Cycled
  <2> QED BY <2>2, <2>3, <2>4
<1>8. CASE FreeWord(p)
  <2>1. cur[p].kind = "word" /\ lock = p /\ plan' = plan
    BY <1>1, <1>8 DEF FreeWord
  <2>2. /\ cur'[p].kind = "word" /\ cur'[p].t = cur[p].t /\ cur'[p].stage = cur[p].stage
        /\ pc'[p] = "commit" \/ (pc'[p] = "check" /\ cur'[p].again)
    <3>1. CASE Goto(p, "commit") /\ UNCHANGED cur
      BY <1>0, <2>1, <3>1 DEF Goto, TypedProcs
    <3>2. CASE Goto(p, "check") /\ cur' = [cur EXCEPT ![p].again = TRUE]
      BY <1>0, <1>1, <2>1, <3>2 DEF Goto, TypedProcs, Cmd
    <3> QED BY <1>0, <1>8, <3>1, <3>2 DEF FreeWord
  <2>3. Answered'
    BY <1>0, <1>2, <1>3, <1>4, <1>5, <1>6, <2>2 DEF Answered
  <2>4. Truth'
    BY <1>0, <1>2, <1>3, <1>4, <1>5, <2>1, <2>2 DEF Truth, Active, InBox, Noticed, Known
  <2>5. Cycled'
    BY <1>0, <1>2, <1>3, <1>4, <2>1, <2>2 DEF Cycled
  <2> QED BY <2>3, <2>4, <2>5
<1> QED BY <1>7, <1>8

LEMMA CommitTrue ==
  ASSUME SInv, ~doubt, Answered, Truth, Cycled, NEW p \in Proc, Commit(p)
  PROVE  (Answered /\ Truth /\ Cycled)'
<1> USE WordAssumption DEF procs, chip, time
<1>0. Typed /\ TypedProcs /\ TypedCounts /\ Holds(p) /\ Stops(p) /\ Step(p) /\ pc[p] = "commit"
  BY DEF SInv, Wired, Typed, Step, Commit
<1> DEFINE c == cur[p]
<1>1. c \in Cmd /\ c.kind = "word" /\ lock = p /\ c.stage \in {"main", "on", "off"}
  BY <1>0 DEF Holds, TypedProcs, Cmd
<1>2. /\ Noticed /\ ~fence /\ ~lost /\ timer = "idle"
      /\ \A q \in Proc \ {p} : lock # q /\ pc[q] \in {"idle", "lock"}
  BY <1>1, Only DEF Active
<1>3. \A q \in Proc \ {p} : pc'[q] = pc[q] /\ cur'[q] = cur[q] /\ plan'[q] = plan[q] /\ res'[q] = res[q]
  BY <1>0, StepOthers
<1>4. /\ UNCHANGED <<fw, fence, lost, timer, gen, box, m4, irq, lock, res, plan>>
      /\ word' = c.t /\ sgen' = IF c.t # Off THEN gen ELSE sgen
  BY DEF Commit
<1>5. box.st = "free" /\ ~irq /\ m4 = Free /\ fw.word = c.t
  BY <1>0, <1>1, <1>2 DEF Answered, Truth
<1>6. \/ c.stage = "main" /\ pc'[p] = "unlock" /\ cur' = cur
      \/ c.stage = "on" /\ pc'[p] = "enter" /\ cur'[p].stage = "off" /\ ~cur'[p].again
      \/ c.stage = "off" /\ pc'[p] = "check" /\ cur'[p].stage = "main" /\ cur'[p].again = c.again
  <2>1. CASE c.stage = "main"
    BY <1>0, <2>1 DEF Commit, Goto, TypedProcs
  <2>2. CASE c.stage = "on"
    <3>1. cur' = [cur EXCEPT ![p].t = Off, ![p].stage = "off", ![p].again = FALSE] /\ Goto(p, "enter")
      BY <2>2 DEF Commit
    <3> QED BY <1>0, <1>1, <2>2, <3>1 DEF Goto, TypedProcs, Cmd
  <2>3. CASE c.stage = "off"
    <3>1. cur' = [cur EXCEPT ![p].t = c.outer, ![p].stage = "main"] /\ Goto(p, "check")
      BY <2>3 DEF Commit
    <3> QED BY <1>0, <1>1, <2>3, <3>1 DEF Goto, TypedProcs, Cmd
  <2> QED BY <1>1, <2>1, <2>2, <2>3
<1>7. Answered'
  <2>1. pc'[p] # "await" /\ res'[p]
    BY <1>0, <1>4, <1>6 DEF Answered
  <2> QED BY <1>2, <1>3, <1>4, <1>5, <2>1 DEF Answered
<1>8. Truth'
  <2>1. c.stage = "off" => ~c.again
    BY <1>0 DEF Holds
  <2>2. Doing(p, "quiesce") => c.t = Off
    BY <1>0 DEF Stops
  <2>3. pc'[p] \in {"unlock", "enter", "check"} /\ (pc'[p] = "check" => ~cur'[p].again)
    BY <1>6, <2>1
  <2>4. lock' = p /\ fw'.word = word' /\ (Doing(p, "quiesce")' => word' = Off)
    BY <1>1, <1>4, <1>5, <2>2 DEF Doing
  <2> QED BY <1>2, <1>3, <1>4, <2>3, <2>4 DEF Truth, Active, Noticed, Known
<1>9. Cycled'
  <2>1. c.t # Off => fw.cycled
    BY <1>5 DEF Cycled
  <2>2. sgen' = gen => fw.cycled
    BY <1>2, <1>4, <2>1 DEF Cycled
  <2>3. c.stage # "main" => fw.cycled
    <3>1. c.stage = "on" => c.t # Off
      BY <1>0 DEF Holds, Off
    <3> QED BY <1>1, <2>1, <3>1 DEF Cycled
  <2>4. "tx" \in c.t => fw.cycled
    BY <2>1 DEF Off
  <2>5. \A q \in Proc : lock' = q => (pc'[q] # "enter" /\ "tx" \in cur'[q].t => fw.cycled)
                                     /\ (cur'[q].stage = "off" => fw.cycled)
    BY <1>1, <1>4, <1>6, <2>3, <2>4
  <2> QED BY <1>2, <1>4, <2>1, <2>2, <2>5, <1>5 DEF Cycled
<1> QED BY <1>7, <1>8, <1>9

LEMMA EndTrue ==
  ASSUME SInv, ~doubt, Answered, Truth, Cycled, NEW p \in Proc, Unlock(p) \/ Clear(p)
  PROVE  (Answered /\ Truth /\ Cycled)'
<1> USE WordAssumption DEF procs, chip, time
<1>0. /\ Typed /\ TypedProcs /\ Holds(p) /\ Step(p) /\ pc[p] \in {"unlock", "clear"} /\ Active(p)
      /\ (pc[p] = "unlock" <=> lock = p)
  BY DEF SInv, Wired, Typed, Step, Unlock, Clear, Holds, Active
<1>1. /\ Noticed /\ ~fence /\ ~lost /\ timer = "idle"
      /\ \A q \in Proc \ {p} : lock # q /\ pc[q] \in {"idle", "lock"}
  BY <1>0, Only
<1>2. \A q \in Proc \ {p} : pc'[q] = pc[q] /\ cur'[q] = cur[q] /\ plan'[q] = plan[q] /\ res'[q] = res[q]
  BY <1>0, StepOthers
<1>3. UNCHANGED <<fw, fence, lost, timer, gen, sgen, box, m4, irq, res, cur>> /\ fw.word = word
  <2>1. fw.word = word
    BY <1>0 DEF Truth
  <2> QED BY <2>1 DEF Unlock, Clear
<1>4. word' = word
  BY <1>0, <1>3 DEF Unlock, Clear, Truth, Answered
<1>5. pc'[p] \in {"idle", "clear"} /\ \A q \in Proc : lock' # q
  <2>1. CASE Unlock(p)
    BY <1>0, <1>1, <2>1 DEF Unlock, Goto, TypedProcs
  <2>2. CASE Clear(p)
    BY <1>0, <1>1, <2>2 DEF Clear, Goto, TypedProcs
  <2> QED BY <2>1, <2>2
<1>6. pc'[p] = "clear" => word = Off
  <2>1. CASE Unlock(p)
    BY <1>0, <2>1 DEF Unlock, Goto, Truth, TypedProcs
  <2>2. CASE Clear(p)
    BY <1>0, <2>2 DEF Clear, Truth
  <2> QED BY <2>1, <2>2
<1>7. Answered'
  BY <1>0, <1>1, <1>2, <1>3, <1>5 DEF Answered
<1>8. Truth'
  BY <1>0, <1>1, <1>2, <1>3, <1>4, <1>5, <1>6 DEF Truth, Noticed
<1>9. Cycled'
  BY <1>3, <1>5 DEF Cycled
<1> QED BY <1>7, <1>8, <1>9

\* The clients, the start of a heal and a reset given up disturb nothing that is
\* sent.
LEMMA ClientTrue ==
  ASSUME SInv, ~doubt, Answered, Truth, Cycled, Client \/ StartHeal \/ ResetAbort
  PROVE  (Answered /\ Truth /\ Cycled)'
<1> USE DEF procs, chip, time
<1>0. TypedProcs /\ \A q \in Proc : Holds(q)
  BY DEF SInv, Wired, Typed
<1>1. UNCHANGED <<pc, cur, res, lock, word, fw, fence, lost, timer, gen, sgen, box, m4, irq>>
      /\ \A q \in Proc : pc[q] # "idle" => plan'[q] = plan[q]
  <2>1. CASE ArmRing
    BY <2>1 DEF ArmRing
  <2>2. CASE \E p \in Proc : \E s \in Seq(Act) : Start(p, s)
    BY <1>0, <2>2 DEF Start, Idle, TypedProcs
  <2>3. CASE StartHeal
    BY <1>0, <2>3 DEF StartHeal, Idle, TypedProcs, Proc
  <2>4. CASE ResetAbort
    BY <1>0, <2>4 DEF ResetAbort, TypedProcs, Proc
  <2> QED BY <2>1, <2>2, <2>3, <2>4, ClientPlan DEF SInv, Wired
<1>2. Answered'
  BY <1>1 DEF Answered, Answering, Known
<1>3. Truth'
  <2>1. \A q \in Proc : Active(q)' = Active(q)
    BY <1>1 DEF Active, InBox
  <2>2. \A q \in Proc : pc[q] = "unlock" => Doing(q, "quiesce")' = Doing(q, "quiesce")
    BY <1>1 DEF Doing
  <2> QED BY <1>1, <2>1, <2>2 DEF Truth, Noticed, Known
<1>4. Cycled'
  BY <1>1 DEF Cycled
<1> QED BY <1>2, <1>3, <1>4

\* Where no process is active, each is before its lock.
LEMMA Nobody ==
  ASSUME SInv, \A q \in Proc : ~Active(q)
  PROVE  \A q \in Proc : lock # q /\ pc[q] \in {"idle", "lock"}
<1>1. ASSUME NEW q \in Proc PROVE lock # q /\ pc[q] \in {"idle", "lock"}
  <2>1. ~Active(q) /\ Holds(q) /\ pc[q] \in Label
    BY DEF SInv, Wired, Typed, TypedProcs
  <2> QED BY <2>1 DEF Active, InBox, Holds, Label
<1> QED BY <1>1

\* A reset of the chip, begun alone, leaves nothing in doubt.
LEMMA ResetTrue ==
  ASSUME SInv, ~doubt', ResetBegin \/ ChipRestart
  PROVE  (Answered /\ Truth /\ Cycled)'
<1> USE WordAssumption DEF procs, chip, time
<1>1. \A q \in Proc : ~Active(q)
  BY DEF ResetBegin, ChipRestart, Alone, Active
<1>2. \A q \in Proc : lock' # q /\ pc'[q] \in {"idle", "lock"}
  BY <1>1, Nobody DEF ResetBegin, ChipRestart
<1>3. /\ fw' = [word |-> Off, tdd |-> FALSE, cycled |-> FALSE]
      /\ box'.st = "free" /\ ~irq' /\ m4' = Free
  <2>1. Free.st = "free"
    BY DEF Free
  <2> QED BY <2>1 DEF ResetBegin, ChipRestart, ChipOff
<1>4. fence' \/ lost'
  BY DEF ResetBegin, ChipRestart
<1>5. Answered'
  BY <1>2, <1>3 DEF Answered
<1>6. Truth' /\ Cycled'
  BY <1>2, <1>3, <1>4 DEF Truth, Cycled, Noticed
<1> QED BY <1>5, <1>6

LEMMA NoticeTrue ==
  ASSUME SInv, ~doubt, ~doubt', Answered, Truth, Cycled,
         ResetEnd \/ DetectRestart \/ NotifyRead \/ NotifyStash
  PROVE  (Answered /\ Truth /\ Cycled)'
<1> USE WordAssumption DEF procs, chip, time
<1>0. TypedCounts
  BY DEF SInv, Wired, Typed
<1>1. \A q \in Proc : ~Active(q)
  BY DEF ResetEnd, DetectRestart, NotifyRead, NotifyStash, SInv, Excl, Noticed
<1>2. \A q \in Proc : lock # q /\ pc[q] \in {"idle", "lock"}
  BY <1>1, Nobody
<1>3. UNCHANGED <<pc, cur, res, lock, sgen>>
  BY DEF ResetEnd, DetectRestart, NotifyRead, NotifyStash
<1>4. Answered'
  <2>1. box.st = "free" /\ ~irq /\ m4 = Free
    BY <1>2 DEF Answered
  <2>2. box'.st = "free" /\ ~irq' /\ m4' = Free
    BY <2>1 DEF ResetEnd, DetectRestart, NotifyRead, NotifyStash
  <2> QED BY <1>2, <1>3, <2>2 DEF Answered
<1>5. CASE ResetEnd
  <2>1. fw' = fw /\ fw.word = Off /\ word' = Off /\ sgen # gen'
    BY <1>0, <1>5 DEF ResetEnd, Truth, TypedCounts
  <2> QED BY <1>2, <1>3, <1>4, <2>1 DEF Truth, Cycled
<1>6. CASE DetectRestart
  <2>1. fw' = fw /\ fw.word = Off /\ sgen # gen'
    BY <1>0, <1>6 DEF DetectRestart, Truth, TypedCounts, Noticed
  <2>2. timer' # "idle"
    BY <1>6 DEF DetectRestart
  <2> QED BY <1>2, <1>3, <1>4, <2>1, <2>2 DEF Truth, Cycled, Noticed
<1>7. CASE NotifyRead \/ NotifyStash
  <2>1. fw' = fw /\ fw.word = Off /\ UNCHANGED <<gen, lost, fence>>
    BY <1>7 DEF NotifyRead, NotifyStash, Truth, Noticed
  <2>2. timer' = "idle" => word' = Off
    BY <1>7 DEF NotifyRead, NotifyStash
  <2> QED BY <1>2, <1>3, <1>4, <2>1, <2>2 DEF Truth, Cycled, Noticed
<1> QED BY <1>5, <1>6, <1>7

LEMMA ChipTrue ==
  ASSUME SInv, ~doubt, Answered, Truth, Cycled, M4Take \/ M4Done
  PROVE  (Answered /\ Truth /\ Cycled)'
<1> USE WordAssumption DEF procs, chip, time
<1>0. box \in Mail /\ m4 \in Mail /\ Free.st = "free" /\ fw \in [word : Word, tdd : BOOLEAN, cycled : BOOLEAN]
  BY DEF SInv, Wired, Typed, TypedChip, TypedWords, Free
<1>1. PICK p \in Proc : pc[p] = "await"
  BY DEF M4Take, M4Done, Answered
<1>2. Answering(p) /\ Active(p) /\ cur[p] \in Cmd
  BY <1>1 DEF Answered, Active, InBox, SInv, Wired, Typed, TypedProcs
<1>3. /\ Noticed /\ ~fence /\ ~lost /\ timer = "idle"
      /\ \A q \in Proc \ {p} : lock # q /\ pc[q] \in {"idle", "lock"}
  BY <1>2, Only
<1>4. UNCHANGED <<pc, cur, plan, res, lock, word, fence, lost, timer, gen, sgen>>
  BY DEF M4Take, M4Done
<1>5. CASE M4Take
  <2>1. /\ box = [st |-> "posted", kind |-> cur[p].kind, t |-> cur[p].t, ok |-> TRUE]
        /\ irq /\ m4 = Free /\ fw.word = Known(p)
    BY <1>2, <1>5 DEF M4Take, Answering
  <2>2. box' = box /\ ~irq' /\ m4' = [box EXCEPT !.st = "work"] /\ fw' = fw
    BY <1>5, <2>1 DEF M4Take
  <2>3. Answering(p)'
    BY <1>4, <2>1, <2>2 DEF Answering, Known
  <2>4. Answered'
    BY <1>1, <1>3, <1>4, <2>3 DEF Answered
  <2>5. Truth'
    BY <1>1, <1>2, <1>3, <1>4, <2>2 DEF Truth, Active, InBox, Noticed
  <2>6. Cycled'
    BY <1>4, <2>2 DEF Cycled
  <2> QED BY <2>4, <2>5, <2>6
<1>6. CASE M4Done
  <2>1. /\ box = [st |-> "posted", kind |-> cur[p].kind, t |-> cur[p].t, ok |-> TRUE]
        /\ ~irq /\ m4 = [box EXCEPT !.st = "work"] /\ fw.word = Known(p)
    BY <1>2, <1>6 DEF M4Done, Answering
  <2>2. m4.kind = cur[p].kind /\ m4.t = cur[p].t
    BY <1>0, <2>1 DEF Mail
  <2>3. box' = [box EXCEPT !.st = "done", !.ok = TRUE] /\ irq' = irq /\ m4' = Free
        /\ fw' = IF m4.kind = "tdd" THEN [fw EXCEPT !.tdd = (m4.t # Off)]
                 ELSE [fw EXCEPT !.word = m4.t, !.cycled = fw.cycled \/ m4.t # Off]
    BY <1>6 DEF M4Done
  <2>4. box'.st = "done" /\ box'.ok
    BY <1>0, <2>3 DEF Mail
  <2>5. cur[p].kind \in {"word", "tdd"} /\ (cur[p].kind = "word" <=> lock = p) /\ (cur[p].kind = "tdd" => ~cur[p].again)
    <3>1. cur[p].kind \in Kind /\ cur[p].kind # "none" /\ (cur[p].kind = "word" <=> lock = p)
          /\ (cur[p].kind = "tdd" => ~cur[p].again)
      BY <1>1, <1>2 DEF SInv, Wired, Holds, InBox, Cmd
    <3> QED BY <3>1 DEF Kind
  <2>6. /\ fw'.word = IF cur[p].kind = "word" THEN cur[p].t ELSE word
        /\ fw'.cycled = (fw.cycled \/ (cur[p].kind = "word" /\ cur[p].t # Off))
    <3>1. CASE cur[p].kind = "tdd"
      BY <1>0, <2>1, <2>2, <2>3, <2>5, <3>1 DEF Known
    <3>2. CASE cur[p].kind = "word"
      BY <1>0, <2>2, <2>3, <3>2
    <3> QED BY <2>5, <3>1, <3>2
  <2>7. Answering(p)'
    BY <1>4, <2>1, <2>3, <2>4, <2>6 DEF Answering
  <2>8. Answered'
    BY <1>1, <1>3, <1>4, <2>7 DEF Answered
  <2>9. Truth'
    BY <1>1, <1>2, <1>3, <1>4, <2>6 DEF Truth, Active, InBox, Noticed
  <2>10. Cycled'
    BY <1>4, <2>1, <2>5, <2>6 DEF Cycled, Known
  <2> QED BY <2>8, <2>9, <2>10
<1> QED BY <1>5, <1>6

LEMMA TruesNext == ASSUME SInv, [Next]_vars PROVE Trues'
<1> SUFFICES ASSUME ~doubt' PROVE (Answered /\ Truth /\ Cycled)'
  BY DEF Trues
<1>1. CASE ResetBegin \/ ChipRestart
  BY <1>1, ResetTrue
<1>2. CASE ~ResetBegin /\ ~ChipRestart
  <2>1. ~doubt /\ ~M4Fail
    BY <1>2, Sure DEF SInv, Wired, M4Fail
  <2>2. Answered /\ Truth /\ Cycled
    BY <2>1 DEF SInv, Trues
  <2>3. CASE \E p \in Proc : Step(p)
    <3>1. PICK p \in Proc : Step(p)
      BY <2>3
    <3> QED BY <2>1, <2>2, <3>1, BeginTrue, EnterTrue, BoxTrue, FreeTrue, CommitTrue, EndTrue DEF Step
  <2>4. CASE UNCHANGED vars
    BY <2>2, <2>4 DEF vars, procs, chip, time, Answered, Truth, Cycled, Answering, Known, Active, InBox, Noticed, Doing
  <2> QED BY <1>2, <2>1, <2>2, <2>3, <2>4, ClientTrue, NoticeTrue, ChipTrue DEF Next, Work
<1> QED BY <1>1, <1>2

LEMMA SNext == ASSUME SInv, [Next]_vars PROVE SInv'
  BY WiredNext, ExclNext, TruesNext DEF SInv

LEMMA Always == Spec => []SInv
<1>1. SInv /\ [Next]_vars => SInv'
  BY SNext
<1> QED BY InitInv, <1>1, PTL DEF Spec

\* Every variable keeps its type, whatever overlaps and whatever fails.
THEOREM WordTypes == Spec => []TypeOK
<1>1. SInv => TypeOK
  <2> SUFFICES ASSUME Typed PROVE TypeOK
    BY DEF SInv, Wired
  <2>1. fw.word \in Word
    BY DEF Typed, TypedWords
  <2> QED BY <2>1 DEF Typed, TypedWords, TypedChip, TypedCounts, TypedProcs, TypeOK, Mail
<1> QED BY Always, <1>1, PTL

\* At rest the recorded word is what the chip runs, unless a command failed or
\* ran into what the send lock does not cover since the chip's last reset: the
\* apply, the quiesce, the re-apply and the heal of rfnm_lalib.c all leave
\* stream_word where the firmware is.
THEOREM SettledWord == Spec => []Settled
<1>1. SInv => Settled
  <2> SUFFICES ASSUME SInv, Quiet, ~doubt PROVE fw.word = word
    BY DEF Settled
  <2>1. Answered /\ Truth
    BY DEF SInv, Trues
  <2>2. \A p \in Proc : ~Active(p)
    BY DEF SInv, Wired, Holds, Quiet, Idle, Active, InBox
  <2>3. Noticed /\ ~fence
    BY DEF Quiet, Idle, SInv, Wired, Fenced, Doing, Proc
  <2> QED BY <2>1, <2>2, <2>3 DEF Truth
<1> QED BY Always, <1>1, PTL

\* The chip starts TX only when some lane has cycled since its last reset: the
\* internal RX cycle of __rfnm_la9310_stream_send comes first.
THEOREM CycledBeforeTx == Spec => TxCycled
<1>1. SInv /\ [Next]_vars
        => [("tx" \in fw'.word /\ "tx" \notin fw.word) => fw.cycled \/ doubt]_vars
  <2> SUFFICES ASSUME SInv, Next, "tx" \in fw'.word, "tx" \notin fw.word, ~doubt, ~fw.cycled PROVE FALSE
    OBVIOUS
  <2>1. Answered /\ Truth /\ Cycled
    BY DEF SInv, Trues
  <2>2. M4Done
    <3> USE DEF chip
    <3>1. CASE Client
      <4>1. CASE ArmRing
        BY <4>1 DEF ArmRing
      <4>2. CASE \E p \in Proc : \E s \in Seq(Act) : Start(p, s)
        BY <4>2 DEF Start
      <4> QED BY <3>1, <4>1, <4>2, ClientPlan
    <3>2. CASE \E p \in Proc : Step(p)
      <4>1. PICK p \in Proc : Step(p)
        BY <3>2
      <4> QED BY <4>1, StepFrame
    <3>3. CASE ResetBegin \/ ChipRestart
      <4>1. fw' = [word |-> Off, tdd |-> FALSE, cycled |-> FALSE]
        BY <3>3 DEF ResetBegin, ChipRestart, ChipOff
      <4> QED BY <4>1 DEF Off
    <3>4. CASE ResetAbort \/ ResetEnd \/ DetectRestart \/ NotifyRead \/ NotifyStash \/ StartHeal \/ M4Take
      BY <3>4 DEF ResetAbort, ResetEnd, DetectRestart, NotifyRead, NotifyStash, StartHeal, M4Take
    <3>5. CASE M4Fail
      <4>1. fw \in [word : Word, tdd : BOOLEAN, cycled : BOOLEAN]
        BY DEF SInv, Wired, Typed, TypedWords
      <4> QED BY <3>5, <4>1 DEF M4Fail, Off
    <3> QED BY <3>1, <3>2, <3>3, <3>4, <3>5 DEF Next, Work
  <2>3. PICK p \in Proc : pc[p] = "await"
    BY <2>1, <2>2 DEF M4Done, Answered
  <2>4. box \in Mail /\ Free.st = "free" /\ fw \in [word : Word, tdd : BOOLEAN, cycled : BOOLEAN]
    BY DEF SInv, Wired, Typed, TypedChip, TypedWords, Free
  <2>5. box = [st |-> "posted", kind |-> cur[p].kind, t |-> cur[p].t, ok |-> TRUE] /\ m4 = [box EXCEPT !.st = "work"]
    BY <2>1, <2>2, <2>3 DEF M4Done, Answered, Answering
  <2>6. m4.kind = cur[p].kind /\ m4.t = cur[p].t
    BY <2>4, <2>5 DEF Mail
  <2>7. cur[p].kind = "word" /\ "tx" \in cur[p].t
    <3>1. cur[p].kind \in {"word", "tdd"}
      <4>1. cur[p].kind \in Kind /\ cur[p].kind # "none"
        BY <2>3 DEF SInv, Wired, Typed, TypedProcs, Holds, InBox, Cmd
      <4> QED BY <4>1 DEF Kind
    <3> QED BY <2>2, <2>4, <2>6, <3>1 DEF M4Done
  <2>8. lock = p
    BY <2>3, <2>7 DEF SInv, Wired, Holds, InBox
  <2> QED BY <2>1, <2>3, <2>7, <2>8 DEF Cycled
<1> QED BY Always, <1>1, PTL DEF TxCycled, Spec

(***************************************************************************)
(* Nobody hangs, whatever overlaps and whatever fails: only the apply      *)
(* resets the chip, and a process before the lock or in the send knows     *)
(* what it is there for.                                                   *)
(***************************************************************************)
ResetsOnly(p) == p # "apply" => \A i \in DOMAIN plan[p] : plan[p][i].do # "reset"

Knows(p) ==
  /\ pc[p] = "lock" => \E what \in {"send", "quiesce", "reapply", "heal"} : Doing(p, what)
  /\ pc[p] = "enter" => cur[p].stage # "on"

Kept == \A p \in Proc : ResetsOnly(p) /\ Knows(p)

LEMMA InitKept == Init => Kept
  BY DEF Init, Kept, ResetsOnly, Knows

\* A process that reaches the lock has a reason to.
LEMMA StepKnows == ASSUME Wired, NEW p \in Proc, Step(p), Knows(p) PROVE Knows(p)'
<1>0. pc \in [Proc -> Label] /\ cur \in [Proc -> Cmd] /\ plan \in [Proc -> Seq(Act)] /\ Holds(p)
  BY DEF Wired, Typed, TypedProcs
<1> USE <1>0 DEF Goto, procs
<1>1. CASE BeginSend(p) \/ BeginQuiesce(p) \/ BeginLocked(p)
  <2>1. pc'[p] # "enter"
    BY <1>1 DEF BeginSend, BeginQuiesce, BeginLocked
  <2>2. CASE pc'[p] = "lock"
    <3>1. plan' = plan /\ (Doing(p, "send") \/ Doing(p, "quiesce") \/ Doing(p, "reapply") \/ Doing(p, "heal"))
      BY <1>1, <2>2 DEF BeginSend, BeginQuiesce, BeginLocked
    <3> QED BY <2>1, <3>1 DEF Knows, Doing
  <2> QED BY <2>1, <2>2 DEF Knows
<1>2. CASE BeginTdd(p) \/ Relatch(p)
  <2>1. pc'[p] \notin {"lock", "enter"}
    BY <1>2 DEF BeginTdd, Relatch
  <2> QED BY <2>1 DEF Knows
<1>3. CASE Lock(p)
  <2>1. pc'[p] = "enter" /\ cur'[p].stage = "main"
    BY <1>3 DEF Lock, Holds
  <2> QED BY <2>1 DEF Knows
<1>4. CASE LockAgain(p)
  <2> DEFINE t == IF Doing(p, "heal") THEN stash ELSE word
  <2>1. pc'[p] \in {"idle", "enter"}
    BY <1>4 DEF LockAgain
  <2>2. CASE pc'[p] = "enter"
    <3>1. Load(p, "word", t, TRUE) /\ t \in Word
      BY <1>4, <2>2 DEF LockAgain, Wired, Typed, TypedWords
    <3>2. cur'[p].stage = "main"
      <4> HIDE DEF t
      <4> QED BY <3>1, Loads DEF Wired, Kind
    <3> QED BY <2>2, <3>2 DEF Knows
  <2> QED BY <2>1, <2>2 DEF Knows
<1>5. CASE Enter(p) \/ Check(p) \/ Post(p) \/ AwaitDone(p) \/ AwaitTimeout(p) \/ FreeTdd(p) \/ FreeWord(p)
           \/ Unlock(p) \/ Clear(p)
  <2>1. pc'[p] \notin {"lock", "enter"}
    BY <1>5 DEF Enter, Check, Post, AwaitDone, AwaitTimeout, FreeTdd, FreeWord, Unlock, Clear
  <2> QED BY <2>1 DEF Knows
<1>6. CASE Commit(p)
  <2>1. cur[p] \in Cmd /\ cur[p].stage \in {"main", "on", "off"}
    BY DEF Cmd
  <2>2. pc'[p] # "lock" /\ (pc'[p] = "enter" => cur'[p].stage = "off")
    <3>1. CASE cur[p].stage = "main"
      BY <1>6, <3>1 DEF Commit
    <3>2. CASE cur[p].stage = "on"
      <4>1. cur' = [cur EXCEPT ![p].t = Off, ![p].stage = "off", ![p].again = FALSE] /\ pc' = [pc EXCEPT ![p] = "enter"]
        BY <1>6, <3>2 DEF Commit
      <4> QED BY <2>1, <4>1 DEF Cmd
    <3>3. CASE cur[p].stage = "off"
      BY <1>6, <3>3 DEF Commit
    <3> QED BY <2>1, <3>1, <3>2, <3>3
  <2> QED BY <2>2 DEF Knows
<1> QED BY <1>1, <1>2, <1>3, <1>4, <1>5, <1>6 DEF Step

LEMMA StepKept == ASSUME Wired, Kept, NEW p \in Proc, Step(p) PROVE Kept'
<1>1. ASSUME NEW q \in Proc PROVE ResetsOnly(q)' /\ Knows(q)'
  <2>0. ResetsOnly(q) /\ Knows(q)
    BY DEF Kept
  <2>1. CASE q # p
    <3>1. pc'[q] = pc[q] /\ cur'[q] = cur[q] /\ plan'[q] = plan[q]
      BY <2>1, StepOthers DEF Wired
    <3> QED BY <2>0, <3>1 DEF ResetsOnly, Knows, Doing
  <2>2. CASE q = p
    <3>1. ResetsOnly(q)'
      <4>1. ASSUME p # "apply", NEW i \in DOMAIN plan'[p], plan'[p][i].do = "reset" PROVE FALSE
        <5>1. PICK j \in DOMAIN plan[p] : plan[p][j] = plan'[p][i]
          BY <4>1, StepDeed
        <5> QED BY <2>0, <2>2, <4>1, <5>1 DEF ResetsOnly
      <4> QED BY <2>2, <4>1 DEF ResetsOnly
    <3>2. Knows(q)'
      BY <2>0, <2>2, StepKnows
    <3> QED BY <3>1, <3>2
  <2> QED BY <2>1, <2>2
<1> QED BY <1>1 DEF Kept

\* Only the apply's reclock plans a reset.
LEMMA ClientKept == ASSUME Wired, Kept, Client PROVE Kept'
<1>0. plan \in [Proc -> Seq(Act)]
  BY DEF Wired, Typed, TypedProcs
<1>1. UNCHANGED <<pc, cur>>
      /\ \A q \in Proc : \/ plan'[q] = plan[q]
                         \/ pc[q] = "idle" /\ (q # "apply" => \A i \in DOMAIN plan'[q] : plan'[q][i].do # "reset")
  <2> USE <1>0 DEF Start, Idle, Op
  <2>1. CASE ArmRing
    BY <2>1 DEF ArmRing, procs
  <2>2. CASE (\E t \in Ask : Apply(t)) \/ (\E t \in Ask : ApplyReclock(t))
    BY <2>2 DEF Apply, ApplyReclock
  <2>3. CASE Session
    BY <2>3 DEF Session
  <2>4. CASE \E on \in BOOLEAN : SetTdd(on)
    BY <2>4 DEF SetTdd
  <2>5. CASE SetAnchor
    BY <2>5 DEF SetAnchor
  <2> QED BY <2>1, <2>2, <2>3, <2>4, <2>5 DEF Client
<1>2. ASSUME NEW q \in Proc PROVE ResetsOnly(q)' /\ Knows(q)'
  <2>0. ResetsOnly(q) /\ Knows(q)
    BY DEF Kept
  <2> QED BY <1>1, <2>0 DEF ResetsOnly, Knows, Doing
<1> QED BY <1>2 DEF Kept

LEMMA RestKept ==
  ASSUME Wired, Kept, \/ StartHeal \/ ResetBegin \/ ResetAbort \/ ResetEnd
                      \/ ChipRestart \/ DetectRestart \/ NotifyRead \/ NotifyStash \/ M4Take \/ M4Done \/ M4Fail
  PROVE  Kept'
<1>0. plan \in [Proc -> Seq(Act)] /\ Fenced
  BY DEF Wired, Typed, TypedProcs
<1>1. CASE StartHeal
  <2>1. UNCHANGED <<pc, cur>> /\ pc["heal"] = "idle"
    BY <1>1 DEF StartHeal, Idle
  <2>2. \A q \in Proc : plan'[q] = IF q = "heal" THEN <<Op("heal", Off)>> ELSE plan[q]
    BY <1>0, <1>1 DEF StartHeal
  <2>3. Op("heal", Off).do # "reset"
    BY DEF Op
  <2>4. ASSUME NEW q \in Proc PROVE ResetsOnly(q)' /\ Knows(q)'
    BY <2>1, <2>2, <2>3 DEF Kept, ResetsOnly, Knows, Doing
  <2> QED BY <2>4 DEF Kept
<1>2. CASE ResetAbort \/ ResetEnd
  <2>1. UNCHANGED <<pc, cur>> /\ pc["apply"] = "idle"
    BY <1>0, <1>2 DEF ResetAbort, ResetEnd, Fenced
  <2>2. \A q \in Proc : q # "apply" => plan'[q] = plan[q]
    BY <1>0, <1>2 DEF ResetAbort, ResetEnd, Next1
  <2>3. ASSUME NEW q \in Proc PROVE ResetsOnly(q)' /\ Knows(q)'
    BY <2>1, <2>2 DEF Kept, ResetsOnly, Knows, Doing
  <2> QED BY <2>3 DEF Kept
<1>3. CASE \/ ResetBegin \/ ChipRestart \/ DetectRestart \/ NotifyRead \/ NotifyStash \/ M4Take \/ M4Done \/ M4Fail
  <2>1. UNCHANGED <<pc, cur, plan>>
    BY <1>3 DEF ResetBegin, ChipRestart, DetectRestart, NotifyRead, NotifyStash, M4Take, M4Done, M4Fail, procs
  <2> QED BY <2>1 DEF Kept, ResetsOnly, Knows, Doing
<1> QED BY <1>1, <1>2, <1>3

LEMMA KeptNext == ASSUME Wired, Kept, [Next]_vars PROVE Kept'
<1>1. CASE \E p \in Proc : Step(p)
  BY <1>1, StepKept
<1>2. CASE UNCHANGED vars
  BY <1>2 DEF vars, procs, Kept, ResetsOnly, Knows, Doing
<1> QED BY <1>1, <1>2, ClientKept, RestKept DEF Next, Work

\* Who is past the lock can go on, or the M4 has its command.
LEMMA AtWork ==
  ASSUME Wired, Kept, NEW p \in Proc, pc[p] \notin {"idle", "lock"}
  PROVE  CanWork
<1>1. pc[p] \in Label /\ Holds(p) /\ Knows(p)
  BY DEF Wired, Typed, TypedProcs, Kept
<1>2. CASE pc[p] = "await"
  <2>1. CanStep(p) \/ irq \/ m4 # Free
    BY <1>2 DEF CanStep
  <2> QED BY <2>1 DEF CanWork
<1>3. CASE pc[p] # "await"
  <2>1. CanStep(p)
    BY <1>1, <1>3 DEF Label, Holds, InBox, Knows, CanStep
  <2> QED BY <2>1 DEF CanWork
<1> QED BY <1>2, <1>3

\* Who keeps a sender from the lock can go on itself.
LEMMA SomebodyWorks == ASSUME Wired, Kept, lock # NoProc PROVE CanWork
<1>1. lock \in Proc
  BY DEF Wired, Typed, TypedProcs
<1>2. pc[lock] \notin {"idle", "lock"}
  BY <1>1 DEF Wired, Holds
<1> QED BY <1>1, <1>2, AtWork

LEMMA NotStuck == ASSUME Wired, Kept, NEW p \in Proc, ~Idle(p) PROVE CanWork
<1>1. plan[p] \in Seq(Act) /\ pc[p] \in Label /\ Holds(p) /\ Knows(p) /\ ResetsOnly(p)
  BY DEF Wired, Typed, TypedProcs, Kept
<1>2. plan[p] # <<>>
  BY <1>1 DEF Idle, Holds
<1>3. CASE pc[p] \notin {"idle", "lock"}
  BY <1>3, AtWork
<1>4. CASE lock # NoProc
  BY <1>4, SomebodyWorks
<1>5. CASE pc[p] = "lock" /\ lock = NoProc
  <2>1. CanStep(p)
    BY <1>1, <1>5 DEF Knows, CanStep
  <2> QED BY <2>1 DEF CanWork
<1>6. CASE pc[p] = "idle"
  <2>1. 1 \in DOMAIN plan[p] /\ plan[p][1] \in Act /\ plan[p][1].do \in Deed
    <3>1. 1 \in DOMAIN plan[p]
      BY <1>1, <1>2
    <3>2. plan[p][1] \in Act
      BY <1>1, <1>2, PlanTail
    <3> QED BY <3>1, <3>2 DEF Act
  <2>2. CASE plan[p][1].do = "reset"
    <3>1. p = "apply"
      BY <1>1, <2>1, <2>2 DEF ResetsOnly
    <3> QED BY <1>2, <1>6, <2>2, <3>1 DEF CanWork, Doing
  <2>3. CASE plan[p][1].do # "reset"
    <3>1. CanStep(p)
      BY <1>2, <1>6, <2>1, <2>3 DEF CanStep, Doing, Deed
    <3> QED BY <3>1 DEF CanWork
  <2> QED BY <2>2, <2>3
<1> QED BY <1>3, <1>4, <1>5, <1>6

\* As long as an operation is unfinished, the guards of some step of the driver,
\* its timer or the M4 hold: the send lock, the 100 ms wait for the mailbox and
\* the fence of a commanded reset never leave everyone waiting, whatever overlaps
\* and after any failures.
THEOREM SomebodyCan == Spec => []((\E p \in Proc : ~Idle(p)) => CanWork)
<1>1. Init => Wired /\ Kept
  BY InitInv, InitKept DEF SInv
<1>2. Wired /\ Kept /\ [Next]_vars => (Wired /\ Kept)'
  BY WiredNext, KeptNext
<1>3. Wired /\ Kept => ((\E p \in Proc : ~Idle(p)) => CanWork)
  BY NotStuck
<1> QED BY <1>1, <1>2, <1>3, PTL DEF Spec

\* No sender waits for ever, given that Work can act where CanWork holds: the
\* one premise is about ENABLED, and TLC checks it (StreamWord_guards.cfg).
THEOREM NobodyHangs == Spec /\ []GuardsTrue => []NoHang
<1>1. ((\E p \in Proc : ~Idle(p)) => CanWork) /\ GuardsTrue => NoHang
  BY DEF GuardsTrue, NoHang
<1> QED BY SomebodyCan, <1>1, PTL

=============================================================================
