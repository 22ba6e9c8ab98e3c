------------------------------ MODULE PhyTime -------------------------------
(***************************************************************************)
(* The absolute time of la9310_rfnm.c.  The chip counts ticks in 32 bits;  *)
(* a timer samples the counter once a second and extends it to 64 bits     *)
(* under a seqlock, callers of rfnm_phytimer_now64 read the extension, and *)
(* a generation number moves when the chip restarted: on a commanded hard  *)
(* reset, and when a sample runs backwards further than a wrap explains.   *)
(* Verbs of a session latched in another generation are refused.           *)
(***************************************************************************)
EXTENDS Integers

CONSTANTS
  Caller,     \* threads that ask for the time
  Lap,        \* the counter counts modulo Lap (2^32)
  MaxStep,    \* RFNM_PHY64_MAX_STEP
  Gap,        \* longest time from reading a sample to the landing of the next
  Phase,      \* what the counter may read when lalib registers it
  Prompt,     \* no commanded reset overtakes a sample (see Voids)
  ClockMax,   \* bounds: time,
  TroubleMax, \* restarts and resets of the chip,
  OpenMax     \* sessions opened

ASSUME PhyAssumption ==
  /\ {Lap, MaxStep, Gap} \subseteq Nat \ {0} /\ {ClockMax, TroubleMax, OpenMax} \subseteq Nat
  /\ Phase \subseteq 0..(Lap - 1) /\ Prompt \in BOOLEAN
  /\ MaxStep < Lap /\ Gap < Lap

VARIABLES
  clock, boot,  \* real time in ticks; when the counter was last 0
  fenced, seen,  \* rfnm_la9310_mmio_fenced(); last_now, the last tick captured
  wraps, last, valid, \* rfnm_phy64_wraps, _last_lo, _valid: the seqlock's data
  gen, sess,    \* rfnm_phy_gen, rfnm_session_phy_gen
  pc, tmp,      \* the sampler and the commanded reset; the generation each read
  slo, sat, stale, \* the sampler's sample, when it was read, it is of a chip run now over
  at,           \* when the sample that landed last was read
  rpc, rw, rs, rl, \* callers: step, wraps and last sample read, counter read
  torn,         \* callers whose sequence number is out of date
  from, mark, firm, \* history of a call: when it began; whether the time stood
                \* still under it; whether it began with a sample in place
  lost,         \* history: a restart of the chip that no generation tells yet
  blind,        \* history: it came where a sample cannot show it
  zero,         \* history: the real time of the extended time 0
  joined,         \* history: the session was latched after the last restart
  trouble, opens

chip == <<boot, fenced, seen>>
seq  == <<wraps, last, valid>>
smp  == <<slo, sat, stale, at>>
call == <<rpc, rw, rs, rl, torn, from, mark, firm>>
past == <<lost, blind, zero, joined>>
pvars == <<clock, chip, seq, gen, sess, pc, tmp, smp, call, past, trouble, opens>>

Writer == {"sampler", "reset"}
Counter == (clock - boot) % Lap

PInit ==
  /\ clock = 0 /\ \E p \in Phase : boot = -p /\ seen = p /\ zero = -p
  /\ fenced = FALSE /\ wraps = 0 /\ last = 0 /\ valid = FALSE
  /\ gen = 1 /\ sess = 1 /\ pc = [w \in Writer |-> "idle"] /\ tmp = [w \in Writer |-> 0]
  /\ slo = 0 /\ sat = 0 /\ stale = FALSE /\ at = 0
  /\ rpc = [r \in Caller |-> "idle"] /\ rw = [r \in Caller |-> 0]
  /\ rs = [r \in Caller |-> 0] /\ rl = [r \in Caller |-> 0] /\ torn = {}
  /\ from = [r \in Caller |-> 0] /\ mark = [r \in Caller |-> "over"] /\ firm = {}
  /\ lost = "no" /\ blind = FALSE /\ joined = TRUE /\ trouble = 0 /\ opens = 0

-----------------------------------------------------------------------------
(***************************************************************************)
(* rfnm_la9310_phytimer_now: the counter, or while the link is fenced the  *)
(* last tick captured, which is a plain static: of two captures at a time  *)
(* either may be stored last.                                              *)
(***************************************************************************)
Now(lo) ==
  IF fenced THEN lo = seen /\ UNCHANGED seen
           ELSE lo = Counter /\ seen' \in {seen, lo}

\* What disturbs the time of the calls under way; a caller that has its tick
\* and not yet the generation to go with it only minds the latter.
Disturbed == [r \in Caller |-> IF rpc[r] # "tag" /\ mark[r] = "good" THEN "bad" ELSE mark[r]]
Overtaken == [r \in Caller |-> IF mark[r] # "good" THEN mark[r]
                               ELSE IF rpc[r] = "tag" THEN "late" ELSE "bad"]

\* every write section makes the readers inside the loop go round again
Written == torn' = {r \in Caller : rpc[r] # "idle"}

-----------------------------------------------------------------------------
(***************************************************************************)
(* rfnm_phytimer_now64: the loop until nobody wrote meanwhile, the look at *)
(* the valid flag behind the loop, and for a status request the generation *)
(* read after it (rfnm_populate_dev_status_ext).                           *)
(***************************************************************************)
CallStarts(r) ==
  /\ rpc[r] = "idle" /\ rpc' = [rpc EXCEPT ![r] = "snap"]
  /\ from' = [from EXCEPT ![r] = clock]
  /\ mark' = [mark EXCEPT ![r] = IF lost = "no" THEN "good" ELSE "bad"]
  /\ firm' = IF valid THEN firm \cup {r} ELSE firm \ {r}
  /\ UNCHANGED <<clock, chip, seq, gen, sess, pc, tmp, smp, rw, rs, rl, torn, past, trouble, opens>>

Snap(r) ==
  /\ rpc[r] = "snap" /\ rpc' = [rpc EXCEPT ![r] = "read"]
  /\ rw' = [rw EXCEPT ![r] = wraps] /\ rs' = [rs EXCEPT ![r] = last] /\ torn' = torn \ {r}
  /\ UNCHANGED <<clock, chip, seq, gen, sess, pc, tmp, smp, rl, from, mark, firm, past, trouble, opens>>

Read(r) ==
  /\ rpc[r] = "read" /\ rpc' = [rpc EXCEPT ![r] = IF r \in torn THEN "snap" ELSE "test"]
  /\ \E lo \in 0..(Lap - 1) : Now(lo) /\ rl' = [rl EXCEPT ![r] = lo]
  /\ UNCHANGED <<clock, boot, fenced, seq, gen, sess, pc, tmp, smp, rw, rs, torn, from, mark, firm, past, trouble, opens>>

\* mutant: a wrap that no sample has shown yet is not counted
Now64Unwrapped(r) == rw[r] * Lap + rl[r]

\* what the call returns, when its look at the flag comes now
Now64(r) == (IF valid /\ rl[r] < rs[r] THEN rw[r] + 1 ELSE rw[r]) * Lap + rl[r]

Test(r) ==
  /\ rpc[r] = "test" /\ rpc' = [rpc EXCEPT ![r] = "tag"]
  /\ UNCHANGED <<clock, chip, seq, gen, sess, pc, tmp, smp, rw, rs, rl, torn, from, mark, firm, past, trouble, opens>>

Tag(r) ==
  /\ rpc[r] = "tag" /\ rpc' = [rpc EXCEPT ![r] = "idle"]
  /\ mark' = [mark EXCEPT ![r] = IF @ = "late" THEN @ ELSE "over"]
  /\ rw' = [rw EXCEPT ![r] = 0] /\ rs' = [rs EXCEPT ![r] = 0] /\ rl' = [rl EXCEPT ![r] = 0]
  /\ torn' = torn \ {r} /\ firm' = firm \ {r} /\ from' = [from EXCEPT ![r] = 0]
  /\ UNCHANGED <<clock, chip, seq, gen, sess, pc, tmp, smp, past, trouble, opens>>

-----------------------------------------------------------------------------
(***************************************************************************)
(* rfnm_phy64_timer_fn: it reads the counter first and takes the lock      *)
(* then.  A sample behind the last one is a wrap when it lies within       *)
(* MaxStep of it modulo Lap, and a restart otherwise.                      *)
(***************************************************************************)
Sample ==
  /\ pc["sampler"] = "idle" /\ pc' = [pc EXCEPT !["sampler"] = "write"]
  /\ \E lo \in 0..(Lap - 1) : Now(lo) /\ slo' = lo
  /\ sat' = clock /\ stale' = fenced
  /\ UNCHANGED <<clock, boot, fenced, seq, gen, sess, tmp, at, call, past, trouble, opens>>

Restarted(lo) == valid /\ lo < last /\ (lo - last) % Lap > MaxStep

Land ==
  /\ pc["sampler"] = "write"
  /\ pc' = [pc EXCEPT !["sampler"] = IF Restarted(slo) THEN "void" ELSE "idle"]
  /\ valid' = TRUE
  /\ wraps' = IF valid /\ slo < last /\ ~Restarted(slo) THEN wraps + 1 ELSE wraps
  /\ last' = IF Restarted(slo) THEN last ELSE slo
  /\ at' = sat /\ slo' = 0 /\ sat' = 0 /\ stale' = FALSE /\ Written
  /\ zero' = IF ~valid /\ ~stale THEN sat - slo ELSE zero
  /\ lost' = IF lost = "fresh" /\ ~stale /\ ~Restarted(slo) THEN "missed" ELSE lost
  /\ UNCHANGED <<clock, chip, gen, sess, tmp, rpc, rw, rs, rl, from, mark, firm, blind, joined, trouble, opens>>

(***************************************************************************)
(* rfnm_phy_gen_bump, by the sampler or by the commanded reset: void the   *)
(* extension under the lock, then count the generation without it.         *)
(* Under Prompt an instance keeps a commanded reset from passing a sample  *)
(* that was read before the chip came up, or judged a restart.             *)
(***************************************************************************)
Overtakes == pc["sampler"] \in {"void", "load", "store"} \/ (pc["sampler"] = "write" /\ stale)

Voids(w) ==
  /\ pc[w] = "void" /\ (w = "reset" /\ Prompt => ~Overtakes)
  /\ pc' = [pc EXCEPT ![w] = "load"]
  /\ wraps' = 0 /\ valid' = FALSE /\ Written
  /\ zero' = clock - Counter /\ lost' = IF fenced THEN "fresh" ELSE "void"
  /\ mark' = Disturbed
  /\ UNCHANGED <<clock, chip, last, gen, sess, tmp, smp, rpc, rw, rs, rl, from, firm, blind, joined, trouble, opens>>

Loads(w) ==
  /\ pc[w] = "load" /\ pc' = [pc EXCEPT ![w] = "store"]
  /\ tmp' = [tmp EXCEPT ![w] = gen]
  /\ UNCHANGED <<clock, chip, seq, gen, sess, smp, call, past, trouble, opens>>

Stores(w) ==
  /\ pc[w] = "store" /\ pc' = [pc EXCEPT ![w] = IF w = "reset" THEN "latch" ELSE "idle"]
  /\ gen' = tmp[w] + 1 /\ tmp' = [tmp EXCEPT ![w] = 0] /\ mark' = Overtaken
  /\ lost' = IF lost = "void" THEN "no" ELSE lost
  /\ UNCHANGED <<clock, chip, seq, sess, smp, rpc, rw, rs, rl, torn, from, firm, blind, zero, joined, trouble, opens>>

-----------------------------------------------------------------------------
(***************************************************************************)
(* rfnm_hard_reset_la9310 as far as the time goes: the link is fenced, the *)
(* board resets the chip, the link comes back, a new generation begins and *)
(* the session that commanded the reset joins it.                          *)
(***************************************************************************)
Troubled == trouble < TroubleMax /\ trouble' = trouble + 1

ResetBegins ==
  /\ pc["reset"] = "idle" /\ Troubled /\ pc' = [pc EXCEPT !["reset"] = "down"]
  /\ fenced' = TRUE /\ lost' = "fresh" /\ blind' = TRUE /\ joined' = FALSE /\ mark' = Disturbed
  /\ UNCHANGED <<clock, boot, seen, seq, gen, sess, tmp, smp, rpc, rw, rs, rl, torn, from, firm, zero, opens>>

BoardReset ==
  /\ pc["reset"] = "down" /\ pc' = [pc EXCEPT !["reset"] = "up"]
  /\ boot' = clock /\ stale' = (pc["sampler"] = "write")
  /\ UNCHANGED <<clock, fenced, seen, seq, gen, sess, tmp, slo, sat, at, call, past, trouble, opens>>

LinkUp ==
  /\ pc["reset"] = "up" /\ pc' = [pc EXCEPT !["reset"] = "void"]
  /\ fenced' = FALSE
  /\ UNCHANGED <<clock, boot, seen, seq, gen, sess, tmp, smp, call, past, trouble, opens>>

\* an error of the reprobe: no generation is counted; when the root complex does
\* not resume, the fence stays up
ResetFails ==
  /\ pc["reset"] \in {"down", "up", "void"} /\ pc' = [pc EXCEPT !["reset"] = "idle"]
  /\ fenced' \in {FALSE, pc["reset"] = "up"}
  /\ UNCHANGED <<clock, boot, seen, seq, gen, sess, tmp, smp, call, past, trouble, opens>>

\* mutant: the session that commanded the reset is left behind
LatchForgets ==
  /\ pc["reset"] = "latch" /\ pc' = [pc EXCEPT !["reset"] = "idle"]
  /\ joined' = TRUE
  /\ UNCHANGED <<clock, chip, seq, gen, sess, tmp, smp, call, lost, blind, zero, trouble, opens>>

Latches ==
  /\ pc["reset"] = "latch" /\ pc' = [pc EXCEPT !["reset"] = "idle"]
  /\ sess' = gen /\ joined' = (lost = "no")
  /\ UNCHANGED <<clock, chip, seq, gen, tmp, smp, call, lost, blind, zero, trouble, opens>>

\* rfnm_restart_sm, behind its lock: the incoming owner works in the live generation
Reopen ==
  /\ opens < OpenMax /\ opens' = opens + 1
  /\ sess' = gen /\ joined' = (lost = "no")
  /\ UNCHANGED <<clock, chip, seq, gen, pc, tmp, smp, call, lost, blind, zero, trouble>>

-----------------------------------------------------------------------------
\* Time goes on, while the sampler comes in time.
Passes ==
  /\ clock < ClockMax /\ clock - at < Gap
  /\ clock' = clock + 1
  /\ UNCHANGED <<chip, seq, gen, sess, pc, tmp, smp, call, past, trouble, opens>>

(***************************************************************************)
(* The chip restarts by itself.  A sample can show it when one is in place *)
(* and the counter was far enough from 0 and from its wrap.                *)
(***************************************************************************)
InSight == valid /\ 2 * Gap < Counter /\ Counter < Lap - MaxStep

ChipRestarts ==
  /\ ~fenced /\ pc["reset"] = "idle" /\ Troubled
  /\ boot' = clock /\ joined' = FALSE /\ mark' = Disturbed
  /\ stale' = (pc["sampler"] = "write")
  /\ lost' = IF lost = "missed" THEN "missed" ELSE "fresh"
  /\ blind' = CASE lost = "no" -> ~InSight [] lost = "fresh" -> blind [] OTHER -> TRUE
  /\ UNCHANGED <<clock, fenced, seen, seq, gen, sess, pc, tmp, slo, sat, at, rpc, rw, rs, rl, torn, from, firm, zero, opens>>

-----------------------------------------------------------------------------
Calls(r) == CallStarts(r) \/ Snap(r) \/ Read(r) \/ Test(r) \/ Tag(r)
Writes(w) == Voids(w) \/ Loads(w) \/ Stores(w)

PNext ==
  \/ \E r \in Caller : Calls(r)
  \/ Sample \/ Land \/ (\E w \in Writer : Writes(w))
  \/ ResetBegins \/ BoardReset \/ LinkUp \/ ResetFails \/ Latches \/ Reopen
  \/ Passes \/ ChipRestarts

PSpec == PInit /\ [][PNext]_pvars

-----------------------------------------------------------------------------
PTypeOK ==
  /\ clock \in Nat /\ boot \in Int /\ fenced \in BOOLEAN /\ seen \in 0..(Lap - 1)
  /\ wraps \in Nat /\ last \in 0..(Lap - 1) /\ valid \in BOOLEAN /\ gen \in Nat /\ sess \in Nat
  /\ pc \in [Writer -> {"idle", "write", "down", "up", "void", "load", "store", "latch"}]
  /\ tmp \in [Writer -> Nat] /\ slo \in 0..(Lap - 1) /\ sat \in Nat /\ stale \in BOOLEAN /\ at \in Nat
  /\ rpc \in [Caller -> {"idle", "snap", "read", "test", "tag"}]
  /\ rw \in [Caller -> Nat] /\ {rs, rl} \subseteq [Caller -> 0..(Lap - 1)]
  /\ torn \subseteq Caller /\ firm \subseteq Caller /\ from \in [Caller -> Nat]
  /\ mark \in [Caller -> {"over", "good", "bad", "late"}]
  /\ lost \in {"no", "fresh", "missed", "void"} /\ blind \in BOOLEAN /\ zero \in Int /\ joined \in BOOLEAN
  /\ trouble \in Nat /\ opens \in Nat

\* rfnm_phytimer_now64 "serves every kernel consumer a fresh, tear-free absolute
\* tick" (la9310_rfnm.c:354): what a call returns that began with a sample in
\* place, and under which chip and generation stood, was the time at some moment
\* of the call.
Timely(r) == from[r] <= zero + Now64(r) /\ zero + Now64(r) <= clock
Exact == \A r \in Caller : rpc[r] = "test" /\ mark[r] = "good" /\ r \in firm => Timely(r)

\* The same of every call, those too that began before the generation's first
\* sample: the valid flag is read behind the loop (:387).
TearFree == \A r \in Caller : rpc[r] = "test" /\ mark[r] = "good" => Timely(r)

\* The sampler calls a restart only what is one (la9310_rfnm.c:455).
NoFalseAlarm ==
  [][pc["sampler"] = "write" /\ pc'["sampler"] = "void" => lost # "no"]_pvars

\* A restart nobody commanded is noticed by the first sample taken behind it,
\* unless the counter was within MaxStep of its wrap or had hardly begun.
RestartSeen == lost = "missed" => blind

\* When no restart is open, the verbs' gate tells the truth: a session is refused
\* exactly when the chip restarted since it was latched (la9310_rfnm.c:358, :4854).
\* A restart is open from the reset of the counter to the new generation; one that
\* a sample passed over although it showed is not excused.
Told == lost = "no" \/ (lost = "missed" /\ ~blind)
GateTruth ==
  Told /\ (\A w \in Writer : pc[w] \in {"idle", "write"}) => (sess = gen <=> joined)

\* "ticks compare only within one generation" (rfnm_status_ext.h:95): a status
\* that carries a good tick carries the generation it counts in.
Labelled == \A r \in Caller : rpc[r] = "idle" => mark[r] # "late"
=============================================================================
