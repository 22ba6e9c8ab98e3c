------------------------------- MODULE TxAir --------------------------------
(***************************************************************************)
(* What rfnm_handler_out (la9310_rfnm.c) does to a packet once it is the   *)
(* first of the pending list (TxPool): judge its stamp against the PHY     *)
(* timer, write its samples to the slots of the DAC ring that the stamp    *)
(* names, and group timed packets into windows for the scheduler.  The     *)
(* firmware reads the ring round and round and never clears it.            *)
(*                                                                         *)
(* Time is counted in ticks, Tps of them to a slot, one sample to a tick.  *)
(* A sample in the ring is represented by the tick it is meant for.        *)
(***************************************************************************)
EXTENDS Integers, Sequences, FiniteSets

CONSTANTS
  N,         \* slots of the ring (RFNM_DAC_BUFCNT)
  Tps,       \* ticks per slot (128 << tx_r_shift)
  T0,        \* tick of slot 0 (tx_t0)
  Ahead,     \* ticks the firmware fetches ahead (16 slots)
  MinLead,   \* rfnm_tx_min_lead_ticks (16 + 48 slots)
  Far,       \* ticks beyond half the ring that make a stamp wild (a second)
  Wrap,      \* range of a stamp (2^32)
  Start,     \* the PHY timer at the beginning
  TimeMax,   \* bound: ticks that pass
  PktMax,    \* bound: packets sent
  FlushCap,  \* bound: flushes
  Kind,      \* what a client's packets are: "timed", "pos", "bare"
  Gap,       \* ticks a client may leave between two packets
  Multi,     \* slots a packet may carry (up to RFNM_TX_USB_BUF_MULTI)
  Windowed   \* the scheduler takes windows (rfnm_tx_windowed_q_cb)

Lap == N * Tps
MaxLead == (N \div 2) * Tps
Silence == -1

ASSUME TxAirAssumption ==
  /\ N \in Nat \ {0} /\ Tps \in Nat \ {0} /\ {T0, Ahead, MinLead, Far, Start} \subseteq Nat
  /\ T0 <= Start /\ Ahead < MinLead /\ MinLead < MaxLead
  /\ Wrap \in Nat \ {0} /\ Wrap % Lap = 0 /\ 2 * (MaxLead + Far) < Wrap
  /\ Windowed \in BOOLEAN /\ Gap \subseteq Nat /\ Multi \subseteq 1..(N \div 2)
  /\ Tps <= Ahead /\ {TimeMax, PktMax, FlushCap} \subseteq Nat

VARIABLES
  now,       \* the PHY timer (64 bit)
  kind,      \* what the client of this session sends
  sent,      \* packets sent
  feed,      \* where the client's last packet ended
  queue,     \* packets waiting, in the order of their numbers
  judged,    \* when the first one passed the judge, or -1
  ring,      \* rfnm_bufdesc_tx, by ticks of the lap
  win,       \* rfnm_tx_win
  out,       \* windows handed to the sink by this step
  promised,  \* ticks of this session's samples counted as placed
  aired,     \* ticks at which the firmware fetched the sample meant for them
  spoilt,    \* promised ticks overwritten by a mid-slot packet or a leftover window
  flushes    \* flushes done

avars == <<now, kind, sent, feed, queue, judged, ring, win, out, promised, aired, spoilt, flushes>>

NoWin == [active |-> FALSE, open |-> 0, first |-> 0, next |-> 0, slots |-> 0, jump |-> 0, old |-> FALSE]

AInit ==
  /\ now = Start /\ kind \in Kind /\ sent = 0 /\ feed = Start + MinLead /\ queue = <<>> /\ judged = -1
  /\ ring = [x \in 0..(Lap - 1) |-> Silence]
  /\ win = NoWin /\ out = {} /\ promised = {} /\ aired = {} /\ spoilt = {} /\ flushes = 0

-----------------------------------------------------------------------------
(***************************************************************************)
(* The client stamps its packets one after another.  The driver sees the   *)
(* stamp modulo Wrap.                                                      *)
(***************************************************************************)
Send(gap, multi, eob) ==
  /\ sent < PktMax /\ sent' = sent + 1 /\ (eob => kind = "timed")
  /\ queue' = Append(queue, [stamp |-> feed + gap, multi |-> multi, eob |-> eob])
  /\ feed' = feed + gap + (IF eob THEN multi + 1 ELSE multi) * Tps
  /\ out' = {}
  /\ UNCHANGED <<now, kind, judged, ring, win, promised, aired, spoilt, flushes>>

\* the stamp extended to the 64-bit value nearest to now
Extend(stamp) ==
  LET s == (now \div Wrap) * Wrap + (stamp % Wrap)
  IN  IF s > now /\ s - now > Wrap \div 2 THEN s - Wrap
      ELSE IF now > s /\ now - s > Wrap \div 2 THEN s + Wrap
      ELSE s

Lead(p) == Extend(p.stamp) - now

VerdictHasty(p) ==
  CASE Lead(p) <= 0 -> "late"
    [] Lead(p) > MaxLead + Far -> "wild"
    [] Lead(p) > MaxLead /\ Lead(p) <= MaxLead + Far -> "early"
    [] OTHER -> "good"

VerdictNoWait(p) ==
  CASE Lead(p) < MinLead -> "late"
    [] Lead(p) > MaxLead + Far -> "wild"
    [] OTHER -> "good"

\* the judge of rfnm_handler_out; an early packet waits
Verdict(p) ==
  CASE Lead(p) < MinLead -> "late"
    [] Lead(p) > MaxLead + Far -> "wild"
    [] Lead(p) > MaxLead /\ Lead(p) <= MaxLead + Far -> "early"
    [] OTHER -> "good"

\* Where a stamp falls in the ring
Off(p) == (p.stamp - T0) % Wrap
BaseSlot(p) == (Off(p) \div Tps) % N
Pad(p) == Off(p) % Tps
Slot(x) == x \div Tps

Ready == queue # <<>> /\ judged = -1
Take == queue' = Tail(queue) /\ judged' = -1

Reject ==
  /\ Ready /\ Verdict(Head(queue)) \in {"late", "wild"}
  /\ Take /\ out' = {}
  /\ UNCHANGED <<now, kind, sent, feed, ring, win, promised, aired, spoilt, flushes>>

Accept ==
  /\ Ready /\ Verdict(Head(queue)) = "good"
  /\ judged' = now /\ out' = {}
  /\ UNCHANGED <<now, kind, sent, feed, queue, ring, win, promised, aired, spoilt, flushes>>

-----------------------------------------------------------------------------
(***************************************************************************)
(* Placement.  A timed packet may start inside a slot: the rest of its     *)
(* first and of its last slot is filled with silence.                      *)
(***************************************************************************)
Span(p) == (Pad(p) + p.multi * Tps + Tps - 1) \div Tps
Content(p) == p.stamp .. (p.stamp + p.multi * Tps - 1)

Written(p) ==
  [x \in DOMAIN ring |->
     LET w == (Slot(x) - BaseSlot(p)) % N
         i == w * Tps + (x % Tps) - Pad(p)
     IN  IF w >= Span(p) THEN ring[x]
         ELSE IF i \in 0..(p.multi * Tps - 1) THEN p.stamp + i
         ELSE Silence]

\* the silent slot behind a window
Padded(r, slot) == [x \in DOMAIN r |-> IF Slot(x) = slot THEN Silence ELSE r[x]]

\* rfnm_tx_win after an aligned packet
Grown(w, p) ==
  LET o == IF w.active THEN w
           ELSE [NoWin EXCEPT !.active = TRUE, !.open = p.stamp, !.first = BaseSlot(p), !.next = BaseSlot(p)]
  IN  [o EXCEPT !.next = (@ + p.multi) % N, !.slots = @ + p.multi,
                !.jump = p.stamp - (o.open + o.slots * Tps)]

\* left open by an earlier session, or until its end was fetched
Leftover(w) == w.active /\ (w.old \/ w.open + w.slots * Tps <= now + Ahead)

BreaksRagged(p) == win.active /\ Pad(p) # 0

\* the packet does not go on where the window ends
Breaks(p) == win.active /\ (Pad(p) # 0 \/ BaseSlot(p) # win.next)

Overwritten(t) == t > now + Ahead /\ ring'[(t - T0) % Lap] # t

PlaceTimed ==
  /\ judged # -1 /\ kind = "timed" /\ Take
  /\ LET p == Head(queue)
         breaks == Windowed /\ Breaks(p)
         kept == IF breaks THEN NoWin ELSE win
         grown == IF Windowed /\ Pad(p) = 0 THEN Grown(kept, p) ELSE kept
         ends == grown.active /\ p.eob /\ Pad(p) = 0
         afterBreak == IF breaks THEN Padded(Written(p), win.next) ELSE Written(p)
     IN  /\ ring' = IF ends THEN Padded(afterBreak, grown.next) ELSE afterBreak
         /\ win' = IF ends THEN NoWin ELSE grown
         /\ out' = (IF breaks THEN {win} ELSE {}) \cup (IF ends THEN {grown} ELSE {})
         /\ promised' = promised \cup Content(p)
         /\ spoilt' = IF Pad(p) # 0 \/ Leftover(win) THEN spoilt \cup {t \in promised' : Overwritten(t)} ELSE spoilt
  /\ UNCHANGED <<now, kind, sent, feed, aired, flushes>>

PlacePos ==
  /\ judged # -1 /\ kind = "pos" /\ Take
  /\ LET p == Head(queue)
     IN  /\ Pad(p) = 0
         /\ ring' = Written(p) /\ promised' = promised \cup Content(p)
  /\ out' = {}
  /\ UNCHANGED <<now, kind, sent, feed, win, aired, spoilt, flushes>>

\* off the slot grid, a TDD pattern owns the drain, or no stamp at all
Refuse ==
  /\ judged # -1 /\ kind # "timed" /\ Take /\ out' = {}
  /\ UNCHANGED <<now, kind, sent, feed, ring, win, promised, aired, spoilt, flushes>>

-----------------------------------------------------------------------------
\* The firmware fetches on.  The consumer, a real-time thread on a core of its
\* own, places a packet within the margin of the minimum lead.
Tick ==
  /\ now < Start + TimeMax
  /\ judged # -1 => now + 1 - judged < MinLead - Ahead
  /\ now' = now + 1 /\ out' = {}
  /\ aired' = aired \cup ({now + 1 + Ahead} \cap {ring[(now + 1 + Ahead - T0) % Lap]})
  /\ UNCHANGED <<kind, sent, feed, queue, judged, ring, win, promised, spoilt, flushes>>

\* rfnm_tx_flush_staging, between two packets: the queue goes, the ring is
\* silenced when the stream stops, rfnm_tx_win stays; another client follows
Flush(scrub, k) ==
  /\ flushes < FlushCap /\ judged = -1 /\ flushes' = flushes + 1
  /\ queue' = <<>> /\ kind' = k /\ feed' = now + MinLead
  /\ ring' = IF scrub THEN [x \in DOMAIN ring |-> Silence] ELSE ring
  /\ promised' = {} /\ aired' = {} /\ spoilt' = {}
  /\ win' = [win EXCEPT !.old = win.active]
  /\ out' = {}
  /\ UNCHANGED <<now, sent, judged>>

ANext ==
  \/ \E gap \in Gap, multi \in Multi, eob \in BOOLEAN : Send(gap, multi, eob)
  \/ Reject \/ Accept \/ PlaceTimed \/ PlacePos \/ Refuse
  \/ Tick
  \/ \E scrub \in BOOLEAN, k \in Kind : Flush(scrub, k)

ASpec == AInit /\ [][ANext]_avars

-----------------------------------------------------------------------------
\* Every variable has its type; slots are masked to the ring.
ATypeOK ==
  /\ now \in Start..(Start + TimeMax) /\ kind \in Kind /\ sent \in 0..PktMax /\ feed \in Nat
  /\ queue \in Seq([stamp : Nat, multi : Multi, eob : BOOLEAN])
  /\ judged \in {-1} \cup Nat /\ (judged # -1 => queue # <<>>)
  /\ ring \in [0..(Lap - 1) -> {Silence} \cup Nat]
  /\ win \in [active : BOOLEAN, open : Nat, first : 0..(N - 1), next : 0..(N - 1), slots : Nat, jump : Nat, old : BOOLEAN]
  /\ promised \subseteq Nat /\ aired \subseteq Nat /\ spoilt \subseteq Nat /\ flushes \in 0..FlushCap

\* Every sample counted as placed (rfnm_tx_stat_timed_placed, rfnm_tx_stat_pos_placed)
\* is in the ring when the firmware fetches its tick: it was written in time, and
\* no pad, window end or later packet overwrites it, unless a packet begins inside
\* a slot or a window was left open past its end.
PlacedAirs == \A t \in promised \ spoilt : t \in aired \/ (t > now + Ahead /\ ring[(t - T0) % Lap] = t)

\* Nothing airs early or misplaced ("EARLY IS NOT AN ERROR - the packet waits"): a
\* sample lies where its tick falls, and is due at the next fetch of that place or
\* was due already.
NeverEarly == \A x \in DOMAIN ring : ring[x] # Silence => (ring[x] - T0) % Lap = x /\ ring[x] <= now + Ahead + Lap

\* A window handed to the sink holds, from its opening tick on, the samples of
\* consecutive ticks and a silent slot behind them, as far as they are still to
\* be fetched; unless it was left open over a flush or over a silence of laps.
WindowTruth ==
  \A w \in out : ~w.old /\ ~(w.jump > 0 /\ w.jump % Lap = 0) =>
    LET end == w.open + w.slots * Tps
    IN  \A t \in (w.open .. (end + Tps - 1)) \ spoilt :
          t > now + Ahead => ring[(t - T0) % Lap] = IF t < end THEN t ELSE Silence
=============================================================================
