----------------------------- MODULE RxUsbLane -----------------------------
(***************************************************************************)
(* The USB side of the RX producer (rfnm_handler_in of la9310_rfnm.c): it  *)
(* takes the sub-buffers of the LA9310's ring, assembles a packet per ADC  *)
(* lane in a slot of the USB ring, and hands finished packets, stamped and *)
(* numbered, to gadget requests.  The USB worker arms them, the host reads *)
(* them endpoint by endpoint.                                              *)
(*                                                                         *)
(* A sub-buffer is one unit of time: stamp n is the n-th sub-buffer of its *)
(* lane.  The producer is the only writer of the ring, so one sub-buffer   *)
(* is one step.  Requests cannot be lost here; UsbInPool is about that.    *)
(***************************************************************************)
EXTENDS Integers, FiniteSets, Sequences, SequencesExt

CONSTANTS
  Lane,       \* ADC lanes
  Ep,         \* IN endpoints; each has PerEp requests
  PerEp,
  NoPkt,
  RingSize,   \* RFNM_RX_USB_BUF_SIZE (80)
  PktSubs,    \* sub-buffers in a full packet
  Cap,        \* RFNM_USB_INFLIGHT_CAP
  StaleCap,   \* RFNM_USB_INFLIGHT_STALE_CAP
  LaSize,     \* RFNM_ADC_BUFCNT, the slots of the LA ring
  Behind,     \* backlog that makes the producer jump (RFNM_ADC_BUFCNT / 4)
  Skips,      \* bound: by how many stamps a new epoch may begin later
  StampMax,   \* bound: stamps of a lane
  EpochMax,   \* bound: stream epochs
  FailMax,    \* bound: transient failures of usb_ep_queue
  ResetMax    \* bound: stream resets

ASSUME RingAssumption ==
  /\ RingSize \in Nat /\ Lane # {} /\ RingSize > Cardinality(Lane)
  /\ IsFiniteSet(Ep) /\ LaSize \in Nat /\ Skips \subseteq Nat
  /\ {PktSubs, PerEp} \subseteq Nat \ {0} /\ FailMax \in Nat /\ NoPkt \notin Lane
  /\ NoPkt \notin [cc : Nat, pt : Nat, elems : Nat, epoch : Nat, flag : BOOLEAN]

VARIABLES
  fw,      \* per lane: stamp of the firmware's next sub-buffer
  epoch,   \* the firmware's stream epoch
  la,      \* the LA ring between tail and head, one sub-buffer per slot
  lap,     \* the LA ring below head: slots 0..head-1, written since head was 0
  todo,    \* sub-buffers the producer's pass still has to process; Stopped after a stop
  mem,     \* rfnm_rx_usb_buf: the slots of the USB ring
  head,    \* rx_usb_cb.head
  slot,    \* rx_usb_cb.adc_buf
  subs,    \* per lane: stamp and epoch of the sub-buffers in the packet being assembled
  cc,      \* rx_usb_cb.usb_cc
  jump,    \* rfnm_rx_jump_discont_usb
  down,    \* rfnm_rx_standdown_active
  pool,    \* free requests, by endpoint
  staged,  \* rfnm_usb_req_buffer_in_usb
  flying,  \* rfnm_usb_req_inflight_in
  fails,   \* transient failures so far
  alive, grace,  \* rfnm_usb_rx_consumer_alive(), rfnm_usb_rx_head_grace()
  last,    \* per lane: header of the last packet shipped (rfnm_rx_seam_*)
  anew,    \* history: lanes that shipped nothing since the last stream reset
  resets   \* stream resets so far

hostvars == <<alive, grace, fails>>
histvars == <<last, anew, resets>>
vars == <<fw, epoch, la, lap, todo, mem, head, slot, subs, cc, jump, down, pool, staged, flying,
          hostvars, histvars>>

Stopped == -1

Slots == 0..(RingSize - 1)
Blank == [lane |-> NoPkt, pt |-> 0, epoch |-> 0, flag |-> FALSE, cc |-> 0, elems |-> 0,
          body |-> [i \in 1..PktSubs |-> NoPkt]]

\* the header a packet carries
Header(p) == [cc |-> p.cc, pt |-> p.pt, elems |-> p.elems, epoch |-> p.epoch, flag |-> p.flag]

Init ==
  /\ fw = [l \in Lane |-> 1] /\ epoch = 0 /\ la = <<>> /\ lap = <<>> /\ todo = 0
  /\ mem = [s \in Slots |-> Blank]
  /\ head = 0 /\ slot = [l \in Lane |-> 0]
  /\ subs = [l \in Lane |-> <<>>]
  /\ cc = [l \in Lane |-> 0] /\ jump = [l \in Lane |-> FALSE] /\ down = FALSE
  /\ pool = [i \in 1..(PerEp * Cardinality(Ep)) |-> SetToSeq(Ep)[((i - 1) % Cardinality(Ep)) + 1]]
  /\ staged = <<>> /\ flying = <<>> /\ fails = 0
  /\ alive \in BOOLEAN /\ grace = ~alive
  /\ last = [l \in Lane |-> NoPkt] /\ anew = {} /\ resets = 0

-----------------------------------------------------------------------------
(***************************************************************************)
(* The firmware: consecutive sub-buffers; a gap it declares with its own   *)
(* DISCONT bit; a new epoch, at which the stamps restart anywhere.  It     *)
(* writes round its ring whoever reads: that the producer comes by before  *)
(* it is lapped is assumed of the scheduling (SCHED_FIFO, a quarter ring). *)
(***************************************************************************)
NextSub(l, gap) == [lane |-> l, pt |-> fw[l] + gap, discont |-> gap > 0, epoch |-> epoch]

Produce(l, gap) ==
  /\ Len(la) < LaSize - 1 /\ fw[l] + gap <= StampMax
  /\ la' = Append(la, NextSub(l, gap))
  /\ lap' = IF Len(lap) + 1 = LaSize THEN <<>> ELSE Append(lap, NextSub(l, gap))
  /\ fw' = [fw EXCEPT ![l] = @ + gap + 1]
  /\ UNCHANGED <<epoch, todo, mem, head, slot, subs, cc, jump, down, pool, staged, flying, hostvars, histvars>>

\* a stream command: a new epoch, whose stamps start somewhere else
NewEpoch ==
  /\ epoch < EpochMax /\ epoch' = epoch + 1
  /\ \E gap \in Skips : fw' = [l \in Lane |-> fw[l] + gap]
  /\ UNCHANGED <<la, lap, todo, mem, head, slot, subs, cc, jump, down, pool, staged, flying, hostvars, histvars>>

(***************************************************************************)
(* Shipping: gate, request, number, hand over; the lane moves to the slot  *)
(* at head.  A packet that finds no request is dropped: its slot is filled *)
(* again and the lane owes its client a DISCONT.                           *)
(***************************************************************************)
StageGated ==
  Len(flying) >= Cap \/ (~alive /\ ~grace /\ Len(flying) >= StaleCap)
Starved == Len(flying) >= Cap \/ (Len(flying) > 0 /\ pool = <<>>)
CanShip == ~StageGated /\ pool # <<>>

\* the packet in lane l's slot as it is numbered and handed over
Shipped(l) == [mem[slot[l]] EXCEPT !.cc = cc[l] + 1, !.elems = Len(subs[l])]

Ship(l) ==
  /\ cc' = [cc EXCEPT ![l] = @ + 1]
  /\ pool' = Tail(pool)
  /\ staged' = Append(staged, [ep |-> Head(pool), slot |-> slot[l], pkt |-> Shipped(l), subs |-> subs[l],
                              over |-> 0])
  /\ slot' = [slot EXCEPT ![l] = head]
  /\ head' = (head + 1) % RingSize
  /\ last' = [last EXCEPT ![l] = Header(Shipped(l))] /\ anew' = anew \ {l}

\* mutant: a dropped packet burns a slot of the ring
DropAdvances(l) ==
  /\ slot' = [slot EXCEPT ![l] = head] /\ head' = (head + 1) % RingSize
  /\ UNCHANGED <<cc, pool, staged, last, anew>>

Drop(l) == UNCHANGED <<cc, pool, staged, slot, head, last, anew>>

(***************************************************************************)
(* A pass of rfnm_handler_in.  One slot of the LA ring is left to its      *)
(* writer; a pass that finds too long a backlog skips it and marks every   *)
(* lane, otherwise it processes what it saw, and flushes at its end.       *)
(***************************************************************************)
Readable == Len(la) - 1

PassBegin ==
  /\ todo = 0 /\ ~down /\ Readable \in 1..Behind
  /\ todo' = Readable
  /\ UNCHANGED <<fw, epoch, la, lap, mem, head, slot, subs, cc, jump, down, pool, staged, flying, hostvars, histvars>>

\* mutant: the backlog is skipped and no lane is marked
JumpForwardSilent ==
  /\ todo = 0 /\ ~down /\ Readable > Behind
  /\ la' = <<>>
  /\ UNCHANGED <<fw, epoch, lap, todo, mem, head, slot, subs, cc, jump, down, pool, staged, flying, hostvars, histvars>>

JumpForward ==
  /\ todo = 0 /\ ~down /\ Readable > Behind
  /\ la' = <<>> /\ jump' = [l \in Lane |-> TRUE]
  /\ UNCHANGED <<fw, epoch, lap, todo, mem, head, slot, subs, cc, down, pool, staged, flying, hostvars, histvars>>

(***************************************************************************)
(* One sub-buffer.  A full packet, or one that the sub-buffer does not     *)
(* continue, leaves first.  The payload copy is left out when nobody       *)
(* reads; a packet's header is written at its birth and takes the lane's   *)
(* pending DISCONT with it.                                                *)
(***************************************************************************)
\* mutant: an epoch flip does not force the packet out
SeamFlushDiscont(sub) == subs[sub.lane] # <<>> /\ sub.discont

SeamFlush(sub) ==
  subs[sub.lane] # <<>> /\ (sub.discont \/ sub.epoch # mem[slot[sub.lane]].epoch)

Birth(slotPkt, sub, flagged) ==
  [slotPkt EXCEPT !.lane = sub.lane, !.pt = sub.pt, !.epoch = sub.epoch, !.flag = flagged]

Process ==
  /\ todo > 0
  /\ LET sub  == Head(la)
         l    == sub.lane
         out  == Len(subs[l]) + 1 > PktSubs \/ SeamFlush(sub)
         ship == out /\ CanShip
         have == IF out THEN <<>> ELSE subs[l]
         left == IF ship THEN [mem EXCEPT ![slot[l]] = Shipped(l)] ELSE mem
         at   == IF ship THEN head ELSE slot[l]
         copy == IF alive \/ grace
                 THEN [left[at] EXCEPT !.body[Len(have) + 1] = <<l, sub.pt>>]
                 ELSE left[at]
         flagged == sub.discont \/ jump[l] \/ (out /\ ~ship)
     IN /\ IF ship THEN Ship(l) ELSE Drop(l)
        /\ subs' = [subs EXCEPT ![l] = Append(have, [pt |-> sub.pt, epoch |-> sub.epoch])]
        /\ mem' = [left EXCEPT ![at] = IF have = <<>> THEN Birth(copy, sub, flagged) ELSE copy]
        /\ jump' = IF have = <<>> THEN [jump EXCEPT ![l] = FALSE] ELSE jump
  /\ la' = Tail(la) /\ todo' = todo - 1
  /\ UNCHANGED <<fw, epoch, lap, down, flying, hostvars, resets>>

\* the stop flag, obeyed between two sub-buffers: the pass goes to its flush and
\* the thread ends, so that its cursor is not stored
Halt ==
  /\ todo > 0 /\ resets < ResetMax /\ todo' = Stopped
  /\ UNCHANGED <<fw, epoch, la, lap, mem, head, slot, subs, cc, jump, down, pool, staged, flying, hostvars, histvars>>

\* rfnm_rx_flush_partial_usb, at the end of a pass: an aged packet leaves
\* unless the pipeline is starved or gated; otherwise it stays in its slot
FlushPartial(l) ==
  /\ todo <= 0 /\ subs[l] # <<>> /\ ~Starved /\ CanShip
  /\ Ship(l)
  /\ mem' = [mem EXCEPT ![slot[l]] = Shipped(l)]
  /\ subs' = [subs EXCEPT ![l] = <<>>]
  /\ UNCHANGED <<fw, epoch, la, lap, todo, jump, down, flying, hostvars, resets>>

(***************************************************************************)
(* No transport shows life (for the others than USB: a choice): the        *)
(* backlog is skipped unseen, partial packets are dropped, lanes marked.   *)
(***************************************************************************)
StandDown ==
  /\ todo = 0 /\ ~alive /\ ~down
  /\ down' = TRUE /\ la' = <<>>
  /\ jump' = [l \in Lane |-> TRUE] /\ subs' = [l \in Lane |-> <<>>]
  /\ UNCHANGED <<fw, epoch, lap, todo, mem, head, slot, cc, pool, staged, flying, hostvars, histvars>>

StandDownPass ==
  /\ todo = 0 /\ down /\ ~alive /\ la # <<>>
  /\ la' = <<>>
  /\ UNCHANGED <<fw, epoch, lap, todo, mem, head, slot, subs, cc, jump, down, pool, staged, flying, hostvars, histvars>>

Resume ==
  /\ todo = 0 /\ down /\ down' = FALSE
  /\ UNCHANGED <<fw, epoch, la, lap, todo, mem, head, slot, subs, cc, jump, pool, staged, flying, hostvars, histvars>>

-----------------------------------------------------------------------------
\* e when a packet shipped after it leaves before it
Passed(e) == [e EXCEPT !.over = @ + 1]

(***************************************************************************)
(* The USB worker arms the first staged packet, or fails to: the packet is *)
(* lost and its request goes back to the pool.                             *)
(***************************************************************************)
Arm ==
  /\ staged # <<>>
  /\ flying' = Append(flying, Head(staged)) /\ staged' = Tail(staged)
  /\ UNCHANGED <<fw, epoch, la, lap, todo, mem, head, slot, subs, cc, jump, down, pool, hostvars, histvars>>

ArmFail ==
  /\ staged # <<>> /\ fails < FailMax
  /\ pool' = Append(pool, Head(staged).ep) /\ staged' = Tail(staged) /\ fails' = fails + 1
  /\ flying' = [i \in DOMAIN flying |-> Passed(flying[i])]
  /\ UNCHANGED <<fw, epoch, la, lap, todo, mem, head, slot, subs, cc, jump, down, alive, grace, histvars>>

(***************************************************************************)
(* An endpoint completes its transfers in order, the endpoints advance     *)
(* independently.  A read proves a live consumer; a transfer that the      *)
(* driver dequeues (always the oldest) only recycles its request.          *)
(***************************************************************************)
FirstOfEp(i) == \A j \in 1..(i - 1) : flying[j].ep # flying[i].ep

Deliver(i) ==
  /\ FirstOfEp(i)
  /\ pool' = Append(pool, flying[i].ep)
  /\ flying' = RemoveAt([j \in DOMAIN flying |-> IF j < i THEN Passed(flying[j]) ELSE flying[j]], i)
  /\ alive' = TRUE /\ grace' = FALSE
  /\ UNCHANGED <<fw, epoch, la, lap, todo, mem, head, slot, subs, cc, jump, down, staged, fails, histvars>>

Cancel ==
  /\ flying # <<>>
  /\ pool' = Append(pool, Head(flying).ep) /\ flying' = Tail(flying)
  /\ UNCHANGED <<fw, epoch, la, lap, todo, mem, head, slot, subs, cc, jump, down, staged, hostvars, histvars>>

ConsumerStale ==
  /\ alive /\ alive' = FALSE
  /\ UNCHANGED <<fw, epoch, la, lap, todo, mem, head, slot, subs, cc, jump, down, pool, staged, flying, grace, fails, histvars>>

GraceExpires ==
  /\ grace /\ grace' = FALSE
  /\ UNCHANGED <<fw, epoch, la, lap, todo, mem, head, slot, subs, cc, jump, down, pool, staged, flying, alive, fails, histvars>>

(***************************************************************************)
(* rfnm_reset_stream_io_state, workers stopped: in-flight transfers are    *)
(* dequeued, staged packets recycled unsent, cursors cleared; the packet   *)
(* numbers and the pending DISCONT marks are kept.  The firmware is not    *)
(* asked: the producer's cursor goes to slot 0 of the LA ring, so that the *)
(* next pass finds whatever was written since head was last there, whether *)
(* it was read before or not (the "stale-prefix drain"); no mark says so.  *)
(***************************************************************************)
Reset ==
  /\ todo \in {0, Stopped} /\ resets < ResetMax
  /\ la' = lap /\ todo' = 0
  /\ pool' = pool \o [i \in DOMAIN flying |-> flying[i].ep] \o [i \in DOMAIN staged |-> staged[i].ep]
  /\ flying' = <<>> /\ staged' = <<>>
  /\ head' = 0 /\ slot' = [l \in Lane |-> 0] /\ subs' = [l \in Lane |-> <<>>]
  /\ grace' = TRUE
  /\ anew' = Lane /\ resets' = resets + 1
  /\ UNCHANGED <<fw, epoch, lap, mem, cc, jump, down, alive, fails, last>>

-----------------------------------------------------------------------------
Producer ==
  \/ PassBegin \/ JumpForward \/ Process \/ Halt \/ (\E l \in Lane : FlushPartial(l))
  \/ StandDown \/ StandDownPass \/ Resume

Transport ==
  \/ Arm \/ ArmFail
  \/ (\E i \in DOMAIN flying : Deliver(i)) \/ Cancel
  \/ ConsumerStale \/ GraceExpires

Next ==
  \/ \E l \in Lane, gap \in 0..1 : Produce(l, gap)
  \/ NewEpoch \/ Producer \/ Transport \/ Reset

Spec == Init /\ [][Next]_vars

-----------------------------------------------------------------------------
Outstanding == ToSet(staged) \cup ToSet(flying)

\* Every variable keeps its type; a request is free, staged or in flight.
TypeOK ==
  /\ head \in Slots /\ slot \in [Lane -> Slots] /\ DOMAIN mem = Slots
  /\ todo \in Stopped..Behind /\ todo <= Len(la) /\ Len(lap) < LaSize /\ anew \subseteq Lane
  /\ \A l \in Lane : Len(subs[l]) <= PktSubs
  /\ jump \in [Lane -> BOOLEAN] /\ cc \in [Lane -> Nat]
  /\ {down, alive, grace} \subseteq BOOLEAN
  /\ Len(pool) + Len(staged) + Len(flying) = PerEp * Cardinality(Ep)

\* What the lane ships is a flagged stream: numbers without holes, and every
\* gap in the stamps announced by the packet behind it ("with ship-time cc the
\* client sees a flagged stamp jump, never an unflagged cc hole").  The numbers
\* run on over a reset; the lane's first packet after one may hold what the LA
\* ring held before it, and says nothing of the step.
FS == INSTANCE FlaggedStream
Flagged == FS!Spec

\* The same without that exception, for the configuration that refutes it.
Strict == INSTANCE FlaggedStream WITH anew <- {}
AlwaysFlagged == Strict!Spec

(***************************************************************************)
(* The reset leaves the lane and head on slot 0, so the lane's first       *)
(* hand-over gives it back the slot it has just shipped: the packet being  *)
(* assembled, or handed over behind it, is in the slot of its predecessor. *)
(***************************************************************************)
SharesSlotZero(e) == e.slot = 0 /\ mem[0].cc \in {e.pkt.cc, e.pkt.cc + 1}

Requests == PerEp * Cardinality(Ep)

\* A packet that a request still owns is not rewritten: the slot holds what was
\* shipped until the transfer ends (the code's inflight_overwrite tripwire).
\* Four endpoints complete in no common order, so a transfer the host does not
\* read keeps its slot while later ones come and go: the ring has room for
\* RingSize - Requests - 1 (15) of them to overtake it, and no check for more.
\* The first packet after a reset is the other exception.
Intact ==
  \A e \in Outstanding :
    e.over + Requests < RingSize => mem[e.slot] = e.pkt \/ SharesSlotZero(e)

\* The same of a packet that any number has overtaken, for the configuration
\* that refutes it.
AlwaysIntact == \A e \in Outstanding : mem[e.slot] = e.pkt \/ SharesSlotZero(e)

\* A packet under way to the host has a number of its own in the lane that its
\* header names: no torn packets, no "duplicate ccs".  The reset puts every lane
\* on slot 0: with two lanes streaming, the second one to start a packet writes
\* its header over the first one's.
OwnNumber ==
  \A e, f \in Outstanding : e # f => e.pkt.lane # f.pkt.lane \/ e.pkt.cc # f.pkt.cc

\* "a packet must never contain a stamp discontinuity or epoch flip inside its
\* payload": the client computes every sample's time from the packet's stamp.
\* A packet kept over the catch-up jump is the exception: it ships with the gap
\* inside, and the lane's mark is still pending, for the packet behind it.
NoBuriedSeam ==
  [][\A l \in Lane : last'[l] # last[l] =>
       LET e == Last(staged')
       IN \A i \in DOMAIN e.subs :
            /\ e.subs[i].epoch = e.pkt.epoch
            /\ jump[l] \/ e.subs[i].pt = e.subs[1].pt + i - 1]_vars
=============================================================================
