------------------------------- MODULE TxPool -------------------------------
(***************************************************************************)
(* The transmit pool of la9310_rfnm.c.  Packets of the client arrive in    *)
(* USB OUT requests, which the USB worker empties, or are written straight *)
(* into a buffer of the pool by the ethernet worker or by a local client   *)
(* (claim, fill, commit or abort).  Filled buffers wait in a pending list  *)
(* sorted by packet number; the consumer rfnm_handler_out looks at the     *)
(* first, uses it and returns it to the free list.  A stream start, a new  *)
(* connection and the last close flush what is staged, beside all of them. *)
(*                                                                         *)
(* A critical section is one step.  What the consumer does to the samples  *)
(* of a packet is in TxAir.                                                *)
(***************************************************************************)
EXTENDS Integers, Sequences, FiniteSets, SequencesExt

CONSTANTS
  Buf, NoBuf,  \* buffers (rfnm_local_buf_tx), and none
  Direct,      \* writers that fill a buffer in place: ethernet, local client
  ReqN,        \* USB OUT requests
  CcMax,       \* bound: packets a client numbers in a session
  FlushMax     \* bound: flushes

ASSUME TxPoolAssumption ==
  /\ IsFiniteSet(Buf) /\ NoBuf \notin Buf /\ "usb" \notin Direct
  /\ ReqN \in Nat /\ CcMax \in Nat /\ FlushMax \in Nat

Writer == {"usb"} \cup Direct
Packet == [cc : 1..CcMax, session : 0..FlushMax]
NoNode == <<NoBuf, NoBuf>>
Garbage == [cc |-> 0, session |-> 0]

VARIABLES
  session,  \* how many flushes there were: what the client's packets belong to
  used,     \* packet numbers the client has used in this session
  wire,     \* OUT requests waiting for a packet in the controller
  done,     \* rfnm_usb_req_buffer_out: completed requests, by their packet
  wpc, wpkt, wbuf,  \* per writer: where it is, its packet, its buffer
  asleep,   \* direct writers waiting on local_tx_poll
  free,     \* rfnm_local_buffer_out_user
  pending,  \* rfnm_local_buffer_out: buffers with the packet in them
  cpc, held, copy,  \* consumer: where it is, its buffer, its copied neighbours
  fpc,      \* the flush
  silent,   \* free became non-empty without a wake-up
  stale,    \* a buffer was inserted next to the one whose pointers are copied
  caught    \* a flush met a thread in the middle of an element

client == <<session, used>>
usb == <<wire, done>>
writers == <<wpc, wpkt, wbuf>>
pool == <<free, pending>>
consumer == <<cpc, held, copy>>
history == <<silent, stale, caught>>
vars == <<client, usb, writers, asleep, pool, consumer, fpc, history>>

Init ==
  /\ session = 0 /\ used = {} /\ wire = ReqN /\ done = <<>>
  /\ wpc = [w \in Writer |-> "idle"]
  /\ wpkt = [w \in Writer |-> Garbage] /\ wbuf = [w \in Writer |-> NoBuf]
  /\ asleep = {}
  /\ free = Buf /\ pending = <<>>
  /\ cpc = "idle" /\ held = NoBuf /\ copy = NoNode
  /\ fpc = "idle"
  /\ silent = FALSE /\ stale = FALSE /\ caught = FALSE

Waiting == {pending[i].buf : i \in DOMAIN pending}
Index(b) == CHOOSE i \in DOMAIN pending : pending[i].buf = b
NodeAt(i) == IF i \in DOMAIN pending THEN pending[i].buf ELSE NoBuf

At(w, here, there) == wpc[w] = here /\ wpc' = [wpc EXCEPT ![w] = there]

-----------------------------------------------------------------------------
(***************************************************************************)
(* USB OUT requests.  The client's threads may pass each other: any unused *)
(* number can be the next to arrive.                                       *)
(***************************************************************************)
NewPacket(n) == [cc |-> n, session |-> session]

\* rfnm_submit_usb_req_out, status 0
CompleteOk(n) ==
  /\ wire > 0 /\ n \notin used
  /\ wire' = wire - 1 /\ used' = used \cup {n}
  /\ done' = Append(done, NewPacket(n))
  /\ UNCHANGED <<session, writers, asleep, pool, consumer, fpc, history>>

\* a cancelled, short or failed transfer is queued too, and found out by its length
CompleteBad ==
  /\ wire > 0 /\ wire' = wire - 1 /\ done' = Append(done, Garbage)
  /\ UNCHANGED <<client, writers, asleep, pool, consumer, fpc, history>>

\* -ESHUTDOWN: the request is freed
CompleteDead ==
  /\ wire > 0 /\ wire' = wire - 1
  /\ UNCHANGED <<client, done, writers, asleep, pool, consumer, fpc, history>>

\* rfnm_usb_buffer_done_out: the request leaves the list and goes back to the
\* controller; when that fails it is in no list any more
DoneOut == done' = Tail(done) /\ wire' \in {wire, wire + 1}

(***************************************************************************)
(* rfnm_handler_usb, ingest: look at the first request, put it back on the *)
(* wire with a spare buffer, then copy the packet into the pool.           *)
(***************************************************************************)
IngestPeek ==
  /\ At("usb", "idle", "seen") /\ done # <<>>
  /\ wpkt' = [wpkt EXCEPT !["usb"] = Head(done)]
  /\ UNCHANGED <<client, usb, wbuf, asleep, pool, consumer, fpc, history>>

IngestDetach ==
  /\ At("usb", "seen", IF wpkt["usb"] = Garbage THEN "idle" ELSE "claim")
  /\ DoneOut
  /\ caught' = (fpc = "take")
  /\ UNCHANGED <<client, wpkt, wbuf, asleep, pool, consumer, fpc, silent, stale>>

\* rfnm_queue_local_buffer_tx keeps failing: the packet is dropped
IngestDrop ==
  /\ At("usb", "claim", "idle") /\ free = {}
  /\ wpkt' = [wpkt EXCEPT !["usb"] = Garbage]
  /\ UNCHANGED <<client, usb, wbuf, asleep, pool, consumer, fpc, history>>

\* rfnm_queue_local_buffer_tx and rfnm_claim_local_buffer_tx: a buffer leaves the
\* free list
TakeFree(w, b) ==
  /\ b \in free /\ free' = free \ {b}
  /\ wbuf' = [wbuf EXCEPT ![w] = b]

ClaimUsb(b) ==
  /\ At("usb", "claim", "fill") /\ TakeFree("usb", b)
  /\ UNCHANGED <<client, usb, wpkt, asleep, pending, consumer, fpc, history>>

\* the ethernet worker's next frame, and the local client's TX_ACQ
ClaimDirect(w, b, n) ==
  /\ At(w, "idle", "fill") /\ w \notin asleep /\ n \notin used
  /\ TakeFree(w, b)
  /\ used' = used \cup {n} /\ wpkt' = [wpkt EXCEPT ![w] = NewPacket(n)]
  /\ UNCHANGED <<session, usb, asleep, pending, consumer, fpc, history>>

\* rfnm_dev_poll: registered before the list is looked at, so this is one step
Poll(w) ==
  /\ wpc[w] = "idle" /\ free = {}
  /\ asleep' = asleep \cup {w}
  /\ UNCHANGED <<client, usb, writers, pool, consumer, fpc, history>>

SortedPosTail(p) == Len(pending) + 1

\* rfnm_local_tx_insert_sorted: behind the last one whose number is not larger
SortedPos(p) ==
  LET notLarger == {i \in DOMAIN pending : pending[i].packet.cc <= p.cc}
  IN  IF notLarger = {} THEN 1 ELSE Max(notLarger) + 1

Commit(w) ==
  /\ At(w, "fill", "idle")
  /\ wpkt' = [wpkt EXCEPT ![w] = Garbage] /\ wbuf' = [wbuf EXCEPT ![w] = NoBuf]
  /\ LET pos == SortedPos(wpkt[w])
     IN  /\ pending' = InsertAt(pending, pos, [buf |-> wbuf[w], packet |-> wpkt[w]])
         /\ stale' = (stale \/ (cpc = "retire" /\ pos \in Index(held)..(Index(held) + 1)))
  /\ UNCHANGED <<client, usb, asleep, free, consumer, fpc, silent, caught>>

AbortForgets(w) ==
  /\ At(w, "fill", "idle")
  /\ wpkt' = [wpkt EXCEPT ![w] = Garbage] /\ wbuf' = [wbuf EXCEPT ![w] = NoBuf]
  /\ UNCHANGED <<client, usb, asleep, pool, consumer, fpc, history>>

\* rfnm_abort_local_buffer_tx: the connection or the client is gone
Abort(w) ==
  /\ At(w, "fill", "idle")
  /\ wpkt' = [wpkt EXCEPT ![w] = Garbage] /\ wbuf' = [wbuf EXCEPT ![w] = NoBuf]
  /\ free' = free \cup {wbuf[w]}
  /\ silent' = (silent \/ free = {})
  /\ UNCHANGED <<client, usb, asleep, pending, consumer, fpc, stale, caught>>

-----------------------------------------------------------------------------
(***************************************************************************)
(* rfnm_handler_out.  The first buffer is looked at and stays in the list  *)
(* while it is judged and placed; its list node is copied, and the copy is *)
(* unlinked under the lock.                                                *)
(***************************************************************************)
Peek ==
  /\ cpc = "idle" /\ pending # <<>>
  /\ cpc' = "use" /\ held' = Head(pending).buf
  /\ UNCHANGED <<client, usb, writers, asleep, pool, copy, fpc, history>>

\* not now: too early, a dead heartbeat, an unverified pump, a gap in the numbers
PutOff ==
  /\ cpc = "use" /\ cpc' = "idle" /\ held' = NoBuf
  /\ UNCHANGED <<client, usb, writers, asleep, pool, copy, fpc, history>>

\* placed or dropped: the memcpy of the list element
CopyNode ==
  /\ cpc = "use" /\ cpc' = "retire"
  /\ copy' = <<NodeAt(Index(held) - 1), NodeAt(Index(held) + 1)>>
  /\ UNCHANGED <<client, usb, writers, asleep, pool, held, fpc, history>>

\* list_del of the copy joins the two neighbours copied; NoBuf is the list's head
Unlinked ==
  (IF copy[1] = NoBuf THEN <<>> ELSE SubSeq(pending, 1, Index(copy[1])))
    \o (IF copy[2] = NoBuf THEN <<>> ELSE SubSeq(pending, Index(copy[2]), Len(pending)))

RetireLateEdge ==
  /\ cpc = "retire" /\ cpc' = "idle" /\ held' = NoBuf /\ copy' = NoNode
  /\ free' = free \cup {held} /\ pending' = Unlinked
  /\ silent' = (silent /\ free # {})
  /\ asleep' = IF free' = {} THEN {} ELSE asleep
  /\ UNCHANGED <<client, usb, writers, fpc, stale, caught>>

Retire ==
  /\ cpc = "retire" /\ cpc' = "idle" /\ held' = NoBuf /\ copy' = NoNode
  /\ free' = free \cup {held} /\ pending' = Unlinked
  /\ silent' = (silent /\ free # {})
  /\ asleep' = IF free = {} THEN {} ELSE asleep
  /\ UNCHANGED <<client, usb, writers, fpc, stale, caught>>

-----------------------------------------------------------------------------
(***************************************************************************)
(* rfnm_tx_flush_staging: the pending list, then the completed requests.   *)
(***************************************************************************)
FlushPool ==
  /\ fpc = "idle" /\ session < FlushMax
  /\ fpc' = "usb" /\ session' = session + 1 /\ used' = {}
  /\ free' = free \cup Waiting /\ pending' = <<>>
  /\ silent' = (silent \/ (free = {} /\ pending # <<>>))
  /\ caught' = (held # NoBuf)
  /\ UNCHANGED <<usb, writers, asleep, consumer, stale>>

FlushPeek ==
  /\ fpc = "usb" /\ fpc' = IF done = <<>> THEN "idle" ELSE "take"
  /\ UNCHANGED <<client, usb, writers, asleep, pool, consumer, history>>

FlushTake ==
  /\ fpc = "take" /\ fpc' = "usb"
  /\ DoneOut
  /\ caught' = (wpc["usb"] = "seen")
  /\ UNCHANGED <<client, writers, asleep, pool, consumer, silent, stale>>

-----------------------------------------------------------------------------
\* Where a flush has caught a thread inside an element, that element is freed or
\* linked twice: the model ends there.
Next ==
  \/ \E n \in 1..CcMax : ~caught /\ CompleteOk(n)
  \/ ~caught /\ CompleteBad
  \/ ~caught /\ CompleteDead
  \/ ~caught /\ IngestPeek
  \/ ~caught /\ IngestDetach
  \/ ~caught /\ IngestDrop
  \/ \E b \in Buf : ~caught /\ ClaimUsb(b)
  \/ \E w \in Direct, b \in Buf, n \in 1..CcMax : ~caught /\ ClaimDirect(w, b, n)
  \/ \E w \in Direct : ~caught /\ Poll(w)
  \/ \E w \in Writer : ~caught /\ Commit(w)
  \/ \E w \in Direct : ~caught /\ Abort(w)
  \/ ~caught /\ Peek
  \/ ~caught /\ PutOff
  \/ ~caught /\ CopyNode
  \/ ~caught /\ Retire
  \/ ~caught /\ FlushPool
  \/ ~caught /\ FlushPeek
  \/ ~caught /\ FlushTake

Spec == Init /\ [][Next]_vars

-----------------------------------------------------------------------------
InHand == {wbuf[w] : w \in Writer} \ {NoBuf}

\* Every variable has its type, and there are never more requests than were made.
TypeOK ==
  /\ session \in 0..FlushMax /\ used \subseteq 1..CcMax
  /\ wire \in 0..ReqN /\ done \in Seq(Packet \cup {Garbage}) /\ wire + Len(done) <= ReqN
  /\ wpc \in [Writer -> {"idle", "seen", "claim", "fill"}]
  /\ wpkt \in [Writer -> Packet \cup {Garbage}] /\ wbuf \in [Writer -> Buf \cup {NoBuf}]
  /\ asleep \subseteq Direct /\ free \subseteq Buf /\ pending \in Seq([buf : Buf, packet : Packet])
  /\ cpc \in {"idle", "use", "retire"} /\ {held, copy[1], copy[2]} \subseteq Buf \cup {NoBuf}
  /\ fpc \in {"idle", "usb", "take"} /\ {silent, stale, caught} \subseteq BOOLEAN

\* A buffer is free, or pending once, or in the hands of one writer
\* (rfnm_local_zc_tx_owned, the ethernet worker's slot, the ingest): nobody fills
\* what the consumer is about to place.  And none is lost by aborts, drops, flushes
\* and retirements, except when one was inserted beside the element whose list
\* pointers the consumer had copied.
OneOwner ==
  ~caught =>
    /\ stale \/ free \cup Waiting \cup InHand = Buf
    /\ Cardinality(Waiting) = Len(pending)
    /\ free \cap Waiting = {} /\ free \cap InHand = {} /\ InHand \cap Waiting = {}
    /\ \A v, w \in Writer : v # w /\ wbuf[v] = wbuf[w] => wbuf[v] = NoBuf

\* "the head IS the next packet": whatever order the writers commit in, pending
\* packets are sorted by number.
InOrder == ~caught => \A i, j \in DOMAIN pending : i < j => pending[i].packet.cc <= pending[j].packet.cc

\* "only the empty->nonempty transition needs a wake": a writer sleeps beside
\* free buffers only when an abort or a flush, which wake nobody, made that transition.
Woken == asleep # {} /\ free # {} => silent

\* "stale packets from a previous stream must never leak into the new one's cc
\* space": after a flush no packet from before it becomes pending.
NoStaleLeak == \A i \in DOMAIN pending : pending[i].packet.session = session
=============================================================================
