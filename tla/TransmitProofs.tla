--------------------------- MODULE TransmitProofs ---------------------------
(***************************************************************************)
(* Proofs about the transmit path.  TxPool, for any set of buffers and of  *)
(* writers and any bounds: a buffer has one owner, the pending list is     *)
(* sorted, and nobody sleeps beside free buffers unless an abort or a      *)
(* flush was silent.  TxAir, for a ring of any size and any clock: what is *)
(* placed airs at its tick, nothing airs early, and the windows handed to  *)
(* the sink say what the ring holds.                                       *)
(***************************************************************************)
EXTENDS TxPool, TxAir, FiniteSetTheorems, SequenceTheorems, WellFoundedInduction, TLAPS

Item == [buf : Buf, packet : Packet]

(***************************************************************************)
(* Sequences: what an insertion and what the unlinking of a node leave.    *)
(***************************************************************************)
LEMMA Insertion ==
  ASSUME NEW S, NEW s \in Seq(S), NEW p \in 1..(Len(s) + 1), NEW e \in S
  PROVE  LET t == InsertAt(s, p, e)
         IN  /\ t \in Seq(S) /\ Len(t) = Len(s) + 1 /\ t[p] = e
             /\ \A i \in 1..Len(s) : t[IF i < p THEN i ELSE i + 1] = s[i]
<1> DEFINE u == SubSeq(s, 1, p - 1)
           v == SubSeq(s, p, Len(s))
<1>1. /\ u \in Seq(S) /\ Len(u) = p - 1 /\ \A i \in 1..(p - 1) : u[i] = s[i]
  <2>1. \A i \in 1..(p - 1) : s[i] \in S
    BY ElementOfSeq
  <2> QED BY <2>1, SubSeqProperties
<1>2. /\ v \in Seq(S) /\ Len(v) = Len(s) - p + 1 /\ \A i \in 1..(Len(s) - p + 1) : v[i] = s[p + i - 1]
  <2>1. \A i \in p..Len(s) : s[i] \in S
    BY ElementOfSeq
  <2> QED BY <2>1, SubSeqProperties
<1> HIDE DEF u, v
<1> DEFINE x == <<e>>
           w == u \o x
<1>3. w \in Seq(S) /\ Len(w) = p /\ w[p] = e /\ \A i \in 1..(p - 1) : w[i] = s[i]
  <2>1. x \in Seq(S) /\ Len(x) = 1 /\ x[1] = e
    OBVIOUS
  <2> HIDE DEF x
  <2>2. w \in Seq(S) /\ Len(w) = Len(u) + Len(x)
        /\ \A i \in 1..(Len(u) + Len(x)) : w[i] = IF i <= Len(u) THEN u[i] ELSE x[i - Len(u)]
    BY <1>1, <2>1, ConcatProperties
  <2> HIDE DEF w
  <2> QED BY <1>1, <2>1, <2>2
<1> HIDE DEF w
<1> DEFINE t == w \o v
<1>4. t \in Seq(S) /\ Len(t) = Len(s) + 1
      /\ \A i \in 1..(Len(s) + 1) : t[i] = IF i <= p THEN w[i] ELSE v[i - p]
  BY <1>2, <1>3, ConcatProperties
<1>5. InsertAt(s, p, e) = t
  BY DEF InsertAt, u, v, w
<1> HIDE DEF t
<1>6. t[p] = e /\ \A i \in 1..Len(s) : t[IF i < p THEN i ELSE i + 1] = s[i]
  <2>1. Len(s) \in Nat /\ p \in 1..(Len(s) + 1)
    OBVIOUS
  <2>2. t[p] = e
    BY <1>3, <1>4, <2>1
  <2>3. ASSUME NEW i \in 1..Len(s) PROVE t[IF i < p THEN i ELSE i + 1] = s[i]
    <3>1. CASE i < p
      <4>1. i \in 1..(p - 1) /\ i \in 1..(Len(s) + 1) /\ i <= p
        BY <2>1, <3>1
      <4>2. t[i] = s[i]
        BY <1>3, <1>4, <4>1
      <4> QED BY <3>1, <4>2
    <3>2. CASE ~(i < p)
      <4>1. /\ i + 1 \in 1..(Len(s) + 1) /\ ~(i + 1 <= p) /\ i + 1 - p \in 1..(Len(s) - p + 1)
            /\ p + (i + 1 - p) - 1 = i
        BY <2>1, <3>2
      <4>2. t[i + 1] = v[i + 1 - p] /\ v[i + 1 - p] = s[p + (i + 1 - p) - 1]
        BY <1>2, <1>4, <4>1
      <4> QED BY <3>2, <4>1, <4>2
    <3> QED BY <3>1, <3>2
  <2> QED BY <2>2, <2>3
<1> QED BY <1>4, <1>5, <1>6

LEMMA Cut ==
  ASSUME NEW S, NEW s \in Seq(S), NEW a \in 0..Len(s), NEW b \in 1..(Len(s) + 1), a < b
  PROVE  LET t == SubSeq(s, 1, a) \o SubSeq(s, b, Len(s))
         IN  /\ t \in Seq(S) /\ Len(t) = a + (Len(s) + 1 - b)
             /\ \A i \in 1..Len(t) : t[i] = s[IF i <= a THEN i ELSE i + (b - a - 1)]
<1> DEFINE u == SubSeq(s, 1, a)
           v == SubSeq(s, b, Len(s))
<1>1. /\ u \in Seq(S) /\ Len(u) = a /\ \A i \in 1..a : u[i] = s[i]
  <2>1. \A i \in 1..a : s[i] \in S
    BY ElementOfSeq
  <2> QED BY <2>1, SubSeqProperties
<1>2. /\ v \in Seq(S) /\ Len(v) = Len(s) + 1 - b /\ \A i \in 1..(Len(s) + 1 - b) : v[i] = s[b + i - 1]
  <2>1. \A i \in b..Len(s) : s[i] \in S
    BY ElementOfSeq
  <2> QED BY <2>1, SubSeqProperties
<1> HIDE DEF u, v
<1> DEFINE t == u \o v
<1>3. t \in Seq(S) /\ Len(t) = Len(u) + Len(v)
      /\ \A i \in 1..(Len(u) + Len(v)) : t[i] = IF i <= Len(u) THEN u[i] ELSE v[i - Len(u)]
  BY <1>1, <1>2, ConcatProperties
<1> HIDE DEF t
<1>4. ASSUME NEW i \in 1..Len(t) PROVE t[i] = s[IF i <= a THEN i ELSE i + (b - a - 1)]
  <2>1. CASE i <= a
    BY <1>1, <1>3, <2>1
  <2>2. CASE i > a
    <3>1. i - a \in 1..(Len(s) + 1 - b) /\ b + (i - a) - 1 = i + (b - a - 1)
      BY <1>1, <1>2, <1>3, <2>2
    <3> QED BY <1>1, <1>2, <1>3, <2>2, <3>1
  <2> QED BY <1>1, <1>3, <2>1, <2>2
<1> QED BY <1>1, <1>2, <1>3, <1>4 DEF u, v, t

\* a set of positions of a list has a greatest element
LEMMA Greatest ==
  ASSUME NEW n \in Nat, NEW P \in SUBSET (1..n), P # {}
  PROVE  Max(P) \in P /\ \A y \in P : Max(P) >= y
<1> DEFINE R == {n - x : x \in P}
<1>1. R \in SUBSET Nat /\ R # {}
  <2>1. \A x \in P : n - x \in Nat
    OBVIOUS
  <2> QED BY <2>1
<1>2. PICK v \in R : \A w \in R : <<w, v>> \notin OpToRel(<, Nat)
  <2> HIDE DEF R
  <2> QED BY <1>1, NatLessThanWellFounded, WFMin
<1>3. \A w \in R : ~ (w < v)
  <2>1. OpToRel(<, Nat) = {ss \in Nat \X Nat : ss[1] < ss[2]}
    BY Zenon DEF OpToRel
  <2> HIDE DEF R
  <2>2. ASSUME NEW Rel, Rel = OpToRel(<, Nat) PROVE \A w \in R : ~ (w < v)
    <3>1. Rel = {ss \in Nat \X Nat : ss[1] < ss[2]}
      BY <2>1, <2>2, Zenon
    <3>2. \A w \in R : <<w, v>> \notin Rel
      BY <1>2, <2>2, Zenon
    <3> QED BY <1>1, <3>1, <3>2
  <2> QED BY <2>2
<1>4. PICK x \in P : v = n - x
  BY <1>2
<1>5. \A y \in P : x >= y
  BY <1>3, <1>4
<1> QED BY <1>5 DEF Max

(***************************************************************************)
(* The inductive invariant.                                                *)
(***************************************************************************)
Slots == 1..Len(pending)

\* a buffer is pending once, and pending packets are sorted by number
ListOK ==
  /\ \A i, j \in Slots : pending[i].buf = pending[j].buf => i = j
  /\ \A i, j \in Slots : i < j => pending[i].packet.cc <= pending[j].packet.cc

\* a writer has a buffer exactly while it fills one, and a packet from the claim on
HandsOK ==
  /\ \A w \in Writer : /\ wbuf[w] # NoBuf <=> wpc[w] = "fill"
                       /\ wpc[w] = "fill" => wpkt[w] \in Packet
  /\ wpc["usb"] = "claim" => wpkt["usb"] \in Packet

OwnersOK ==
  /\ stale \/ free \cup Waiting \cup InHand = Buf
  /\ free \cap Waiting = {} /\ free \cap InHand = {} /\ InHand \cap Waiting = {}
  /\ \A v, w \in Writer : v # w /\ wbuf[v] = wbuf[w] => wbuf[v] = NoBuf

\* who has seen a completed request still finds it
SeenOK == wpc["usb"] = "seen" \/ fpc = "take" => done # <<>>

\* what the consumer holds is pending
HeldOK ==
  /\ cpc = "idle" <=> held = NoBuf
  /\ held # NoBuf => \E h \in Slots : pending[h].buf = held

\* the neighbours copied still stand on either side of it; they are still next to it
\* unless something was inserted between
CopyOK ==
  cpc = "retire" => \A h \in Slots : pending[h].buf = held =>
    /\ copy[1] # NoBuf => \E i \in Slots : i < h /\ pending[i].buf = copy[1]
    /\ copy[2] # NoBuf => \E j \in Slots : h < j /\ pending[j].buf = copy[2]
    /\ stale \/ (copy[1] = NodeAt(h - 1) /\ copy[2] = NodeAt(h + 1))

Lists == ListOK /\ HandsOK /\ OwnersOK /\ SeenOK /\ HeldOK /\ CopyOK

PInv == TypeOK /\ (caught \/ Lists)

(***************************************************************************)
(* Positions.                                                              *)
(***************************************************************************)
LEMMA ItemAt ==
  ASSUME TypeOK, NEW i \in Slots
  PROVE  /\ pending[i] \in Item /\ pending[i].buf \in Buf /\ pending[i].buf # NoBuf
         /\ pending[i].packet \in Packet /\ pending[i].packet.cc \in Int
<1>1. pending[i] \in Item
  BY ElementOfSeq DEF TypeOK, Slots, Item
<1>2. pending[i].buf \in Buf /\ pending[i].packet \in Packet
  BY <1>1 DEF Item
<1>3. pending[i].packet.cc \in Int
  BY <1>2 DEF Packet
<1> QED BY <1>1, <1>2, <1>3, TxPoolAssumption

LEMMA Domain == ASSUME TypeOK PROVE DOMAIN pending = Slots /\ Len(pending) \in Nat /\ pending \in Seq(Item)
BY DEF TypeOK, Slots, Item

LEMMA IndexIs ==
  ASSUME TypeOK, ListOK, NEW i \in Slots
  PROVE  Index(pending[i].buf) = i
<1>1. DOMAIN pending = Slots
  BY Domain
<1> QED BY <1>1 DEF Index, ListOK

LEMMA NodeIs ==
  ASSUME TypeOK, NEW i \in Int
  PROVE  NodeAt(i) = IF i \in Slots THEN pending[i].buf ELSE NoBuf
BY Domain DEF NodeAt

LEMMA WaitingIs == ASSUME TypeOK PROVE Waiting = {pending[i].buf : i \in Slots}
BY Domain DEF Waiting

LEMMA CountWaiting ==
  ASSUME TypeOK, ListOK
  PROVE  Cardinality(Waiting) = Len(pending)
<1> DEFINE f == [i \in Slots |-> pending[i].buf]
<1>1. f \in Bijection(Slots, Waiting)
  <2>1. f \in [Slots -> Waiting] /\ \A b \in Waiting : \E i \in Slots : f[i] = b
    BY WaitingIs
  <2>2. \A i, j \in Slots : f[i] = f[j] => i = j
    BY DEF ListOK
  <2> QED BY <2>1, <2>2 DEF Bijection, Injection, Surjection, IsInjective
<1>2. ExistsBijection(1..Len(pending), Waiting)
  BY <1>1 DEF ExistsBijection, Slots
<1> QED BY <1>2, Domain, FS_CountingElements

(***************************************************************************)
(* Steps that leave lists and hands alone.                                 *)
(***************************************************************************)
LEMMA InitInv == Init => PInv
<1> SUFFICES ASSUME Init PROVE PInv
  OBVIOUS
<1>1. TypeOK
  <2>1. session \in 0..FlushMax /\ used \subseteq 1..CcMax /\ wire \in 0..ReqN /\ wire + Len(done) <= ReqN
    BY TxPoolAssumption DEF Init
  <2>2. done \in Seq(Packet \cup {Garbage}) /\ pending \in Seq([buf : Buf, packet : Packet])
    BY DEF Init
  <2>3. /\ wpc \in [Writer -> {"idle", "seen", "claim", "fill"}]
        /\ wpkt \in [Writer -> Packet \cup {Garbage}] /\ wbuf \in [Writer -> Buf \cup {NoBuf}]
    BY DEF Init
  <2>4. asleep \subseteq Direct /\ free \subseteq Buf /\ cpc = "idle" /\ fpc = "idle"
    BY DEF Init
  <2>5. held = NoBuf /\ copy[1] = NoBuf /\ copy[2] = NoBuf
    BY DEF Init, NoNode
  <2>6. silent = FALSE /\ stale = FALSE /\ caught = FALSE
    BY DEF Init
  <2> HIDE DEF Init
  <2>7. {silent, stale, caught} \subseteq BOOLEAN
    BY <2>6
  <2>8. cpc \in {"idle", "use", "retire"} /\ {held, copy[1], copy[2]} \subseteq Buf \cup {NoBuf}
        /\ fpc \in {"idle", "usb", "take"}
    BY <2>4, <2>5
  <2> QED BY <2>1, <2>2, <2>3, <2>4, <2>7, <2>8 DEF TypeOK
<1>2. Slots = {} /\ Waiting = {} /\ InHand = {} /\ free = Buf /\ cpc = "idle" /\ held = NoBuf /\ fpc = "idle"
      /\ stale = FALSE
  BY DEF Init, Slots, Waiting, InHand
<1>3. \A w \in Writer : wpc[w] = "idle" /\ wbuf[w] = NoBuf
  BY DEF Init
<1>4. "usb" \in Writer
  BY DEF Writer
<1>5. ListOK /\ HandsOK
  BY <1>2, <1>3, <1>4 DEF ListOK, HandsOK
<1>6. OwnersOK /\ SeenOK
  BY <1>2, <1>3, <1>4 DEF OwnersOK, SeenOK
<1>7. HeldOK /\ CopyOK
  BY <1>2 DEF HeldOK, CopyOK
<1> QED BY <1>1, <1>5, <1>6, <1>7 DEF PInv, Lists

LEMMA Frames ==
  ASSUME Lists
  PROVE  /\ pending' = pending => ListOK'
         /\ UNCHANGED writers => HandsOK'
         /\ UNCHANGED <<pool, wbuf, stale>> => OwnersOK'
         /\ UNCHANGED <<wpc, fpc, done>> => SeenOK'
         /\ UNCHANGED <<pending, consumer, stale>> => HeldOK' /\ CopyOK'
<1> USE DEF Lists
<1>1. pending' = pending => ListOK'
  BY DEF ListOK, Slots
<1>2. UNCHANGED writers => HandsOK'
  BY DEF HandsOK, writers
<1>3. UNCHANGED <<pool, wbuf, stale>> => OwnersOK'
  BY DEF OwnersOK, pool, Waiting, InHand
<1>4. UNCHANGED <<wpc, fpc, done>> => SeenOK'
  BY DEF SeenOK
<1>5. UNCHANGED <<pending, consumer, stale>> => HeldOK' /\ CopyOK'
  BY DEF HeldOK, CopyOK, consumer, Slots, NodeAt
<1> QED BY <1>1, <1>2, <1>3, <1>4, <1>5

\* The OUT requests, and the first step of the flush on them.
LEMMA ControllerInv ==
  ASSUME PInv, ~caught,
         (\E n \in 1..CcMax : CompleteOk(n)) \/ CompleteBad \/ CompleteDead \/ FlushPeek
  PROVE  PInv'
<1> USE DEF PInv
<1>1. UNCHANGED <<session, writers, asleep, pool, consumer, history>>
  BY DEF CompleteOk, CompleteBad, CompleteDead, FlushPeek, client
<1>2. /\ wire' \in 0..ReqN /\ done' \in Seq(Packet \cup {Garbage}) /\ wire' + Len(done') <= ReqN
      /\ used' \subseteq 1..CcMax
  <2>1. /\ wire \in 0..ReqN /\ done \in Seq(Packet \cup {Garbage}) /\ wire + Len(done) <= ReqN
        /\ used \subseteq 1..CcMax /\ session \in 0..FlushMax /\ Len(done) \in Nat
    BY DEF TypeOK
  <2>2. ASSUME NEW n \in 1..CcMax, CompleteOk(n) PROVE <1>2!:
    <3>1. NewPacket(n) \in Packet
      BY <2>1 DEF NewPacket, Packet
    <3> DEFINE np == NewPacket(n)
    <3> HIDE DEF np
    <3>2. wire > 0 /\ wire' = wire - 1 /\ used' = used \cup {n} /\ done' = Append(done, np)
      BY <2>2 DEF CompleteOk, np
    <3> QED BY <2>1, <3>1, <3>2, TxPoolAssumption DEF np
  <2>3. CASE CompleteBad
    BY <2>1, <2>3, TxPoolAssumption DEF CompleteBad, client
  <2>4. CASE CompleteDead
    BY <2>1, <2>4, TxPoolAssumption DEF CompleteDead, client
  <2>5. CASE FlushPeek
    BY <2>1, <2>5 DEF FlushPeek, client, usb
  <2> QED BY <2>2, <2>3, <2>4, <2>5
<1>3. fpc' = fpc \/ FlushPeek
  BY DEF CompleteOk, CompleteBad, CompleteDead
<1>4. fpc' \in {"idle", "usb", "take"}
  BY <1>3 DEF FlushPeek, TypeOK
<1>5. TypeOK'
  BY <1>1, <1>2, <1>4 DEF TypeOK, writers, pool, consumer, history
<1>6. SeenOK'
  <2>1. done' # <<>> \/ done' = done
    <3>1. done \in Seq(Packet \cup {Garbage})
      BY DEF TypeOK
    <3> QED BY <3>1 DEF CompleteOk, CompleteBad, CompleteDead, FlushPeek, usb
  <2>2. FlushPeek \/ fpc' = fpc
    BY <1>3
  <2> QED BY <1>1, <2>1, <2>2 DEF SeenOK, Lists, FlushPeek, writers, usb
<1>7. Lists'
  BY <1>1, <1>6, Frames DEF Lists, writers, pool, consumer, history
<1> QED BY <1>5, <1>7

\* A completed request leaves the list of those who have seen it.
LEMMA DoneOutFacts ==
  ASSUME TypeOK, Lists, wpc["usb"] = "seen" \/ fpc = "take", DoneOut
  PROVE  wire' \in 0..ReqN /\ done' \in Seq(Packet \cup {Garbage}) /\ wire' + Len(done') <= ReqN
<1>1. /\ wire \in 0..ReqN /\ done \in Seq(Packet \cup {Garbage}) /\ wire + Len(done) <= ReqN
      /\ done # <<>>
  BY DEF TypeOK, Lists, SeenOK
<1>2. done' \in Seq(Packet \cup {Garbage}) /\ Len(done') = Len(done) - 1 /\ Len(done) \in Nat \ {0}
  BY <1>1 DEF DoneOut
<1>3. wire' = wire \/ wire' = wire + 1
  BY DEF DoneOut
<1> QED BY <1>1, <1>2, <1>3, TxPoolAssumption

LEMMA IngestInv ==
  ASSUME PInv, ~caught, IngestPeek \/ IngestDetach \/ IngestDrop \/ FlushTake
  PROVE  PInv'
<1> USE DEF PInv
<1>1. UNCHANGED <<session, used, wbuf, asleep, pool, consumer, silent, stale>>
  BY DEF IngestPeek, IngestDetach, IngestDrop, FlushTake, client, writers, history
<1>2. wire' \in 0..ReqN /\ done' \in Seq(Packet \cup {Garbage}) /\ wire' + Len(done') <= ReqN
  <2>1. CASE IngestPeek \/ IngestDrop
    BY <2>1 DEF IngestPeek, IngestDrop, usb, TypeOK
  <2>2. CASE IngestDetach \/ FlushTake
    <3>1. (wpc["usb"] = "seen" \/ fpc = "take") /\ DoneOut
      BY <2>2 DEF IngestDetach, FlushTake, At
    <3> QED BY <3>1, DoneOutFacts
  <2> QED BY <2>1, <2>2
<1>3. /\ wpc' \in [Writer -> {"idle", "seen", "claim", "fill"}]
      /\ \A w \in Writer \ {"usb"} : wpc'[w] = wpc[w]
      /\ wpkt' \in [Writer -> Packet \cup {Garbage}]
      /\ \A w \in Writer \ {"usb"} : wpkt'[w] = wpkt[w]
      /\ wpc["usb"] # "fill" /\ ~FlushTake => wpc'["usb"] # "fill" /\ wpc["usb"] # "fill"
      /\ wpc'["usb"] = "claim" => FlushTake \/ (wpkt'["usb"] = wpkt["usb"] /\ wpkt["usb"] # Garbage)
  <2>1. wpc \in [Writer -> {"idle", "seen", "claim", "fill"}] /\ wpkt \in [Writer -> Packet \cup {Garbage}]
        /\ "usb" \in Writer
    BY DEF TypeOK, Writer
  <2>2. CASE IngestPeek
    <3>1. Head(done) \in Packet \cup {Garbage}
      BY <2>2 DEF IngestPeek, TypeOK
    <3>2. wpc' = [wpc EXCEPT !["usb"] = "seen"] /\ wpkt' = [wpkt EXCEPT !["usb"] = Head(done)]
      BY <2>2 DEF IngestPeek, At
    <3> QED BY <2>1, <3>1, <3>2
  <2>3. CASE IngestDetach
    <3>1. wpc' = [wpc EXCEPT !["usb"] = IF wpkt["usb"] = Garbage THEN "idle" ELSE "claim"] /\ wpkt' = wpkt
      BY <2>3 DEF IngestDetach, At
    <3> QED BY <2>1, <3>1
  <2>4. CASE IngestDrop
    <3>1. wpc' = [wpc EXCEPT !["usb"] = "idle"] /\ wpkt' = [wpkt EXCEPT !["usb"] = Garbage]
      BY <2>4 DEF IngestDrop, At
    <3> QED BY <2>1, <3>1
  <2>5. CASE FlushTake
    BY <2>1, <2>5 DEF FlushTake, writers
  <2> QED BY <2>2, <2>3, <2>4, <2>5
<1>4. fpc' \in {"idle", "usb", "take"}
  BY DEF IngestPeek, IngestDetach, IngestDrop, FlushTake, TypeOK
<1>5. caught' \in BOOLEAN
  BY DEF IngestPeek, IngestDetach, IngestDrop, FlushTake, TypeOK, history
<1>6. TypeOK'
  BY <1>1, <1>2, <1>3, <1>4, <1>5 DEF TypeOK, pool, consumer
<1>7. ASSUME ~caught' PROVE Lists'
  <2>1. HandsOK'
    <3>1. CASE FlushTake
      BY <3>1, Frames DEF FlushTake, writers, Lists
    <3>2. CASE ~FlushTake
      <4>1. wpc["usb"] # "fill" /\ "usb" \in Writer
        BY <3>2 DEF IngestPeek, IngestDetach, IngestDrop, At, Writer
      <4>2. wpc'["usb"] # "fill" /\ (wpc'["usb"] = "claim" => wpkt'["usb"] \in Packet)
        BY <1>3, <3>2, <4>1 DEF TypeOK
      <4> QED BY <1>1, <1>3, <4>1, <4>2 DEF Lists, HandsOK
    <3> QED BY <3>1, <3>2
  <2>2. SeenOK'
    <3>1. CASE IngestPeek
      BY <3>1 DEF IngestPeek, usb, SeenOK
    <3>2. CASE IngestDetach
      <4>1. wpc'["usb"] # "seen" /\ fpc' = fpc /\ fpc # "take"
        BY <1>7, <3>2 DEF IngestDetach, At, TypeOK, Writer
      <4> QED BY <4>1 DEF SeenOK
    <3>3. CASE IngestDrop
      <4>1. wpc'["usb"] = "idle" /\ fpc' = fpc /\ done' = done
        BY <3>3 DEF IngestDrop, At, TypeOK, Writer, usb
      <4> QED BY <4>1 DEF SeenOK, Lists
    <3>4. CASE FlushTake
      BY <1>7, <3>4 DEF FlushTake, SeenOK, writers
    <3> QED BY <3>1, <3>2, <3>3, <3>4 DEF SeenOK
  <2> QED BY <1>1, <2>1, <2>2, Frames DEF Lists, pool, consumer
<1> QED BY <1>6, <1>7

LEMMA PollInv ==
  ASSUME PInv, ~caught, NEW w \in Direct, Poll(w)
  PROVE  PInv'
<1>1. asleep' = asleep \cup {w} /\ UNCHANGED <<client, usb, writers, pool, consumer, fpc, history>>
  BY DEF Poll
<1>2. TypeOK'
  BY <1>1 DEF PInv, TypeOK, client, usb, writers, pool, consumer, history
<1> QED BY <1>1, <1>2, Frames DEF PInv, Lists, writers, usb, pool, consumer, history

(***************************************************************************)
(* Hands: a buffer comes in from the free list, and goes back or on.       *)
(***************************************************************************)
Apart == \A v, w \in Writer : v # w /\ wbuf[v] = wbuf[w] => wbuf[v] = NoBuf

LEMMA HandFilled ==
  ASSUME TypeOK, OwnersOK, NEW w \in Writer, NEW b \in free, wbuf[w] = NoBuf,
         wbuf' = [wbuf EXCEPT ![w] = b]
  PROVE  InHand' = InHand \cup {b} /\ Apart'
<1>1. wbuf \in [Writer -> Buf \cup {NoBuf}] /\ b \in Buf /\ b # NoBuf
  BY TxPoolAssumption DEF TypeOK
<1>2. wbuf'[w] = b /\ \A v \in Writer : v # w => wbuf'[v] = wbuf[v]
  BY <1>1
<1>3. InHand' = InHand \cup {b}
  BY <1>1, <1>2 DEF InHand
<1>4. \A v \in Writer : wbuf[v] # b
  BY <1>1 DEF OwnersOK, InHand
<1>5. Apart'
  BY <1>2, <1>4 DEF OwnersOK, Apart
<1> QED BY <1>3, <1>5

LEMMA HandEmptied ==
  ASSUME TypeOK, OwnersOK, NEW w \in Writer, wbuf[w] # NoBuf,
         wbuf' = [wbuf EXCEPT ![w] = NoBuf]
  PROVE  InHand' = InHand \ {wbuf[w]} /\ wbuf[w] \in InHand /\ wbuf[w] \in Buf /\ Apart'
<1>1. wbuf \in [Writer -> Buf \cup {NoBuf}]
  BY DEF TypeOK
<1>2. wbuf'[w] = NoBuf /\ \A v \in Writer : v # w => wbuf'[v] = wbuf[v]
  BY <1>1
<1>3. \A v \in Writer : v # w => wbuf[v] # wbuf[w]
  BY DEF OwnersOK
<1>4. InHand' = InHand \ {wbuf[w]}
  BY <1>2, <1>3 DEF InHand
<1>5. Apart'
  BY <1>2 DEF OwnersOK, Apart
<1>6. wbuf[w] \in InHand /\ wbuf[w] \in Buf
  BY <1>1 DEF InHand
<1> QED BY <1>4, <1>5, <1>6

LEMMA ClaimInv ==
  ASSUME PInv, ~caught, NEW w \in Writer, NEW b \in Buf,
         \/ w = "usb" /\ ClaimUsb(b)
         \/ w # "usb" /\ \E n \in 1..CcMax : ClaimDirect(w, b, n)
  PROVE  PInv'
<1> USE DEF PInv, Lists
<1>1. /\ wpc[w] # "fill" /\ wpc' = [wpc EXCEPT ![w] = "fill"] /\ TakeFree(w, b)
      /\ UNCHANGED <<session, usb, asleep, pending, consumer, fpc, history>>
  BY DEF ClaimUsb, ClaimDirect, At, client
<1>2. used' \subseteq 1..CcMax /\ wpkt' \in [Writer -> Packet \cup {Garbage}]
      /\ wpkt'[w] \in Packet /\ \A v \in Writer \ {w} : wpkt'[v] = wpkt[v]
  <2>1. used \subseteq 1..CcMax /\ wpkt \in [Writer -> Packet \cup {Garbage}] /\ session \in 0..FlushMax
    BY DEF TypeOK
  <2>2. CASE w = "usb" /\ ClaimUsb(b)
    <3>1. wpc["usb"] = "claim" /\ wpkt' = wpkt /\ used' = used
      BY <2>2 DEF ClaimUsb, At, client
    <3> QED BY <2>1, <2>2, <3>1 DEF HandsOK
  <2>3. ASSUME NEW n \in 1..CcMax, ClaimDirect(w, b, n) PROVE <1>2!:
    <3>1. NewPacket(n) \in Packet
      BY <2>1 DEF NewPacket, Packet
    <3>2. wpkt' = [wpkt EXCEPT ![w] = NewPacket(n)] /\ used' = used \cup {n}
      BY <2>3 DEF ClaimDirect
    <3> QED BY <2>1, <3>1, <3>2
  <2> QED BY <2>2, <2>3
<1>3. b \in free /\ free' = free \ {b} /\ wbuf' = [wbuf EXCEPT ![w] = b]
  BY <1>1 DEF TakeFree
<1>4. TypeOK'
  <2>1. wpc' \in [Writer -> {"idle", "seen", "claim", "fill"}] /\ wbuf' \in [Writer -> Buf \cup {NoBuf}]
    BY <1>1, <1>3 DEF TypeOK
  <2>2. free' \subseteq Buf
    BY <1>3 DEF TypeOK
  <2> QED BY <1>1, <1>2, <2>1, <2>2 DEF TypeOK, usb, consumer, history
<1>5. wbuf[w] = NoBuf
  BY <1>1 DEF HandsOK
<1>6. InHand' = InHand \cup {b} /\ Apart'
  BY <1>3, <1>5, HandFilled
<1>7. Waiting' = Waiting /\ stale' = stale
  BY <1>1 DEF Waiting, history
<1>8. OwnersOK'
  BY <1>3, <1>6, <1>7 DEF OwnersOK, Apart
<1>9. HandsOK'
  <2>1. wpc'[w] = "fill" /\ \A v \in Writer \ {w} : wpc'[v] = wpc[v]
    BY <1>1 DEF TypeOK
  <2>2. wbuf'[w] = b /\ b # NoBuf /\ \A v \in Writer \ {w} : wbuf'[v] = wbuf[v]
    BY <1>3, TxPoolAssumption DEF TypeOK
  <2> QED BY <1>2, <2>1, <2>2 DEF HandsOK, Writer
<1>10. SeenOK'
  <2>1. wpc'["usb"] = wpc["usb"] \/ wpc'["usb"] = "fill"
    BY <1>1 DEF TypeOK, Writer
  <2> QED BY <1>1, <2>1 DEF SeenOK, usb
<1> QED BY <1>1, <1>4, <1>8, <1>9, <1>10, Frames DEF history

LEMMA AbortInv ==
  ASSUME PInv, ~caught, NEW w \in Writer, Abort(w)
  PROVE  PInv'
<1> USE DEF PInv, Lists
<1>1. /\ wpc[w] = "fill" /\ wpc' = [wpc EXCEPT ![w] = "idle"]
      /\ wpkt' = [wpkt EXCEPT ![w] = Garbage] /\ wbuf' = [wbuf EXCEPT ![w] = NoBuf]
      /\ free' = free \cup {wbuf[w]}
      /\ UNCHANGED <<client, usb, asleep, pending, consumer, fpc, stale, caught>>
  BY DEF Abort, At
<1>2. silent' \in BOOLEAN
  BY DEF Abort, TypeOK
<1>3. wbuf[w] # NoBuf
  BY <1>1 DEF HandsOK
<1>4. InHand' = InHand \ {wbuf[w]} /\ wbuf[w] \in InHand /\ wbuf[w] \in Buf /\ Apart'
  BY <1>1, <1>3, HandEmptied
<1>5. TypeOK'
  <2>1. wpc' \in [Writer -> {"idle", "seen", "claim", "fill"}] /\ wbuf' \in [Writer -> Buf \cup {NoBuf}]
        /\ wpkt' \in [Writer -> Packet \cup {Garbage}]
    BY <1>1 DEF TypeOK
  <2>2. free' \subseteq Buf
    BY <1>1, <1>4 DEF TypeOK
  <2> QED BY <1>1, <1>2, <2>1, <2>2 DEF TypeOK, client, usb, consumer
<1>6. Waiting' = Waiting
  BY <1>1 DEF Waiting
<1>7. OwnersOK'
  BY <1>1, <1>4, <1>6 DEF OwnersOK, Apart
<1>8. HandsOK' /\ SeenOK'
  <2>1. wpc'[w] = "idle" /\ wbuf'[w] = NoBuf
        /\ \A v \in Writer \ {w} : wpc'[v] = wpc[v] /\ wbuf'[v] = wbuf[v] /\ wpkt'[v] = wpkt[v]
    BY <1>1 DEF TypeOK
  <2>2. HandsOK'
    BY <2>1 DEF HandsOK, Writer
  <2>3. wpc'["usb"] = wpc["usb"] \/ wpc'["usb"] = "idle"
    BY <2>1 DEF Writer
  <2> QED BY <1>1, <2>2, <2>3 DEF SeenOK, usb
<1> QED BY <1>1, <1>5, <1>7, <1>8, Frames

(***************************************************************************)
(* A packet is inserted behind the last one whose number is not larger.    *)
(***************************************************************************)
LEMMA PosFacts ==
  ASSUME TypeOK, ListOK, NEW p \in Packet
  PROVE  /\ SortedPos(p) \in 1..(Len(pending) + 1)
         /\ \A i \in Slots : i < SortedPos(p) => pending[i].packet.cc <= p.cc
         /\ \A i \in Slots : i >= SortedPos(p) => p.cc <= pending[i].packet.cc
<1> DEFINE notLarger == {i \in Slots : pending[i].packet.cc <= p.cc}
<1>1. SortedPos(p) = IF notLarger = {} THEN 1 ELSE Max(notLarger) + 1
  BY Domain DEF SortedPos
<1>2. p.cc \in Int /\ Len(pending) \in Nat /\ \A i \in Slots : pending[i].packet.cc \in Int
  BY ItemAt, Domain DEF Packet
<1>3. CASE notLarger = {}
  <2>1. SortedPos(p) = 1
    BY <1>1, <1>3
  <2>2. \A i \in Slots : i >= 1 /\ p.cc <= pending[i].packet.cc
    BY <1>2, <1>3 DEF Slots
  <2>3. \A i \in Slots : ~ (i < 1)
    BY <1>2 DEF Slots
  <2>4. 1 \in 1..(Len(pending) + 1)
    BY <1>2
  <2> QED BY <2>1, <2>2, <2>3, <2>4
<1>4. CASE notLarger # {}
  <2> DEFINE m == Max(notLarger)
  <2>1. m \in notLarger /\ \A y \in notLarger : m >= y
    BY <1>2, <1>4, Greatest DEF Slots
  <2> HIDE DEF m
  <2>2. SortedPos(p) = m + 1
    BY <1>1, <1>4 DEF m
  <2>3. m \in Slots /\ pending[m].packet.cc <= p.cc
    BY <2>1
  <2>4. \A i \in Slots : i <= m => pending[i].packet.cc <= p.cc
    <3>1. \A i \in Slots : i < m => pending[i].packet.cc <= pending[m].packet.cc
      BY <2>3 DEF ListOK
    <3> QED BY <1>2, <2>3, <3>1 DEF Slots
  <2>5. \A i \in Slots : i > m => p.cc <= pending[i].packet.cc
    <3>1. \A i \in Slots : i > m => i \notin notLarger
      BY <2>1, <2>3 DEF Slots
    <3> QED BY <1>2, <3>1
  <2>6. SortedPos(p) \in 1..(Len(pending) + 1)
    BY <1>2, <2>2, <2>3 DEF Slots
  <2>7. \A i \in Slots : (i < m + 1 <=> i <= m) /\ (i >= m + 1 <=> i > m)
    BY <2>3 DEF Slots
  <2> QED BY <2>2, <2>4, <2>5, <2>6, <2>7
<1> QED BY <1>3, <1>4

\* Where everything is after an insertion.
LEMMA CommitMoves ==
  ASSUME TypeOK, Lists, NEW w \in Writer, Commit(w), NEW pos, pos = SortedPos(wpkt[w])
  PROVE  /\ wbuf[w] \in Buf /\ wbuf[w] # NoBuf /\ wpkt[w] \in Packet
         /\ pos \in Slots' /\ pos \in Int /\ pending' \in Seq(Item) /\ Len(pending') = Len(pending) + 1
         /\ pending'[pos].buf = wbuf[w] /\ pending'[pos].packet = wpkt[w]
         /\ \A i \in Slots : i < pos => i \in Slots' /\ pending'[i] = pending[i]
         /\ \A i \in Slots : i >= pos => i + 1 \in Slots' /\ pending'[i + 1] = pending[i]
         /\ \A i \in Slots' : i < pos => i \in Slots
         /\ \A i \in Slots' : i > pos => i - 1 \in Slots
<1>1. wpc[w] = "fill"
  BY DEF Commit, At
<1>2. wbuf[w] \in Buf /\ wbuf[w] # NoBuf /\ wpkt[w] \in Packet
  BY <1>1 DEF Lists, HandsOK, TypeOK
<1> DEFINE e == [buf |-> wbuf[w], packet |-> wpkt[w]]
<1>3. e \in Item /\ e.buf = wbuf[w] /\ e.packet = wpkt[w]
  BY <1>2 DEF Item
<1>4. pending' = InsertAt(pending, pos, e)
  BY DEF Commit
<1> HIDE DEF e
<1>5. pos \in 1..(Len(pending) + 1) /\ pending \in Seq(Item) /\ Len(pending) \in Nat
  BY <1>2, PosFacts, Domain DEF Lists
<1>6. /\ pending' \in Seq(Item) /\ Len(pending') = Len(pending) + 1 /\ pending'[pos] = e
      /\ \A i \in 1..Len(pending) : pending'[IF i < pos THEN i ELSE i + 1] = pending[i]
  BY <1>3, <1>4, <1>5, Insertion
<1>7. Slots' = 1..(Len(pending) + 1)
  BY <1>6 DEF Slots
<1>8. \A i \in Slots : i < pos => i \in Slots' /\ pending'[i] = pending[i]
  BY <1>5, <1>6, <1>7 DEF Slots
<1>9. \A i \in Slots : i >= pos => i + 1 \in Slots' /\ pending'[i + 1] = pending[i]
  BY <1>5, <1>6, <1>7 DEF Slots
<1>10. (\A i \in Slots' : i < pos => i \in Slots) /\ (\A i \in Slots' : i > pos => i - 1 \in Slots)
  BY <1>5, <1>7 DEF Slots
<1> QED BY <1>2, <1>3, <1>5, <1>6, <1>7, <1>8, <1>9, <1>10

LEMMA CommitInv ==
  ASSUME PInv, ~caught, NEW w \in Writer, Commit(w)
  PROVE  PInv'
<1> USE DEF PInv
<1> DEFINE pos == SortedPos(wpkt[w])
           b   == wbuf[w]
<1> HIDE DEF pos, b
<1>1. /\ wpc[w] = "fill" /\ wpc' = [wpc EXCEPT ![w] = "idle"]
      /\ wpkt' = [wpkt EXCEPT ![w] = Garbage] /\ wbuf' = [wbuf EXCEPT ![w] = NoBuf]
      /\ UNCHANGED <<client, usb, asleep, free, consumer, fpc, silent, caught>>
  BY DEF Commit, At
<1>2. stale' = (stale \/ (cpc = "retire" /\ pos \in Index(held)..(Index(held) + 1)))
  BY DEF Commit, pos
<1>3. /\ b \in Buf /\ b # NoBuf /\ wpkt[w] \in Packet
      /\ pos \in Slots' /\ pos \in Int /\ pending' \in Seq(Item) /\ Len(pending') = Len(pending) + 1
      /\ pending'[pos].buf = b /\ pending'[pos].packet = wpkt[w]
      /\ \A i \in Slots : i < pos => i \in Slots' /\ pending'[i] = pending[i]
      /\ \A i \in Slots : i >= pos => i + 1 \in Slots' /\ pending'[i + 1] = pending[i]
      /\ \A i \in Slots' : i < pos => i \in Slots
      /\ \A i \in Slots' : i > pos => i - 1 \in Slots
  BY CommitMoves DEF pos, b
<1>4. Slots = 1..Len(pending) /\ Slots' = 1..(Len(pending) + 1) /\ Len(pending) \in Nat
  BY <1>3, Domain DEF Slots
<1>5. ASSUME NEW i \in Slots'
      PROVE  \/ i < pos /\ i \in Slots /\ pending'[i] = pending[i]
             \/ i = pos
             \/ i > pos /\ i - 1 \in Slots /\ i - 1 >= pos /\ pending'[i] = pending[i - 1]
  <2>1. CASE i < pos
    BY <1>3, <2>1
  <2>2. CASE i > pos
    <3>1. i - 1 \in Slots /\ i - 1 >= pos /\ (i - 1) + 1 = i
      BY <1>3, <1>4, <2>2
    <3> QED BY <1>3, <2>2, <3>1
  <2> QED BY <1>3, <1>4, <2>1, <2>2
<1>6. InHand' = InHand \ {b} /\ b \in InHand /\ Apart'
  BY <1>1, <1>3, HandEmptied DEF Lists, b
<1>7. b \notin Waiting /\ b \notin free
  BY <1>6 DEF Lists, OwnersOK
<1>8. \A i \in Slots : pending[i].buf # b
  BY <1>7, WaitingIs
<1>9. Waiting' = Waiting \cup {b}
  <2>1. DOMAIN pending' = Slots'
    BY <1>3 DEF Slots
  <2>2. Waiting' = {pending'[i].buf : i \in Slots'}
    BY <2>1 DEF Waiting
  <2>3. \A i \in Slots : \E j \in Slots' : pending'[j].buf = pending[i].buf
    <3>1. ASSUME NEW i \in Slots PROVE \E j \in Slots' : pending'[j].buf = pending[i].buf
      <4>1. i < pos \/ i >= pos
        BY <1>3, <1>4
      <4> QED BY <1>3, <4>1
    <3> QED BY <3>1
  <2>4. \A i \in Slots' : pending'[i].buf = b \/ \E j \in Slots : pending'[i].buf = pending[j].buf
    BY <1>3, <1>5
  <2> QED BY <1>3, <2>2, <2>3, <2>4, WaitingIs
<1>10. TypeOK'
  <2>1. wpc' \in [Writer -> {"idle", "seen", "claim", "fill"}] /\ wbuf' \in [Writer -> Buf \cup {NoBuf}]
        /\ wpkt' \in [Writer -> Packet \cup {Garbage}]
    BY <1>1 DEF TypeOK
  <2>2. stale' \in BOOLEAN
    BY <1>2 DEF TypeOK
  <2>3. pending' \in Seq([buf : Buf, packet : Packet])
    BY <1>3 DEF Item
  <2> QED BY <1>1, <2>1, <2>2, <2>3 DEF TypeOK, client, usb, consumer
<1>11. HandsOK' /\ SeenOK'
  <2>1. wpc'[w] = "idle" /\ wbuf'[w] = NoBuf
        /\ \A v \in Writer \ {w} : wpc'[v] = wpc[v] /\ wbuf'[v] = wbuf[v] /\ wpkt'[v] = wpkt[v]
    BY <1>1 DEF TypeOK
  <2>2. HandsOK'
    BY <2>1 DEF Lists, HandsOK, Writer
  <2>3. wpc'["usb"] = wpc["usb"] \/ wpc'["usb"] = "idle"
    BY <2>1 DEF Writer
  <2> QED BY <1>1, <2>2, <2>3 DEF Lists, SeenOK, usb
<1>12. OwnersOK'
  <2>1. stale' \/ free' \cup Waiting' \cup InHand' = Buf
    BY <1>1, <1>2, <1>6, <1>9 DEF Lists, OwnersOK
  <2>2. free' \cap Waiting' = {} /\ free' \cap InHand' = {} /\ InHand' \cap Waiting' = {}
    BY <1>1, <1>6, <1>7, <1>9 DEF Lists, OwnersOK
  <2> QED BY <1>6, <2>1, <2>2 DEF OwnersOK, Apart
<1>13. ListOK'
  <2>1. ASSUME NEW i \in Slots', NEW j \in Slots', pending'[i].buf = pending'[j].buf PROVE i = j
    <3>1. CASE i = pos
      BY <1>3, <1>5, <1>8, <2>1, <3>1
    <3>2. CASE j = pos
      BY <1>3, <1>5, <1>8, <2>1, <3>2
    <3>3. CASE i # pos /\ j # pos
      <4>1. i \in Int /\ j \in Int
        BY <1>4
      <4>2. \A k, l \in Slots : pending[k].buf = pending[l].buf => k = l
        BY DEF Lists, ListOK
      <4>3. PICK k \in Slots : ((i < pos /\ k = i) \/ (i > pos /\ k = i - 1 /\ k >= pos)) /\ pending'[i] = pending[k]
        BY <1>5, <3>3
      <4>4. PICK l \in Slots : ((j < pos /\ l = j) \/ (j > pos /\ l = j - 1 /\ l >= pos)) /\ pending'[j] = pending[l]
        BY <1>5, <3>3
      <4>5. k = l
        BY <2>1, <4>2, <4>3, <4>4
      <4> QED BY <1>3, <1>4, <4>1, <4>3, <4>4, <4>5
    <3> QED BY <3>1, <3>2, <3>3
  <2>2. ASSUME NEW i \in Slots', NEW j \in Slots', i < j
        PROVE  pending'[i].packet.cc <= pending'[j].packet.cc
    <3>1. \A k \in Slots : (k < pos => pending[k].packet.cc <= wpkt[w].cc)
                           /\ (k >= pos => wpkt[w].cc <= pending[k].packet.cc)
      BY <1>3, PosFacts DEF Lists, pos
    <3>2. \A k, l \in Slots : k < l => pending[k].packet.cc <= pending[l].packet.cc
      BY DEF Lists, ListOK
    <3>3. i \in Int /\ j \in Int
      BY <1>4
    <3>4. CASE i = pos
      <4>1. j > pos /\ j - 1 \in Slots /\ j - 1 >= pos /\ pending'[j] = pending[j - 1]
        BY <1>3, <1>5, <2>2, <3>3, <3>4
      <4> QED BY <1>3, <3>1, <3>4, <4>1
    <3>5. CASE j = pos
      <4>1. i < pos /\ i \in Slots /\ pending'[i] = pending[i]
        BY <1>3, <1>5, <2>2, <3>3, <3>5
      <4> QED BY <1>3, <3>1, <3>5, <4>1
    <3>6. CASE i # pos /\ j # pos
      <4>1. PICK k \in Slots : ((i < pos /\ k = i) \/ (i > pos /\ k = i - 1 /\ k >= pos)) /\ pending'[i] = pending[k]
        BY <1>5, <3>6
      <4>2. PICK l \in Slots : ((j < pos /\ l = j) \/ (j > pos /\ l = j - 1 /\ l >= pos)) /\ pending'[j] = pending[l]
        BY <1>5, <3>6
      <4>3. k < l
        BY <1>3, <1>4, <2>2, <3>3, <4>1, <4>2
      <4> QED BY <3>2, <4>1, <4>2, <4>3
    <3> QED BY <3>4, <3>5, <3>6
  <2> QED BY <2>1, <2>2 DEF ListOK

<1>14. HeldOK'
  <2>1. \A i \in Slots : \E j \in Slots' : pending'[j].buf = pending[i].buf
    <3>1. ASSUME NEW i \in Slots PROVE \E j \in Slots' : pending'[j].buf = pending[i].buf
      <4>1. i < pos \/ i >= pos
        BY <1>3, <1>4
      <4> QED BY <1>3, <4>1
    <3> QED BY <3>1
  <2> QED BY <1>1, <2>1 DEF Lists, HeldOK, consumer
<1>15. CopyOK'
  <2>1. SUFFICES ASSUME cpc = "retire", NEW g \in Slots', pending'[g].buf = held
                 PROVE  /\ copy[1] # NoBuf => \E i \in Slots' : i < g /\ pending'[i].buf = copy[1]
                        /\ copy[2] # NoBuf => \E j \in Slots' : g < j /\ pending'[j].buf = copy[2]
                        /\ stale' \/ (copy[1] = NodeAt(g - 1)' /\ copy[2] = NodeAt(g + 1)')
    <3>1. cpc' = cpc /\ held' = held /\ copy' = copy
      BY <1>1 DEF consumer
    <3> QED BY <3>1 DEF CopyOK, NodeAt
  <2>2. PICK h \in Slots : pending[h].buf = held
    BY <2>1 DEF Lists, HeldOK
  <2>3. (h < pos /\ g = h) \/ (h >= pos /\ g = h + 1)
    <3>1. g # pos
      BY <1>3, <1>8, <2>1, <2>2
    <3>2. PICK k \in Slots : ((g < pos /\ k = g) \/ (g > pos /\ k = g - 1 /\ k >= pos)) /\ pending'[g] = pending[k]
      BY <1>5, <3>1
    <3>3. k = h
      BY <2>1, <2>2, <3>2 DEF Lists, ListOK
    <3> QED BY <1>3, <1>4, <3>2, <3>3
  <2>4. /\ copy[1] # NoBuf => \E i \in Slots : i < h /\ pending[i].buf = copy[1]
        /\ copy[2] # NoBuf => \E j \in Slots : h < j /\ pending[j].buf = copy[2]
        /\ stale \/ (copy[1] = NodeAt(h - 1) /\ copy[2] = NodeAt(h + 1))
    BY <2>1, <2>2 DEF Lists, CopyOK
  <2>5. ASSUME copy[1] # NoBuf PROVE \E i \in Slots' : i < g /\ pending'[i].buf = copy[1]
    <3>1. PICK i \in Slots : i < h /\ pending[i].buf = copy[1]
      BY <2>4, <2>5
    <3>2. CASE i < pos
      <4>1. i < g
        BY <1>4, <2>3, <3>1
      <4> QED BY <1>3, <3>1, <3>2, <4>1
    <3>3. CASE i >= pos
      <4>1. i + 1 < g
        BY <1>3, <1>4, <2>3, <3>1, <3>3
      <4>2. i + 1 \in Slots' /\ pending'[i + 1].buf = copy[1]
        BY <1>3, <3>1, <3>3
      <4> QED BY <4>1, <4>2
    <3> QED BY <1>3, <1>4, <3>2, <3>3
  <2>6. ASSUME copy[2] # NoBuf PROVE \E j \in Slots' : g < j /\ pending'[j].buf = copy[2]
    <3>1. PICK j \in Slots : h < j /\ pending[j].buf = copy[2]
      BY <2>4, <2>6
    <3>2. CASE j < pos
      <4>1. g < j
        BY <1>3, <1>4, <2>3, <3>1, <3>2
      <4> QED BY <1>3, <3>1, <3>2, <4>1
    <3>3. CASE j >= pos
      <4>1. g < j + 1
        BY <1>4, <2>3, <3>1
      <4>2. j + 1 \in Slots' /\ pending'[j + 1].buf = copy[2]
        BY <1>3, <3>1, <3>3
      <4> QED BY <4>1, <4>2
    <3> QED BY <1>3, <1>4, <3>2, <3>3
  <2>7. ASSUME ~stale' PROVE copy[1] = NodeAt(g - 1)' /\ copy[2] = NodeAt(g + 1)'
    <3>1. Index(held) = h
      BY <2>2, IndexIs DEF Lists
    <3>2. ~stale /\ (pos < h \/ pos > h + 1)
      <4>1. ~stale /\ pos \notin h..(h + 1)
        BY <1>2, <2>1, <2>7, <3>1
      <4> QED BY <1>3, <1>4, <4>1
    <3>3. copy[1] = NodeAt(h - 1) /\ copy[2] = NodeAt(h + 1)
      BY <2>4, <3>2
    <3>4. \A i \in Int : NodeAt(i) = IF i \in Slots THEN pending[i].buf ELSE NoBuf
      BY NodeIs
    <3>5. \A i \in Int : NodeAt(i)' = IF i \in Slots' THEN pending'[i].buf ELSE NoBuf
      BY <1>3 DEF NodeAt, Slots
    <3>6. CASE pos < h
      <4>1. g = h + 1 /\ h - 1 \in Slots /\ h - 1 >= pos /\ (h - 1) + 1 = g - 1 /\ g - 1 \in Int /\ h - 1 \in Int
        BY <1>3, <1>4, <2>3, <3>6
      <4>2. NodeAt(g - 1)' = NodeAt(h - 1)
        <5>1. (h - 1) + 1 \in Slots' /\ pending'[(h - 1) + 1] = pending[h - 1]
          BY <1>3, <4>1
        <5> QED BY <3>4, <3>5, <4>1, <5>1
      <4>3. NodeAt(g + 1)' = NodeAt(h + 1)
        <5>1. g + 1 = (h + 1) + 1 /\ h + 1 >= pos /\ h + 1 \in Int /\ g + 1 \in Int
              /\ (h + 1 \in Slots <=> g + 1 \in Slots')
          BY <1>3, <1>4, <3>6, <4>1
        <5>2. h + 1 \in Slots => pending'[g + 1] = pending[h + 1]
          BY <1>3, <5>1
        <5> QED BY <3>4, <3>5, <5>1, <5>2
      <4> QED BY <3>3, <4>2, <4>3
    <3>7. CASE pos > h + 1
      <4>1. g = h /\ h + 1 \in Slots /\ h + 1 \in Int /\ h - 1 \in Int /\ h - 1 < pos
            /\ (h - 1 \in Slots <=> h - 1 \in Slots')
        BY <1>3, <1>4, <2>3, <3>7
      <4>2. h + 1 \in Slots' /\ pending'[h + 1] = pending[h + 1]
        BY <1>3, <3>7, <4>1
      <4>3. h - 1 \in Slots => pending'[h - 1] = pending[h - 1]
        BY <1>3, <4>1
      <4> QED BY <3>3, <3>4, <3>5, <4>1, <4>2, <4>3
    <3> QED BY <3>2, <3>6, <3>7
  <2> QED BY <2>5, <2>6, <2>7
<1> QED BY <1>1, <1>10, <1>11, <1>12, <1>13, <1>14, <1>15 DEF Lists

(***************************************************************************)
(* The consumer.                                                           *)
(***************************************************************************)
LEMMA LookInv ==
  ASSUME PInv, ~caught, Peek \/ PutOff \/ CopyNode
  PROVE  PInv'
<1> USE DEF PInv
<1>1. UNCHANGED <<client, usb, writers, asleep, pool, fpc, history>>
  BY DEF Peek, PutOff, CopyNode
<1>2. Waiting' = Waiting /\ Slots' = Slots /\ DOMAIN pending = Slots /\ pending' = pending
  BY <1>1, Domain DEF pool, Waiting, Slots
<1>3. cpc' \in {"idle", "use", "retire"} /\ {held', copy'[1], copy'[2]} \subseteq Buf \cup {NoBuf} /\ HeldOK'
  <2>1. {held, copy[1], copy[2]} \subseteq Buf \cup {NoBuf}
    BY DEF TypeOK
  <2>2. CASE Peek
    <3>1. 1 \in Slots /\ Head(pending).buf = pending[1].buf
      BY <2>2, Domain DEF Peek, Slots
    <3>2. held' = pending[1].buf /\ cpc' = "use" /\ copy' = copy
      BY <2>2, <3>1 DEF Peek
    <3> QED BY <1>2, <2>1, <3>1, <3>2, ItemAt DEF HeldOK
  <2>3. CASE PutOff
    BY <2>1, <2>3 DEF PutOff, HeldOK
  <2>4. CASE CopyNode
    <3>1. cpc = "use" /\ cpc' = "retire" /\ held' = held
          /\ copy' = <<NodeAt(Index(held) - 1), NodeAt(Index(held) + 1)>>
      BY <2>4 DEF CopyNode
    <3>2. PICK h \in Slots : pending[h].buf = held
      BY <3>1 DEF Lists, HeldOK
    <3>3. Index(held) = h /\ h \in Int
      BY <3>2, IndexIs, Domain DEF Lists, Slots
    <3>4. NodeAt(h - 1) \in Buf \cup {NoBuf} /\ NodeAt(h + 1) \in Buf \cup {NoBuf}
      BY <3>3, NodeIs, ItemAt
    <3>5. copy' = <<NodeAt(h - 1), NodeAt(h + 1)>>
      BY <3>1, <3>3
    <3>6. copy'[1] = NodeAt(h - 1) /\ copy'[2] = NodeAt(h + 1)
      BY <3>5
    <3>7. HeldOK'
      BY <1>2, <3>1 DEF Lists, HeldOK
    <3> QED BY <2>1, <3>1, <3>4, <3>6, <3>7
  <2> QED BY <2>2, <2>3, <2>4
<1>4. TypeOK'
  BY <1>1, <1>3 DEF TypeOK, client, usb, writers, pool, history
<1>5. CopyOK'
  <2>1. CASE Peek \/ PutOff
    BY <2>1 DEF Peek, PutOff, CopyOK
  <2>2. CASE CopyNode
    <3>1. cpc = "use" /\ cpc' = "retire" /\ held' = held
          /\ copy' = <<NodeAt(Index(held) - 1), NodeAt(Index(held) + 1)>>
      BY <2>2 DEF CopyNode
    <3>2. ASSUME NEW h \in Slots, pending[h].buf = held
          PROVE  /\ copy'[1] # NoBuf => \E i \in Slots : i < h /\ pending[i].buf = copy'[1]
                 /\ copy'[2] # NoBuf => \E j \in Slots : h < j /\ pending[j].buf = copy'[2]
                 /\ copy'[1] = NodeAt(h - 1) /\ copy'[2] = NodeAt(h + 1)
      <4>1. Index(held) = h /\ h \in Int
        BY <3>2, IndexIs, Domain DEF Lists, Slots
      <4>2. copy' = <<NodeAt(h - 1), NodeAt(h + 1)>>
        BY <3>1, <4>1
      <4>3. copy'[1] = NodeAt(h - 1) /\ copy'[2] = NodeAt(h + 1)
        BY <4>2
      <4>4. copy'[1] # NoBuf => h - 1 \in Slots /\ pending[h - 1].buf = copy'[1] /\ h - 1 < h
        BY <4>1, <4>3, NodeIs
      <4>5. copy'[2] # NoBuf => h + 1 \in Slots /\ pending[h + 1].buf = copy'[2] /\ h < h + 1
        BY <4>1, <4>3, NodeIs
      <4> QED BY <4>3, <4>4, <4>5
    <3>3. \A i : NodeAt(i)' = NodeAt(i)
      BY <1>2 DEF NodeAt
    <3> QED BY <1>2, <3>1, <3>2, <3>3 DEF CopyOK
  <2> QED BY <2>1, <2>2
<1>6. ListOK' /\ HandsOK' /\ OwnersOK' /\ SeenOK'
  BY <1>1, Frames DEF Lists, writers, usb, pool, history
<1> QED BY <1>3, <1>4, <1>5, <1>6 DEF Lists

\* t is the pending list without the stretch around its item h, which is h
\* alone when the neighbours were read in time.
CutOut(t, h) ==
  \E a \in 0..(h - 1), b \in (h + 1)..(Len(pending) + 1) :
    /\ t \in Seq(Item) /\ Len(t) = a + (Len(pending) + 1 - b)
    /\ \A i \in 1..Len(t) : t[i] = pending[IF i <= a THEN i ELSE i + (b - a - 1)]
    /\ ~stale => a = h - 1 /\ b = h + 1

\* What the unlinking of the copied node leaves: the held buffer is out, and
\* nothing else unless something had been inserted beside it.
LEMMA UnlinkFacts ==
  ASSUME TypeOK, Lists, cpc = "retire", NEW h \in Slots, pending[h].buf = held,
         NEW t, t = Unlinked
  PROVE  CutOut(t, h)
<1> DEFINE n == Len(pending)
           a == IF copy[1] = NoBuf THEN 0 ELSE Index(copy[1])
           b == IF copy[2] = NoBuf THEN n + 1 ELSE Index(copy[2])
<1>1. pending \in Seq(Item) /\ n \in Nat /\ Slots = 1..n /\ h \in 1..n
  BY Domain DEF Slots
<1>2. /\ copy[1] # NoBuf => \E i \in Slots : i < h /\ pending[i].buf = copy[1]
      /\ copy[2] # NoBuf => \E j \in Slots : h < j /\ pending[j].buf = copy[2]
      /\ stale \/ (copy[1] = NodeAt(h - 1) /\ copy[2] = NodeAt(h + 1))
  BY DEF Lists, CopyOK
<1>3. a \in 0..(h - 1) /\ (~stale => a = h - 1)
  <2>1. CASE copy[1] = NoBuf
    <3>1. ~stale => h - 1 \notin Slots
      BY <1>1, <1>2, <2>1, NodeIs, ItemAt
    <3> QED BY <1>1, <2>1, <3>1
  <2>2. CASE copy[1] # NoBuf
    <3>1. PICK i \in Slots : i < h /\ pending[i].buf = copy[1]
      BY <1>2, <2>2
    <3>2. a = i
      BY <2>2, <3>1, IndexIs DEF Lists
    <3>3. ~stale => h - 1 \in Slots /\ pending[h - 1].buf = copy[1]
      BY <1>1, <1>2, <2>2, NodeIs
    <3>4. ~stale => i = h - 1
      BY <3>1, <3>3 DEF Lists, ListOK
    <3> HIDE DEF a
    <3> QED BY <1>1, <3>1, <3>2, <3>4
  <2> QED BY <2>1, <2>2
<1>4. b \in (h + 1)..(n + 1) /\ (~stale => b = h + 1)
  <2>1. CASE copy[2] = NoBuf
    <3>1. ~stale => h + 1 \notin Slots
      BY <1>1, <1>2, <2>1, NodeIs, ItemAt
    <3> QED BY <1>1, <2>1, <3>1
  <2>2. CASE copy[2] # NoBuf
    <3>1. PICK i \in Slots : h < i /\ pending[i].buf = copy[2]
      BY <1>2, <2>2
    <3>2. b = i
      BY <2>2, <3>1, IndexIs DEF Lists
    <3>3. ~stale => h + 1 \in Slots /\ pending[h + 1].buf = copy[2]
      BY <1>1, <1>2, <2>2, NodeIs
    <3>4. ~stale => i = h + 1
      BY <3>1, <3>3 DEF Lists, ListOK
    <3> HIDE DEF b
    <3> QED BY <1>1, <3>1, <3>2, <3>4
  <2> QED BY <2>1, <2>2
<1>5. t = SubSeq(pending, 1, a) \o SubSeq(pending, b, n)
  <2>1. SubSeq(pending, 1, 0) = <<>> /\ SubSeq(pending, n + 1, n) = <<>>
    BY <1>1, SubSeqEmpty
  <2> QED BY <2>1 DEF Unlinked
<1> HIDE DEF a, b
<1>6. /\ t \in Seq(Item) /\ Len(t) = a + (n + 1 - b)
      /\ \A i \in 1..Len(t) : t[i] = pending[IF i <= a THEN i ELSE i + (b - a - 1)]
  <2>1. a \in 0..n /\ b \in 1..(n + 1) /\ a < b
    BY <1>1, <1>3, <1>4
  <2> DEFINE u == SubSeq(pending, 1, a) \o SubSeq(pending, b, Len(pending))
  <2>2. /\ u \in Seq(Item) /\ Len(u) = a + (Len(pending) + 1 - b)
        /\ \A i \in 1..Len(u) : u[i] = pending[IF i <= a THEN i ELSE i + (b - a - 1)]
    BY <1>1, <2>1, Cut
  <2>3. t = u
    BY <1>5
  <2> HIDE DEF u
  <2> QED BY <2>2, <2>3
<1> QED BY <1>3, <1>4, <1>6 DEF CutOut

LEMMA RetireInv ==
  ASSUME PInv, ~caught, Retire
  PROVE  PInv'
<1> USE DEF PInv
<1>1. /\ cpc = "retire" /\ cpc' = "idle" /\ held' = NoBuf /\ copy' = NoNode
      /\ free' = free \cup {held} /\ pending' = Unlinked
      /\ UNCHANGED <<client, usb, writers, fpc, stale, caught>>
  BY DEF Retire
<1>2. silent' \in BOOLEAN /\ asleep' \subseteq Direct
  BY DEF Retire, TypeOK
<1>3. PICK h \in Slots : pending[h].buf = held
  BY <1>1 DEF Lists, HeldOK
<1>4. PICK a \in 0..(h - 1), b \in (h + 1)..(Len(pending) + 1) :
           /\ pending' \in Seq(Item) /\ Len(pending') = a + (Len(pending) + 1 - b)
           /\ \A i \in 1..Len(pending') : pending'[i] = pending[IF i <= a THEN i ELSE i + (b - a - 1)]
           /\ ~stale => a = h - 1 /\ b = h + 1
  <2>1. TypeOK /\ Lists /\ cpc = "retire"
    BY <1>1
  <2>2. CutOut(pending', h)
    BY <1>1, <1>3, <2>1, UnlinkFacts, Zenon
  <2> QED BY <2>2 DEF CutOut
<1>5. /\ Len(pending) \in Nat /\ Slots = 1..Len(pending) /\ a \in Nat /\ b \in Nat /\ h \in Nat
      /\ a < h /\ h < b /\ b <= Len(pending) + 1
  BY <1>4, Domain DEF Slots
<1>6. Slots' = 1..(a + (Len(pending) + 1 - b))
  BY <1>4 DEF Slots
<1> DEFINE K == [i \in Slots' |-> IF i <= a THEN i ELSE i + (b - a - 1)]
<1>7. /\ \A i \in Slots' : K[i] \in Slots /\ K[i] # h /\ pending'[i] = pending[K[i]]
      /\ \A i, j \in Slots' : i < j => K[i] < K[j]
      /\ \A i, j \in Slots' : K[i] = K[j] => i = j
  <2>1. \A i \in Slots' : K[i] \in Slots /\ K[i] # h
    BY <1>5, <1>6
  <2>2. \A i \in Slots' : pending'[i] = pending[K[i]]
    BY <1>4, <1>6
  <2>3. \A i, j \in Slots' : i < j => K[i] < K[j]
    BY <1>5, <1>6
  <2>4. \A i, j \in Slots' : K[i] = K[j] => i = j
    BY <1>5, <1>6
  <2> QED BY <2>1, <2>2, <2>3, <2>4
<1>8. ~stale => \A k \in Slots \ {h} : \E i \in Slots' : K[i] = k
  <2>1. ASSUME ~stale, NEW k \in Slots \ {h} PROVE \E i \in Slots' : K[i] = k
    <3>1. a = h - 1 /\ b = h + 1
      BY <1>4, <2>1
    <3>2. CASE k < h
      BY <1>5, <1>6, <3>1, <3>2
    <3>3. CASE k > h
      <4>1. k - 1 \in Slots' /\ K[k - 1] = k
        BY <1>5, <1>6, <3>1, <3>3
      <4> QED BY <4>1
    <3> QED BY <1>5, <3>2, <3>3
  <2> QED BY <2>1
<1> HIDE DEF K
<1>9. Waiting' \subseteq Waiting \ {held} /\ (~stale => Waiting' = Waiting \ {held})
  <2>1. DOMAIN pending' = Slots'
    BY <1>4 DEF Slots
  <2>2. Waiting' = {pending'[i].buf : i \in Slots'}
    BY <2>1 DEF Waiting
  <2>3. \A k \in Slots : k # h => pending[k].buf # held
    BY <1>3 DEF Lists, ListOK
  <2>4. Waiting' \subseteq Waiting \ {held}
    BY <1>7, <2>2, <2>3, WaitingIs
  <2>5. ~stale => \A k \in Slots : pending[k].buf = held \/ \E i \in Slots' : pending'[i].buf = pending[k].buf
    BY <1>3, <1>7, <1>8
  <2>6. ~stale => Waiting \ {held} \subseteq Waiting'
    BY <2>2, <2>5, WaitingIs
  <2> QED BY <2>4, <2>6
<1>10. held \in Waiting /\ held \in Buf
  BY <1>3, WaitingIs, ItemAt
<1>11. TypeOK'
  <2>1. copy'[1] = NoBuf /\ copy'[2] = NoBuf
    BY <1>1 DEF NoNode
  <2>2. free' \subseteq Buf
    BY <1>1, <1>10 DEF TypeOK
  <2>3. pending' \in Seq([buf : Buf, packet : Packet])
    BY <1>4 DEF Item
  <2> QED BY <1>1, <1>2, <2>1, <2>2, <2>3 DEF TypeOK, client, usb, writers
<1>12. ListOK'
  <2>1. \A i, j \in Slots' : pending'[i].buf = pending'[j].buf => i = j
    BY <1>7 DEF Lists, ListOK
  <2>2. \A i, j \in Slots' : i < j => pending'[i].packet.cc <= pending'[j].packet.cc
    BY <1>7 DEF Lists, ListOK
  <2> QED BY <2>1, <2>2 DEF ListOK
<1>13. OwnersOK'
  <2>1. InHand' = InHand /\ Apart' /\ stale' = stale
    BY <1>1 DEF InHand, writers, Apart, Lists, OwnersOK
  <2>2. stale' \/ free' \cup Waiting' \cup InHand' = Buf
    BY <1>1, <1>9, <1>10, <2>1 DEF Lists, OwnersOK
  <2>3. free' \cap Waiting' = {} /\ free' \cap InHand' = {} /\ InHand' \cap Waiting' = {}
    BY <1>1, <1>9, <1>10, <2>1 DEF Lists, OwnersOK
  <2> QED BY <2>1, <2>2, <2>3 DEF OwnersOK, Apart
<1>14. HandsOK' /\ SeenOK'
  BY <1>1, Frames DEF Lists, writers, usb
<1>15. HeldOK' /\ CopyOK'
  BY <1>1 DEF HeldOK, CopyOK
<1> QED BY <1>11, <1>12, <1>13, <1>14, <1>15 DEF Lists

LEMMA FlushInv ==
  ASSUME PInv, ~caught, FlushPool
  PROVE  PInv'
<1> USE DEF PInv
<1>1. /\ fpc = "idle" /\ fpc' = "usb" /\ session' = session + 1 /\ used' = {} /\ session < FlushMax
      /\ free' = free \cup Waiting /\ pending' = <<>> /\ caught' = (held # NoBuf)
      /\ UNCHANGED <<usb, writers, asleep, consumer, stale>>
  BY DEF FlushPool
<1>2. silent' \in BOOLEAN
  BY DEF FlushPool, TypeOK
<1>3. Waiting \subseteq Buf
  BY WaitingIs, ItemAt
<1>4. TypeOK'
  <2>1. session' \in 0..FlushMax /\ used' \subseteq 1..CcMax
    BY <1>1, TxPoolAssumption DEF TypeOK
  <2>2. free' \subseteq Buf /\ pending' \in Seq([buf : Buf, packet : Packet])
    BY <1>1, <1>3 DEF TypeOK
  <2>3. caught' \in BOOLEAN
    BY <1>1
  <2> QED BY <1>1, <1>2, <2>1, <2>2, <2>3 DEF TypeOK, usb, writers, consumer
<1>5. ASSUME ~caught' PROVE Lists'
  <2>0. Len(pending') = 0 /\ DOMAIN pending' = {}
    BY <1>1
  <2>1. Slots' = {} /\ Waiting' = {} /\ held' = NoBuf /\ InHand' = InHand
    <3>1. Slots' = {} /\ Waiting' = {}
      BY <2>0 DEF Slots, Waiting
    <3>2. held' = NoBuf
      BY <1>1, <1>5 DEF consumer
    <3>3. InHand' = InHand
      BY <1>1 DEF writers, InHand
    <3> QED BY <3>1, <3>2, <3>3
  <2>2. OwnersOK'
    BY <1>1, <2>1 DEF Lists, OwnersOK, writers
  <2>3. ListOK'
    BY <2>1 DEF ListOK
  <2>4. HandsOK' /\ SeenOK'
    BY <1>1, Frames DEF Lists, writers, usb, SeenOK
  <2>5. HeldOK' /\ CopyOK'
    BY <1>1, <1>5, <2>1 DEF Lists, HeldOK, CopyOK, consumer
  <2> QED BY <2>2, <2>3, <2>4, <2>5 DEF Lists
<1> QED BY <1>4, <1>5

LEMMA StepInv == PInv /\ [Next]_vars => PInv'
<1>1. ASSUME PInv, UNCHANGED vars PROVE PInv'
  <2>1. UNCHANGED <<session, used, wire, done, wpc, wpkt, wbuf, asleep, free, pending, cpc, held, copy,
                    fpc, silent, stale, caught>>
    BY <1>1 DEF vars, client, usb, writers, pool, consumer, history
  <2>2. TypeOK'
    BY <1>1, <2>1 DEF PInv, TypeOK
  <2>3. Lists => Lists'
    BY <2>1, Frames DEF Lists, writers, usb, pool, consumer, history
  <2> QED BY <1>1, <2>1, <2>2, <2>3 DEF PInv
<1>2. ASSUME PInv, ~caught, NEW b \in Buf, ClaimUsb(b) PROVE PInv'
  BY <1>2, ClaimInv DEF Writer
<1>3. ASSUME PInv, ~caught, NEW w \in Direct, NEW b \in Buf, NEW n \in 1..CcMax, ClaimDirect(w, b, n) PROVE PInv'
  <2>1. w \in Writer /\ w # "usb"
    BY TxPoolAssumption DEF Writer
  <2> QED BY <1>3, <2>1, ClaimInv
<1>4. ASSUME PInv, ~caught, NEW w \in Direct, Abort(w) PROVE PInv'
  BY <1>4, AbortInv DEF Writer
<1> QED BY <1>1, <1>2, <1>3, <1>4, ControllerInv, IngestInv, PollInv, CommitInv, LookInv, RetireInv, FlushInv DEF Next

LEMMA Invariant == Spec => []PInv
BY InitInv, StepInv, PTL DEF Spec

\* Every variable of the pool keeps its type, a step that a flush spoils included.
THEOREM PoolTypes == Spec => []TypeOK
<1>1. PInv => TypeOK
  BY DEF PInv
<1> QED BY <1>1, Invariant, PTL

\* No buffer has two owners, and none is lost, whatever claims, commits, aborts,
\* retirements and flushes do; the exceptions are an insertion beside a copied node
\* and a flush that meets another thread inside an element.
THEOREM OneOwnerEach == Spec => []OneOwner
<1>1. PInv => OneOwner
  BY CountWaiting DEF PInv, Lists, OwnersOK, OneOwner
<1> QED BY <1>1, Invariant, PTL

\* The head of the pending list is the next packet, whatever order the writers
\* commit in (rfnm_local_tx_insert_sorted).
THEOREM PacketsInOrder == Spec => []InOrder
<1>1. PInv => InOrder
  BY Domain DEF PInv, Lists, ListOK, InOrder
<1> QED BY <1>1, Invariant, PTL

\* A writer sleeps beside free buffers only when an abort or a flush put them
\* there (rfnm_handler_out wakes on the empty edge only).
THEOREM SleepersWoken == Spec => []Woken
<1>1. Init => Woken
  BY DEF Init, Woken
<1>2. ASSUME PInv, Woken, Next PROVE Woken'
  <2>1. CASE \/ \E n \in 1..CcMax : CompleteOk(n)
             \/ CompleteBad \/ CompleteDead \/ IngestPeek \/ IngestDetach \/ IngestDrop
             \/ \E w \in Writer : Commit(w)
             \/ Peek \/ PutOff \/ CopyNode \/ FlushPeek \/ FlushTake
    <3>1. UNCHANGED <<asleep, free, silent>>
      BY <2>1 DEF CompleteOk, CompleteBad, CompleteDead, IngestPeek, IngestDetach, IngestDrop, Commit,
                  Peek, PutOff, CopyNode, FlushPeek, FlushTake, history, pool
    <3> QED BY <1>2, <3>1 DEF Woken
  <2>2. CASE (\E b \in Buf : ClaimUsb(b)) \/ \E w \in Direct, b \in Buf, n \in 1..CcMax : ClaimDirect(w, b, n)
    <3>1. asleep' = asleep /\ silent' = silent /\ free' \subseteq free
      BY <2>2 DEF ClaimUsb, ClaimDirect, TakeFree, history
    <3> QED BY <1>2, <3>1 DEF Woken
  <2>3. CASE \E w \in Direct : Poll(w)
    BY <1>2, <2>3 DEF Poll, Woken, pool, history
  <2>4. CASE \E w \in Direct : Abort(w)
    BY <1>2, <2>4 DEF Abort, Woken
  <2>5. CASE Retire
    BY <1>2, <2>5 DEF Retire, Woken
  <2>6. CASE FlushPool
    <3>1. pending = <<>> => Waiting = {}
      BY DEF Waiting
    <3> QED BY <1>2, <2>6, <3>1 DEF FlushPool, Woken
  <2> QED BY <1>2, <2>1, <2>2, <2>3, <2>4, <2>5, <2>6 DEF Next
<1>3. Woken /\ UNCHANGED vars => Woken'
  BY DEF Woken, vars, pool, history
<1>4. PInv /\ Woken /\ [Next]_vars => Woken'
  BY <1>2, <1>3
<1> QED BY <1>1, <1>4, Invariant, PTL DEF Spec

-----------------------------------------------------------------------------
(***************************************************************************)
(* Division by a positive number.                                          *)
(***************************************************************************)
LEMMA DivModIs ==
  ASSUME NEW a \in Int, NEW m \in Nat \ {0}
  PROVE  /\ a \div m \in Int /\ a % m \in Int /\ 0 <= a % m /\ a % m < m
         /\ a = (a \div m) * m + (a % m)
OBVIOUS

LEMMA Distribute ==
  ASSUME NEW a \in Int, NEW b \in Int, NEW m \in Int
  PROVE  (a + b) * m = a * m + b * m /\ (a - b) * m = a * m - b * m
OBVIOUS

LEMMA ProductInt ==
  ASSUME NEW a \in Int, NEW b \in Int
  PROVE  a * b \in Int
OBVIOUS

LEMMA ProductNat ==
  ASSUME NEW a \in Nat, NEW b \in Nat
  PROVE  a * b \in Nat
OBVIOUS

LEMMA AtLeastOne ==
  ASSUME NEW a \in Int, NEW m \in Nat, a >= 1
  PROVE  a * m >= m
<1>1. (a - 1) * m >= 0
  <2>1. a - 1 \in Nat
    OBVIOUS
  <2> QED BY <2>1, ProductNat
<1>2. (a - 1) * m = a * m - m
  BY Distribute
<1> QED BY <1>1, <1>2

LEMMA Quotient ==
  ASSUME NEW a \in Int, NEW m \in Nat \ {0}, NEW q \in Int, NEW r \in Int, 0 <= r, r < m, a = q * m + r
  PROVE  a % m = r /\ a \div m = q
<1>1. (q * m + r) % m = r /\ (q * m + r) \div m = q
  OBVIOUS
<1> QED BY <1>1

\* congruent numbers less than m apart are equal
LEMMA Congruent ==
  ASSUME NEW a \in Int, NEW b \in Int, NEW m \in Nat \ {0}, a % m = b % m
  PROVE  /\ \E k \in Int : a = b + k * m
         /\ a - b < m /\ b - a < m => a = b
<1> DEFINE k == (a \div m) - (b \div m)
<1>1. k \in Int /\ a = b + k * m
  BY DivModIs, Distribute
<1> HIDE DEF k
<1>2. ASSUME a - b < m, b - a < m PROVE a = b
  <2>1. CASE k >= 1
    BY <1>1, <1>2, <2>1, AtLeastOne
  <2>2. CASE k <= -1
    <3>1. (-k) * m >= m
      BY <1>1, <2>2, AtLeastOne
    <3>2. (0 - k) * m = 0 * m - k * m
      BY <1>1, Distribute
    <3> QED BY <1>1, <1>2, <3>1, <3>2
  <2>3. CASE k = 0
    BY <1>1, <2>3
  <2> QED BY <1>1, <2>1, <2>2, <2>3
<1> QED BY <1>1, <1>2

LEMMA Shifted ==
  ASSUME NEW a \in Int, NEW k \in Int, NEW m \in Nat \ {0}
  PROVE  (a + k * m) % m = a % m /\ (a + k * m) \div m = (a \div m) + k
<1>1. PICK q \in Int, r \in Int : q = a \div m /\ r = a % m /\ 0 <= r /\ r < m /\ a = q * m + r
  BY DivModIs
<1>2. a + k * m = (q + k) * m + r
  BY <1>1, Distribute, ProductInt
<1>3. q + k \in Int /\ a + k * m \in Int
  BY <1>1, ProductInt
<1>4. (a + k * m) % m = r /\ (a + k * m) \div m = q + k
  BY <1>1, <1>2, <1>3, Quotient, Zenon
<1> QED BY <1>1, <1>4

LEMMA ShiftedMod ==
  ASSUME NEW a \in Int, NEW d \in Int, NEW m \in Nat \ {0}
  PROVE  (a + d * m) % m = a % m
BY Shifted

(***************************************************************************)
(* The ring: every tick has its place, every place its slot.               *)
(***************************************************************************)
Place(t) == (t - T0) % Lap

LEMMA RingFacts ==
  /\ N \in Nat \ {0} /\ Tps \in Nat \ {0} /\ Lap \in Nat \ {0} /\ Lap = N * Tps /\ Tps <= Lap
  /\ MaxLead \in Nat /\ 2 * MaxLead <= Lap
  /\ {T0, Ahead, MinLead, Far, Start, MaxLead, Wrap} \subseteq Nat /\ Ahead < MinLead /\ MinLead < MaxLead
  /\ \E c \in Nat : Wrap = c * Lap
<1>1. N \in Nat \ {0} /\ Tps \in Nat \ {0} /\ {T0, Ahead, MinLead, Far, Start, Wrap} \subseteq Nat
      /\ Ahead < MinLead /\ MinLead < MaxLead /\ Wrap % Lap = 0 /\ Wrap # 0
  BY TxAirAssumption
<1>2. Lap \in Nat \ {0} /\ Lap >= Tps /\ Lap = N * Tps
  <2>1. N * Tps \in Nat /\ N * Tps >= Tps
    BY <1>1, AtLeastOne, ProductNat
  <2> QED BY <1>1, <2>1 DEF Lap
<1>3. N \div 2 \in Nat /\ 2 * (N \div 2) <= N
  BY <1>1
<1>4. MaxLead \in Nat
  BY <1>1, <1>3, ProductNat DEF MaxLead
<1>5. 2 * MaxLead <= Lap
  <2>1. PICK h \in Nat, d \in Nat : h = N \div 2 /\ N = h + h + d
    <3>1. N - 2 * (N \div 2) \in Nat
      BY <1>1, <1>3
    <3> QED BY <1>1, <1>3, <3>1
  <2>2. N * Tps = h * Tps + h * Tps + d * Tps
    <3>1. (h + h + d) * Tps = (h + h) * Tps + d * Tps /\ (h + h) * Tps = h * Tps + h * Tps
      BY <1>1, <2>1, Distribute
    <3> QED BY <2>1, <3>1
  <2>3. d * Tps \in Nat /\ h * Tps \in Nat
    BY <1>1, <2>1, ProductNat
  <2> QED BY <1>2, <2>1, <2>2, <2>3 DEF MaxLead
<1>6. \E c \in Nat : Wrap = c * Lap
  <2>1. PICK c \in Int : c = Wrap \div Lap /\ Wrap = c * Lap
    <3>1. Wrap = (Wrap \div Lap) * Lap + (Wrap % Lap) /\ Wrap \div Lap \in Int
      <4>1. Wrap \in Int
        BY <1>1
      <4> QED BY <1>2, <4>1, DivModIs, Zenon
    <3>2. (Wrap \div Lap) * Lap \in Int
      BY <1>2, <3>1, ProductInt
    <3> QED BY <1>1, <3>1, <3>2
  <2>2. c >= 0
    <3>1. SUFFICES ASSUME c <= -1 PROVE FALSE
      BY <2>1
    <3>2. (0 - c) * Lap >= Lap
      BY <1>2, <2>1, <3>1, AtLeastOne
    <3>3. (0 - c) * Lap = 0 * Lap - c * Lap
      BY <1>2, <2>1, Distribute
    <3> QED BY <1>1, <1>2, <2>1, <3>2, <3>3
  <2> QED BY <2>1, <2>2
<1> QED BY <1>1, <1>2, <1>4, <1>5, <1>6

LEMMA SlotOfPlace ==
  ASSUME NEW a \in Int
  PROVE  /\ (a % Lap) \div Tps = (a \div Tps) % N /\ (a % Lap) % Tps = a % Tps
         /\ (a \div Tps) % N \in 0..(N - 1) /\ a % Lap \in 0..(Lap - 1)
<1>1. PICK q \in Int, r \in Int : q = a \div Tps /\ r = a % Tps /\ 0 <= r /\ r < Tps /\ a = q * Tps + r
  BY RingFacts, DivModIs
<1>2. PICK k \in Int, s \in Int : s = q % N /\ 0 <= s /\ s < N /\ q = k * N + s
  BY RingFacts, DivModIs, ZenonT(60)
<1>3. a = k * Lap + (s * Tps + r)
  <2>1. (k * N + s) * Tps = (k * N) * Tps + s * Tps
    BY <1>2, RingFacts, Distribute, ProductInt
  <2>2. (k * N) * Tps = k * (N * Tps)
    BY <1>2, RingFacts
  <2>3. a = (k * (N * Tps) + s * Tps) + r
    BY <1>1, <1>2, <2>1, <2>2
  <2>4. k * (N * Tps) \in Int /\ s * Tps \in Int
    BY <1>2, RingFacts, ProductInt
  <2>5. a = k * (N * Tps) + (s * Tps + r)
    BY <1>1, <2>3, <2>4
  <2> QED BY <2>5 DEF Lap
<1>4. s * Tps + r \in Int /\ 0 <= s * Tps + r /\ s * Tps + r < Lap
  <2>1. s * Tps \in Nat
    BY <1>2, RingFacts, ProductNat
  <2>2. (N - s) * Tps >= Tps /\ (N - s) * Tps = N * Tps - s * Tps
    BY <1>2, RingFacts, AtLeastOne, Distribute
  <2> QED BY <1>1, <2>1, <2>2, RingFacts
<1> DEFINE x == s * Tps + r
<1>5. a % Lap = x
  <2> HIDE DEF x
  <2>1. Lap \in Nat \ {0}
    BY RingFacts
  <2> QED BY <1>2, <1>3, <1>4, <2>1, Quotient, Zenon DEF x
<1>6. x \div Tps = s /\ x % Tps = r
  <2>1. Tps \in Nat \ {0}
    BY RingFacts
  <2>2. x \in Int /\ x = s * Tps + r
    BY <1>4
  <2> HIDE DEF x
  <2> QED BY <1>1, <1>2, <2>1, <2>2, Quotient, Zenon
<1>7. s \in 0..(N - 1) /\ x \in 0..(Lap - 1)
  BY <1>2, <1>4, RingFacts
<1> HIDE DEF x
<1> QED BY <1>1, <1>2, <1>5, <1>6, <1>7

LEMMA PlaceIs ==
  ASSUME NEW t \in Int
  PROVE  /\ Place(t) \in 0..(Lap - 1) /\ Place(t) % Tps = (t - T0) % Tps
         /\ Slot(Place(t)) = ((t - T0) \div Tps) % N /\ Slot(Place(t)) \in 0..(N - 1)
<1>1. t - T0 \in Int
  BY RingFacts
<1> QED BY <1>1, SlotOfPlace DEF Place, Slot

LEMMA SamePlace ==
  ASSUME NEW t \in Int, NEW u \in Int, Place(t) = Place(u), t - u < Lap, u - t < Lap
  PROVE  t = u
<1> DEFINE a == t - T0
           b == u - T0
<1>1. a \in Int /\ b \in Int /\ a - b = t - u /\ b - a = u - t /\ Lap \in Nat \ {0} /\ T0 \in Nat
  BY RingFacts
<1>2. a % Lap = b % Lap /\ a - b < Lap /\ b - a < Lap
  BY <1>1 DEF Place
<1> HIDE DEF a, b
<1>3. a = b
  BY <1>1, <1>2, Congruent
<1> QED BY <1>1, <1>3 DEF a, b

\* e is on the slot grid
Aligned(e) == (e - T0) % Tps = 0

LEMMA AlignedIs ==
  ASSUME NEW e \in Int, Aligned(e)
  PROVE  e = T0 + ((e - T0) \div Tps) * Tps /\ (e - T0) \div Tps \in Int
<1> DEFINE a == e - T0
<1>1. a \in Int /\ Tps \in Nat \ {0} /\ T0 \in Nat
  BY RingFacts
<1>2. a % Tps = 0
  BY DEF Aligned
<1> HIDE DEF a
<1>3. a = (a \div Tps) * Tps + (a % Tps) /\ a \div Tps \in Int
  BY <1>1, DivModIs
<1>4. (a \div Tps) * Tps \in Int
  BY <1>1, <1>3, ProductInt
<1> QED BY <1>1, <1>2, <1>3, <1>4 DEF a

\* the ticks that fall in e's slot
LEMMA SameSlot ==
  ASSUME NEW e \in Int, Aligned(e), NEW t \in Int, Slot(Place(t)) = Slot(Place(e))
  PROVE  \E k \in Int, j \in 0..(Tps - 1) : t = e + j + k * Lap
<1>1. PICK q \in Int, r \in Int : q = (t - T0) \div Tps /\ 0 <= r /\ r < Tps /\ t - T0 = q * Tps + r
  <2>1. t - T0 \in Int /\ Tps \in Nat \ {0}
    BY RingFacts
  <2> QED BY <2>1, DivModIs
<1>2. PICK qe \in Int : qe = (e - T0) \div Tps /\ e = T0 + qe * Tps
  BY AlignedIs
<1>3. q % N = qe % N
  BY <1>1, <1>2, PlaceIs
<1>4. PICK k \in Int : q = qe + k * N
  <2>1. N \in Nat \ {0}
    BY RingFacts
  <2> QED BY <1>3, <2>1, Congruent, ZenonT(60)
<1>5. q * Tps = qe * Tps + k * Lap
  <2>1. q * Tps = qe * Tps + (k * N) * Tps
    BY <1>4, RingFacts, Distribute, ProductInt
  <2>2. (k * N) * Tps = k * (N * Tps)
    BY RingFacts
  <2> QED BY <2>1, <2>2 DEF Lap
<1>6. q * Tps \in Int /\ qe * Tps \in Int /\ k * Lap \in Int
  BY RingFacts, ProductInt
<1>7. t = e + r + k * Lap
  BY <1>1, <1>2, <1>5, <1>6, RingFacts
<1>8. r \in 0..(Tps - 1)
  BY <1>1, RingFacts
<1> QED BY <1>7, <1>8

\* a slot's ticks, and where the m-th slot behind e begins
LEMMA SlotsAhead ==
  ASSUME NEW e \in Int, Aligned(e), NEW m \in Int
  PROVE  /\ m * Tps \in Int /\ Aligned(e + m * Tps)
         /\ Slot(Place(e + m * Tps)) = (Slot(Place(e)) + m) % N
         /\ \A t \in e..(e + Tps - 1) : Slot(Place(t)) = Slot(Place(e))
<1>1. Tps \in Nat \ {0} /\ N \in Nat \ {0} /\ T0 \in Nat /\ m * Tps \in Int
  BY RingFacts, ProductInt
<1>2. PICK a \in Int : a = e - T0 /\ a % Tps = 0 /\ a = (a \div Tps) * Tps
  BY <1>1, AlignedIs, DivModIs DEF Aligned
<1>3. PICK q \in Int : q = a \div Tps /\ a = q * Tps
  BY <1>1, <1>2, DivModIs
<1>4. (a + m * Tps) % Tps = 0 /\ (a + m * Tps) \div Tps = q + m
  <2>1. (a + m * Tps) % Tps = a % Tps /\ (a + m * Tps) \div Tps = (a \div Tps) + m
    BY <1>1, Shifted, Zenon
  <2> QED BY <1>2, <1>3, <2>1
<1>5. PICK u \in Int : u = e + m * Tps
  BY <1>1
<1>6. u - T0 = a + m * Tps
  BY <1>1, <1>2, <1>5
<1>7. /\ Aligned(u) /\ Slot(Place(e)) = q % N /\ Slot(Place(u)) = (q + m) % N
  <2>1. (u - T0) % Tps = 0 /\ (u - T0) \div Tps = q + m
    BY <1>4, <1>6
  <2>2. Slot(Place(e)) = ((e - T0) \div Tps) % N /\ Slot(Place(u)) = ((u - T0) \div Tps) % N
    BY PlaceIs
  <2> QED BY <1>2, <1>3, <2>1, <2>2, Zenon DEF Aligned
<1>8. (q + m) % N = ((q % N) + m) % N
  <2>1. PICK k \in Int, s \in Int : s = q % N /\ q = k * N + s
    BY <1>1, DivModIs, SMTT(40)
  <2>2. ((s + m) + k * N) % N = (s + m) % N
    <3>1. s + m \in Int
      BY <2>1
    <3> QED BY <1>1, <3>1, Shifted, ZenonT(60)
  <2>3. (s + m) + k * N = q + m
    BY <1>1, <2>1, ProductInt
  <2> QED BY <2>1, <2>2, <2>3
<1>9. ASSUME NEW t \in e..(e + Tps - 1) PROVE Slot(Place(t)) = Slot(Place(e))
  <2>1. PICK r \in Int : r = t - e /\ 0 <= r /\ r < Tps /\ t \in Int
    BY <1>1
  <2>2. t - T0 = q * Tps + r /\ t - T0 \in Int
    <3>1. t - T0 = a + r /\ t - T0 \in Int
      BY <1>1, <1>2, <2>1
    <3> QED BY <1>3, <3>1, Zenon
  <2>3. (t - T0) \div Tps = q
    BY <1>1, <2>1, <2>2, Quotient, Zenon
  <2> QED BY <1>7, <2>1, <2>3, PlaceIs
<1> QED BY <1>1, <1>5, <1>7, <1>8, <1>9

(***************************************************************************)
(* Where a packet's samples go.                                            *)
(***************************************************************************)
LEMMA PacketPlace ==
  ASSUME NEW p, p.stamp \in Nat
  PROVE  BaseSlot(p) = Slot(Place(p.stamp)) /\ Pad(p) = (p.stamp - T0) % Tps
<1> DEFINE b == p.stamp - T0
<1>1. b \in Int /\ Wrap \in Nat \ {0} /\ Lap \in Nat \ {0}
  BY RingFacts, TxAirAssumption
<1>2. PICK c \in Nat : Wrap = c * Lap
  BY RingFacts
<1> HIDE DEF b
<1>3. PICK d \in Int, o \in Int : d = b \div Wrap /\ o = b % Wrap /\ b = d * Wrap + o
  BY <1>1, DivModIs
<1>4. b = o + (d * c) * Lap
  <2>1. d * (c * Lap) = (d * c) * Lap
    BY <1>1
  <2>2. d * Wrap = (d * c) * Lap
    BY <1>2, <2>1
  <2>3. (d * c) * Lap \in Int
    BY <1>1, ProductInt
  <2> QED BY <1>3, <2>2, <2>3
<1>5. b % Lap = o % Lap
  <2>1. d * c \in Int
    BY ProductInt
  <2> QED BY <1>1, <1>4, <2>1, Shifted
<1>6. (o \div Tps) % N = (b \div Tps) % N /\ o % Tps = b % Tps
  BY <1>1, <1>5, SlotOfPlace
<1>7. Off(p) = o
  BY <1>3 DEF Off, b
<1>8. p.stamp \in Int
  OBVIOUS
<1> QED BY <1>6, <1>7, <1>8, PlaceIs DEF b, BaseSlot, Pad

LEMMA Monotone ==
  ASSUME NEW a \in Int, NEW b \in Int, NEW m \in Nat, a <= b
  PROVE  a * m <= b * m /\ a * m \in Int /\ b * m \in Int
<1>1. b - a \in Nat
  OBVIOUS
<1>2. (b - a) * m \in Nat /\ (b - a) * m = b * m - a * m
  BY <1>1, ProductNat, Distribute
<1>3. a * m \in Int /\ b * m \in Int
  BY ProductInt
<1> QED BY <1>2, <1>3

\* Which tick behind b (its slot's beginning included) has the place x.
LEMMA Cell ==
  ASSUME NEW b \in Int, NEW x \in 0..(Lap - 1)
  PROVE  \E w \in Int, i \in Int :
           /\ w = ((x \div Tps) - ((b \div Tps) % N)) % N /\ 0 <= w
           /\ i = w * Tps + (x % Tps) - (b % Tps)
           /\ (b + i) % Lap = x /\ 0 <= i + (b % Tps) /\ i + (b % Tps) < Lap
<1>1. N \in Nat \ {0} /\ Tps \in Nat \ {0} /\ Lap \in Nat \ {0} /\ x \in Int
  BY RingFacts
<1>2. PICK q \in Int, P \in Int : q = b \div Tps /\ P = b % Tps /\ 0 <= P /\ P < Tps /\ b = q * Tps + P
  BY <1>1, DivModIs, Zenon
<1>3. PICK k \in Int, B \in Int : B = q % N /\ q = k * N + B
  BY <1>1, DivModIs, Zenon
<1>4. PICK s \in Int, r \in Int : s = x \div Tps /\ r = x % Tps /\ 0 <= r /\ r < Tps /\ x = s * Tps + r
  BY <1>1, DivModIs, ZenonT(60)
<1>5. PICK w \in Int, j \in Int : w = (s - B) % N /\ 0 <= w /\ w < N /\ s - B = j * N + w
  <2>1. s - B \in Int
    OBVIOUS
  <2> QED BY <1>1, <2>1, DivModIs, Zenon
<1>6. PICK W \in Int, Q \in Int, S \in Int : W = w * Tps /\ Q = q * Tps /\ S = s * Tps
  <2>1. w * Tps \in Int /\ q * Tps \in Int /\ s * Tps \in Int
    BY <1>1, ProductInt
  <2> QED BY <2>1
<1>7. PICK i \in Int : i = W + r - P
  OBVIOUS
<1>8. 0 <= i + P /\ i + P < Lap
  <2>1. 0 * Tps <= w * Tps /\ w * Tps <= (N - 1) * Tps
    <3>1. 0 <= w /\ w <= N - 1 /\ N - 1 \in Int /\ 0 \in Int /\ Tps \in Nat
      BY <1>1, <1>5
    <3> QED BY <3>1, Monotone, Zenon
  <2>2. (N - 1) * Tps = N * Tps - 1 * Tps
    BY <1>1, Distribute
  <2>3. 1 * Tps = Tps /\ 0 * Tps = 0 /\ N * Tps = Lap
    BY <1>1, RingFacts
  <2>4. 0 <= W /\ W <= Lap - Tps
    BY <1>6, <2>1, <2>2, <2>3
  <2>5. 0 <= r /\ r < Tps /\ i = W + r - P
    BY <1>4, <1>7
  <2> QED BY <1>1, <2>4, <2>5
<1>9. (b + i) % Lap = x
  <2>1. PICK d \in Int : d = k - j
    OBVIOUS
  <2>2. q + w = s + d * N
    <3>1. PICK kN \in Int, jN \in Int : kN = k * N /\ jN = j * N
      BY <1>1, ProductInt
    <3>2. (k - j) * N = k * N - j * N
      BY <1>1, Distribute
    <3>3. q = kN + B /\ s - B = jN + w /\ d * N = kN - jN
      BY <1>3, <1>5, <2>1, <3>1, <3>2
    <3> QED BY <3>3
  <2>3. (q + w) * Tps = Q + W
    BY <1>1, <1>6, Distribute
  <2>4. PICK D \in Int : D = d * Lap
    BY <1>1, ProductInt
  <2>5. (s + d * N) * Tps = S + D
    <3>1. d * N \in Int
      BY <1>1, ProductInt
    <3>2. (s + d * N) * Tps = s * Tps + (d * N) * Tps
      BY <1>1, <3>1, Distribute
    <3>3. (d * N) * Tps = d * (N * Tps)
      BY <1>1
    <3>4. d * (N * Tps) = D
      BY <2>4 DEF Lap
    <3> QED BY <1>6, <3>2, <3>3, <3>4
  <2>6. Q + W = S + D
    BY <2>2, <2>3, <2>5
  <2>7. b + i = x + D
    <3>1. b = Q + P /\ x = S + r
      BY <1>2, <1>4, <1>6
    <3> QED BY <1>7, <2>6, <3>1
  <2>8. (x + d * Lap) % Lap = x % Lap
    <3>1. d \in Int /\ Lap \in Nat \ {0} /\ x \in Int
      BY <1>1
    <3> QED BY <3>1, ShiftedMod, ZenonT(60)
  <2>9. x % Lap = x
    BY <1>1
  <2> QED BY <2>4, <2>7, <2>8, <2>9
<1> QED BY <1>2, <1>3, <1>4, <1>5, <1>6, <1>7, <1>8, <1>9

\* The slots that m of them need when they begin P ticks inside the first.
LEMMA Covers ==
  ASSUME NEW P \in Nat, P < Tps, NEW m \in Nat, NEW w \in Nat, NEW r \in Nat, r < Tps
  PROVE  LET S == (P + m * Tps + Tps - 1) \div Tps
         IN  /\ S \in Int
             /\ w * Tps + r - P < m * Tps => w < S
             /\ P = 0 /\ m * Tps <= w * Tps + r => S <= w
<1>1. Tps \in Nat \ {0}
  BY RingFacts
<1>2. PICK M \in Nat, W \in Nat : M = m * Tps /\ W = w * Tps
  BY <1>1, ProductNat
<1>3. PICK A \in Int : A = P + M + Tps - 1
  BY <1>1
<1>4. PICK S \in Int, e \in Int : S = A \div Tps /\ A = S * Tps + e /\ e < Tps
  BY <1>1, DivModIs, Zenon
<1>5. PICK T \in Int : T = S * Tps
  BY <1>1, ProductInt
<1>6. P + M <= T
  <2>1. A = T + e /\ e < Tps
    BY <1>4, <1>5
  <2> QED BY <1>1, <1>3, <2>1
<1>7. ASSUME W + r - P < M, S <= w PROVE FALSE
  <2>1. S * Tps <= w * Tps
    <3>1. Tps \in Nat /\ w \in Int
      BY <1>1
    <3> QED BY <1>7, <3>1, Monotone, Zenon
  <2> QED BY <1>2, <1>5, <1>6, <1>7, <2>1
<1>8. ASSUME P = 0, M <= W + r PROVE S <= w
  <2>1. S = m
    <3>1. A = m * Tps + (Tps - 1) /\ Tps - 1 \in Int /\ 0 <= Tps - 1 /\ Tps - 1 < Tps /\ m \in Int
      BY <1>1, <1>2, <1>3, <1>8
    <3>2. A \div Tps = m
      BY <1>1, <3>1, Quotient, Zenon
    <3> QED BY <1>4, <3>2
  <2>2. SUFFICES ASSUME w <= m - 1 PROVE FALSE
    BY <2>1
  <2>3. w * Tps <= (m - 1) * Tps
    <3>1. Tps \in Nat /\ w \in Int /\ m - 1 \in Int
      BY <1>1
    <3> QED BY <2>2, <3>1, Monotone, Zenon
  <2>4. (m - 1) * Tps = m * Tps - 1 * Tps /\ 1 * Tps = Tps
    BY <1>1, Distribute
  <2>5. W <= M - Tps
    BY <1>2, <2>3, <2>4
  <2> QED BY <1>1, <1>8, <2>5
<1>9. S = (P + m * Tps + Tps - 1) \div Tps
  BY <1>2, <1>3, <1>4
<1> QED BY <1>2, <1>4, <1>7, <1>8, <1>9

\* the place x of the ring gets the sample v of the packet, or none
LEMMA WrittenIs ==
  ASSUME NEW p, p.stamp \in Nat, p.multi \in Multi, DOMAIN ring = 0..(Lap - 1), NEW x \in 0..(Lap - 1)
  PROVE  \E v \in Int :
           /\ Place(v) = x /\ p.stamp - Pad(p) <= v /\ v < p.stamp - Pad(p) + Lap
           /\ v \in Content(p) => Written(p)[x] = v
           /\ v \notin Content(p) => Written(p)[x] \in {ring[x], Silence}
           /\ v \notin Content(p) /\ Pad(p) = 0 => Written(p)[x] = ring[x]
<1>1. N \in Nat \ {0} /\ Tps \in Nat \ {0} /\ Lap \in Nat \ {0} /\ T0 \in Nat
  BY RingFacts
<1>2. PICK b \in Int : b = p.stamp - T0
  BY <1>1
<1>3. /\ BaseSlot(p) = (b \div Tps) % N
      /\ Pad(p) = b % Tps
  <2>1. p.stamp \in Int
    OBVIOUS
  <2>2. Slot(Place(p.stamp)) = ((p.stamp - T0) \div Tps) % N
    BY <2>1, PlaceIs
  <2> QED BY <1>2, <2>2, PacketPlace
<1>4. PICK w \in Int, i \in Int :
        /\ w = ((x \div Tps) - BaseSlot(p)) % N /\ 0 <= w
        /\ i = w * Tps + (x % Tps) - Pad(p)
        /\ (b + i) % Lap = x /\ 0 <= i + Pad(p) /\ i + Pad(p) < Lap
  <2>1. PICK w \in Int, i \in Int :
           /\ w = ((x \div Tps) - ((b \div Tps) % N)) % N /\ 0 <= w
           /\ i = w * Tps + (x % Tps) - (b % Tps)
           /\ (b + i) % Lap = x /\ 0 <= i + (b % Tps) /\ i + (b % Tps) < Lap
    BY Cell, Zenon
  <2>2. /\ w = ((x \div Tps) - BaseSlot(p)) % N
        /\ i = w * Tps + (x % Tps) - Pad(p)
        /\ 0 <= i + Pad(p) /\ i + Pad(p) < Lap
    BY <1>3, <2>1, Zenon
  <2> QED BY <2>1, <2>2, Zenon
<1>5. Pad(p) \in Nat /\ Pad(p) < Tps
  BY <1>1, <1>3, DivModIs
<1>6. x % Tps \in Nat /\ x % Tps < Tps
  BY <1>1, DivModIs
<1>7. p.multi \in Nat /\ p.multi * Tps \in Nat
  <2>1. p.multi \in Nat
    <3>1. p.multi \in 1..(N \div 2)
      BY TxAirAssumption, Zenon
    <3> QED BY <3>1
  <2> QED BY <1>1, <2>1, ProductNat
<1>8. /\ Span(p) \in Int
      /\ i < p.multi * Tps => w < Span(p)
      /\ Pad(p) = 0 /\ p.multi * Tps <= w * Tps + (x % Tps) => Span(p) <= w
  <2>1. w \in Nat
    BY <1>4
  <2> QED BY <1>4, <1>5, <1>6, <1>7, <2>1, Covers, Zenon DEF Span
<1>9. Written(p)[x] = IF w >= Span(p) THEN ring[x]
                      ELSE IF i \in 0..(p.multi * Tps - 1) THEN p.stamp + i ELSE Silence
  <2>1. Written(p)[x] =
          IF (Slot(x) - BaseSlot(p)) % N >= Span(p) THEN ring[x]
          ELSE IF ((Slot(x) - BaseSlot(p)) % N) * Tps + (x % Tps) - Pad(p) \in 0..(p.multi * Tps - 1)
               THEN p.stamp + (((Slot(x) - BaseSlot(p)) % N) * Tps + (x % Tps) - Pad(p))
               ELSE Silence
    BY Zenon DEF Written
  <2>2. (Slot(x) - BaseSlot(p)) % N = w
    BY <1>4 DEF Slot
  <2> QED BY <1>4, <2>1, <2>2, Zenon
<1>10. PICK M \in Nat, P \in Nat, S \in Int, c \in Nat, W \in Int :
         M = p.multi * Tps /\ P = Pad(p) /\ S = Span(p) /\ c = p.stamp /\ W = w * Tps + (x % Tps)
  <2>1. w * Tps \in Int
    BY <1>1, ProductInt
  <2> QED BY <1>5, <1>6, <1>7, <1>8, <2>1, SMTT(40)
<1>11. PICK v \in Int : v = c + i
  OBVIOUS
<1>12. v \in Content(p) <=> i \in 0..(M - 1)
  <2>1. Content(p) = c..(c + M - 1)
    BY <1>10, Zenon DEF Content
  <2> QED BY <1>11, <2>1
<1>13. i = W - P /\ 0 <= i + P /\ i + P < Lap
  <2>1. PICK y \in Int, z \in Int : y = w * Tps /\ z = x % Tps
    BY <1>1, <1>6, ProductInt
  <2>2. i = y + (z - P) /\ W = y + z
    BY <1>4, <1>10, <2>1, Zenon
  <2>3. Lap \in Nat
    BY <1>1
  <2>4. 0 <= i + P /\ i + P < Lap
    BY <1>4, <1>10, Zenon
  <2>5. i = W - P
    BY <2>2
  <2> QED BY <2>4, <2>5
<1>14. /\ Written(p)[x] = IF w >= S THEN ring[x] ELSE IF i \in 0..(M - 1) THEN v ELSE Silence
       /\ i < M => w < S
       /\ P = 0 /\ M <= W => S <= w
  BY <1>8, <1>9, <1>10, <1>11
<1>15. Place(v) = x
  <2>1. b = c - T0 /\ v = c + i
    BY <1>2, <1>10, <1>11, Zenon
  <2>2. v - T0 = b + i
    BY <1>1, <2>1
  <2> QED BY <1>4, <2>2 DEF Place
<1>16. c - P <= v /\ v < c - P + Lap
  BY <1>1, <1>11, <1>13
<1>17. v \in Content(p) => Written(p)[x] = v
  BY <1>12, <1>14
<1>18. v \notin Content(p) => Written(p)[x] \in {ring[x], Silence}
  BY <1>12, <1>14
<1>19. v \notin Content(p) /\ P = 0 => Written(p)[x] = ring[x]
  BY <1>12, <1>13, <1>14
<1> QED BY <1>10, <1>15, <1>16, <1>17, <1>18, <1>19

(***************************************************************************)
(* The invariant.  The driver sees a stamp modulo Wrap: what it does is    *)
(* right as long as the packet it judges is less than a wrap away.         *)
(***************************************************************************)
Told(p) == p.stamp < now + Wrap /\ now + MaxLead < p.stamp + Wrap
InReach == queue # <<>> /\ judged = -1 => Told(Head(queue))

PacketRec == [stamp : Nat, multi : Multi, eob : BOOLEAN]
EndOf(p) == p.stamp + p.multi * Tps
Ends(w) == w.open + w.slots * Tps

\* the packets of the queue follow each other
Queued == \A i \in 1..Len(queue) :
            /\ EndOf(queue[i]) <= feed
            /\ \A j \in 1..Len(queue) : i < j => EndOf(queue[i]) <= queue[j].stamp

\* what was good when it was judged still is, within the margin of the minimum lead
JudgedOK == judged # -1 => judged <= now /\ now - judged < MinLead - Ahead
                           /\ Head(queue).stamp - judged \in MinLead..MaxLead

\* everything still to be placed lies at x or behind it
Coming(x) == x <= feed /\ \A i \in 1..Len(queue) : x <= queue[i].stamp

Past == /\ \A t \in promised : Coming(t + 1)
        /\ \A t \in aired : t <= now + Ahead

\* A window ends where its next slot begins; the gap before its last packet is a
\* number of laps.  In a window of this session all up to its end was promised.
Live(w) == w.active /\ ~w.old
Sound(w, pr) ==
  /\ w.active => /\ Windowed /\ Aligned(w.open) /\ w.next = Slot(Place(Ends(w)))
                 /\ w.jump >= 0 /\ w.jump % Lap = 0 /\ Ends(w) <= now + Lap
  /\ Live(w) => /\ kind = "timed" /\ \A t \in pr : t < Ends(w) + w.jump
                /\ w.jump = 0 => w.open .. (Ends(w) - 1) \subseteq pr
                /\ w.jump > 0 => Ends(w) <= now

WinOK == Sound(win, promised) /\ (Live(win) => Coming(Ends(win) + win.jump))

AInv == ATypeOK /\ Queued /\ JudgedOK /\ Past /\ WinOK /\ NeverEarly /\ PlacedAirs

LEMMA AirInit == AInit => AInv
<1> SUFFICES ASSUME AInit PROVE AInv
  OBVIOUS
<1>1. N \in Nat \ {0} /\ Tps \in Nat \ {0} /\ Lap \in Nat \ {0} /\ {T0, Start, MinLead} \subseteq Nat
      /\ {TimeMax, PktMax, FlushCap} \subseteq Nat
  BY RingFacts, TxAirAssumption
<1>2. ATypeOK
  <2>1. win \in [active : BOOLEAN, open : Nat, first : 0..(N - 1), next : 0..(N - 1), slots : Nat, jump : Nat, old : BOOLEAN]
    BY <1>1 DEF AInit, NoWin
  <2>2. ring \in [0..(Lap - 1) -> {Silence} \cup Nat]
    BY DEF AInit
  <2>3. queue \in Seq([stamp : Nat, multi : Multi, eob : BOOLEAN])
    BY DEF AInit
  <2> QED BY <1>1, <2>1, <2>2, <2>3, SMTT(40) DEF AInit, ATypeOK
<1>3. Queued /\ JudgedOK /\ Past
  BY DEF AInit, Queued, JudgedOK, Past
<1>4. WinOK
  BY DEF AInit, WinOK, Sound, Live, NoWin
<1>5. NeverEarly /\ PlacedAirs
  BY DEF AInit, NeverEarly, PlacedAirs
<1> QED BY <1>2, <1>3, <1>4, <1>5 DEF AInv

LEMMA EndOfIs ==
  ASSUME NEW p \in PacketRec
  PROVE  /\ p.stamp \in Nat /\ p.multi \in Multi /\ p.multi \in Nat \ {0} /\ p.multi * Tps \in Nat
         /\ EndOf(p) \in Nat /\ EndOf(p) = p.stamp + p.multi * Tps
         /\ p.multi * Tps <= MaxLead /\ p.multi * Tps > 0
         /\ Content(p) = p.stamp..(EndOf(p) - 1)
<1>1. p.stamp \in Nat /\ p.multi \in Multi /\ p.multi \in 1..(N \div 2)
  BY TxAirAssumption DEF PacketRec
<1>2. Tps \in Nat \ {0} /\ N \div 2 \in Int
  BY RingFacts
<1>3. p.multi \in Nat \ {0} /\ p.multi <= N \div 2 /\ p.multi \in Int
  BY <1>1, <1>2
<1>4. p.multi * Tps \in Nat
  BY <1>2, <1>3, ProductNat
<1>5. p.multi * Tps <= MaxLead
  BY <1>2, <1>3, Monotone DEF MaxLead
<1>6. p.multi * Tps >= Tps
  BY <1>2, <1>3, AtLeastOne
<1>7. PICK M \in Nat : M = p.multi * Tps
  BY <1>4
<1>8. EndOf(p) = p.stamp + M /\ Content(p) = p.stamp..(p.stamp + M - 1)
  BY <1>7, Zenon DEF EndOf, Content
<1>9. p.multi * Tps > 0 /\ EndOf(p) \in Nat /\ Content(p) = p.stamp..(EndOf(p) - 1)
  <2>1. M >= Tps
    BY <1>6, <1>7, Zenon
  <2>2. PICK c \in Nat, e \in Nat : c = p.stamp /\ e = EndOf(p) /\ e = c + M
    BY <1>1, <1>8
  <2>3. M > 0
    BY <1>2, <2>1
  <2>4. Content(p) = c..(c + M - 1)
    BY <1>8, <2>2, Zenon
  <2>5. c..(c + M - 1) = c..(e - 1)
    BY <2>2
  <2> QED BY <1>7, <2>2, <2>3, <2>4, <2>5, Zenon
<1> QED BY <1>1, <1>3, <1>4, <1>5, <1>9 DEF EndOf

\* the packet that was judged
LEMMA JudgedIs ==
  ASSUME AInv, judged # -1, NEW p, p = Head(queue)
  PROVE  /\ p \in PacketRec /\ queue # <<>>
         /\ now + Ahead < p.stamp /\ p.stamp <= now + MaxLead /\ EndOf(p) <= now + Lap
         /\ \A t \in promised : t < p.stamp
         /\ Live(win) => Ends(win) + win.jump <= p.stamp
         /\ Pad(p) \in 0..(Tps - 1) /\ (Pad(p) = 0 <=> Aligned(p.stamp)) /\ BaseSlot(p) = Slot(Place(p.stamp))
<1>1. queue # <<>> /\ p = queue[1] /\ 1 \in 1..Len(queue) /\ p \in PacketRec
  <2>1. queue \in Seq(PacketRec) /\ queue # <<>>
    BY DEF AInv, ATypeOK, PacketRec
  <2> QED BY <2>1
<1>2. now \in Nat /\ judged \in Nat /\ {Ahead, MinLead, MaxLead, Start} \subseteq Nat
  <2>1. {Ahead, MinLead, MaxLead, Start} \subseteq Nat /\ Start + TimeMax \in Nat
    BY RingFacts, TxAirAssumption
  <2>2. judged \in Nat /\ now \in Start..(Start + TimeMax)
    BY DEF AInv, ATypeOK
  <2> QED BY <2>1, <2>2
<1>3. p.stamp \in Nat /\ judged <= now /\ now - judged < MinLead - Ahead /\ p.stamp - judged \in MinLead..MaxLead
  BY <1>1, EndOfIs DEF AInv, JudgedOK
<1>4. now + Ahead < p.stamp /\ p.stamp <= now + MaxLead
  BY <1>2, <1>3
<1>5. EndOf(p) <= now + Lap
  <2>1. EndOf(p) = p.stamp + p.multi * Tps /\ p.multi * Tps \in Nat /\ p.multi * Tps <= MaxLead
    BY <1>1, EndOfIs
  <2>2. PICK M \in Nat : M = p.multi * Tps
    BY <2>1
  <2> QED BY <1>2, <1>3, <1>4, <2>1, <2>2, RingFacts
<1>6. ASSUME NEW t \in promised PROVE t < p.stamp
  <2>1. t + 1 <= p.stamp /\ t \in Nat
    BY <1>1 DEF AInv, Past, Coming, ATypeOK
  <2> QED BY <1>3, <2>1
<1>7. Live(win) => Ends(win) + win.jump <= p.stamp
  BY <1>1 DEF AInv, WinOK, Coming
<1>8. Pad(p) = (p.stamp - T0) % Tps /\ BaseSlot(p) = Slot(Place(p.stamp))
  BY <1>3, PacketPlace
<1>9. Pad(p) \in 0..(Tps - 1)
  <2>1. p.stamp - T0 \in Int /\ Tps \in Nat \ {0}
    BY <1>3, RingFacts
  <2> QED BY <1>8, <2>1, DivModIs
<1> QED BY <1>1, <1>4, <1>5, <1>6, <1>7, <1>8, <1>9 DEF Aligned

(***************************************************************************)
(* The judge.                                                              *)
(***************************************************************************)

\* a stamp within reach that is not far off is extended to what the client meant
LEMMA ExtendIs ==
  ASSUME NEW p \in PacketRec, now \in Nat, Told(p), Verdict(p) = "good"
  PROVE  p.stamp - now \in MinLead..MaxLead
<1>1. Wrap \in Nat \ {0} /\ {MinLead, MaxLead, Far} \subseteq Nat /\ MinLead < MaxLead /\ p.stamp \in Nat
  BY RingFacts, TxAirAssumption, EndOfIs
<1>2. PICK E \in Int, k \in Int : E = Extend(p.stamp) /\ E = p.stamp + k * Wrap
  <2>1. PICK d \in Int, r \in Int : d = now \div Wrap /\ r = p.stamp % Wrap
    BY <1>1, DivModIs
  <2>2. PICK q \in Int, Q \in Int : q = p.stamp \div Wrap /\ Q = q * Wrap /\ p.stamp = Q + r
    <3>1. PICK q \in Int : q = p.stamp \div Wrap /\ p.stamp = q * Wrap + (p.stamp % Wrap)
      <4>1. p.stamp \in Int
        BY <1>1
      <4> QED BY <1>1, <4>1, DivModIs, Zenon
    <3>2. q * Wrap \in Int
      BY <1>1, ProductInt
    <3> QED BY <2>1, <3>1, <3>2, Zenon
  <2>3. PICK D \in Int : D = d * Wrap
    BY <1>1, ProductInt
  <2>4. (d - q) * Wrap = D - Q /\ (d - q + 1) * Wrap = D - Q + Wrap /\ ((d - q) - 1) * Wrap = (D - Q) - Wrap
    <3>1. (d - q) * Wrap = d * Wrap - q * Wrap
      BY <1>1, Distribute
    <3>2. ((d - q) + 1) * Wrap = (d - q) * Wrap + 1 * Wrap /\ ((d - q) - 1) * Wrap = (d - q) * Wrap - 1 * Wrap
      BY <1>1, Distribute
    <3>3. 1 * Wrap = Wrap
      BY <1>1
    <3> QED BY <2>2, <2>3, <3>1, <3>2, <3>3
  <2>5. Extend(p.stamp) \in {D + r, (D + r) - Wrap, (D + r) + Wrap}
    <3>1. (now \div Wrap) * Wrap + (p.stamp % Wrap) = D + r
      BY <2>1, <2>3, Zenon
    <3> QED BY <3>1, Zenon DEF Extend
  <2>6. D + r = p.stamp + (D - Q)
    BY <2>2, <2>3
  <2>7. CASE Extend(p.stamp) = D + r
    <3>1. PICK k \in Int, K \in Int : k = d - q /\ K = k * Wrap /\ K = D - Q
      BY <2>4
    <3>2. Extend(p.stamp) = p.stamp + K
      BY <1>1, <2>6, <2>7, <3>1
    <3>8. Extend(p.stamp) \in Int
      BY <1>1, <3>1, <3>2
    <3>9. Extend(p.stamp) = p.stamp + k * Wrap
      BY <3>1, <3>2, Zenon
    <3> QED BY <3>1, <3>8, <3>9, Zenon
  <2>8. CASE Extend(p.stamp) = (D + r) - Wrap
    <3>1. PICK k \in Int, K \in Int : k = (d - q) - 1 /\ K = k * Wrap /\ K = (D - Q) - Wrap
      BY <1>1, <2>4
    <3>2. K = (D - Q) - Wrap /\ D + r = p.stamp + (D - Q) /\ K \in Int
      BY <2>6, <3>1, Zenon
    <3>3. Extend(p.stamp) = p.stamp + K
      BY <1>1, <2>8, <3>2
    <3>8. Extend(p.stamp) \in Int
      BY <1>1, <3>1, <3>3
    <3>9. Extend(p.stamp) = p.stamp + k * Wrap
      BY <3>1, <3>3, Zenon
    <3> QED BY <3>1, <3>8, <3>9, Zenon
  <2>9. CASE Extend(p.stamp) = (D + r) + Wrap
    <3>1. PICK k \in Int, K \in Int : k = (d - q) + 1 /\ K = k * Wrap /\ K = (D - Q) + Wrap
      BY <1>1, <2>4
    <3>2. K = (D - Q) + Wrap /\ D + r = p.stamp + (D - Q) /\ K \in Int
      BY <2>6, <3>1, Zenon
    <3>3. Extend(p.stamp) = p.stamp + K
      BY <1>1, <2>9, <3>2
    <3>8. Extend(p.stamp) \in Int
      BY <1>1, <3>1, <3>3
    <3>9. Extend(p.stamp) = p.stamp + k * Wrap
      BY <3>1, <3>3, Zenon
    <3> QED BY <3>1, <3>8, <3>9, Zenon
  <2> QED BY <2>5, <2>7, <2>8, <2>9
<1>3. E - now \in MinLead..MaxLead
  <2>1. ~(Lead(p) < MinLead) /\ ~(Lead(p) > MaxLead + Far)
        /\ ~(Lead(p) > MaxLead /\ Lead(p) <= MaxLead + Far)
    BY Zenon DEF Verdict
  <2>2. Lead(p) = E - now
    BY <1>2 DEF Lead
  <2> QED BY <1>1, <2>1, <2>2
<1>4. E = p.stamp
  <2>1. E % Wrap = p.stamp % Wrap
    <3>1. p.stamp \in Int
      BY <1>1
    <3>2. (p.stamp + k * Wrap) % Wrap = p.stamp % Wrap
      BY <1>1, <3>1, ShiftedMod, Zenon
    <3> QED BY <1>2, <3>2, Zenon
  <2>2. E - p.stamp < Wrap /\ p.stamp - E < Wrap
    BY <1>1, <1>3 DEF Told
  <2>3. E \in Int /\ p.stamp \in Int
    BY <1>1
  <2> QED BY <1>1, <2>1, <2>2, <2>3, Congruent, Zenon
<1> QED BY <1>3, <1>4

(***************************************************************************)
(* The queue.                                                              *)
(***************************************************************************)
LEMMA TakeInv ==
  ASSUME ATypeOK, queue # <<>>, Queued, Take, UNCHANGED feed
  PROVE  /\ queue' \in Seq(PacketRec) /\ Queued'
         /\ \A x \in Int : Coming(x) \/ x = EndOf(Head(queue)) => Coming(x)'
<1>1. queue \in Seq(PacketRec) /\ queue' = Tail(queue) /\ feed' = feed
  BY DEF ATypeOK, PacketRec, Take
<1>2. /\ queue' \in Seq(PacketRec) /\ Len(queue') = Len(queue) - 1 /\ Len(queue) \in Nat
      /\ \A i \in 1..Len(queue') : i + 1 \in 1..Len(queue) /\ queue'[i] = queue[i + 1]
      /\ 1 \in 1..Len(queue) /\ Head(queue) = queue[1]
  BY <1>1
<1>3. Queued'
  <2> SUFFICES ASSUME NEW i \in 1..Len(queue')
               PROVE  /\ EndOf(queue'[i]) <= feed'
                      /\ \A j \in 1..Len(queue') : i < j => EndOf(queue'[i]) <= queue'[j].stamp
    BY Zenon DEF Queued, EndOf
  <2>1. i + 1 \in 1..Len(queue) /\ queue'[i] = queue[i + 1]
    BY <1>2
  <2>2. EndOf(queue'[i]) <= feed'
    BY <1>1, <2>1 DEF Queued
  <2>3. ASSUME NEW j \in 1..Len(queue'), i < j PROVE EndOf(queue'[i]) <= queue'[j].stamp
    <3>1. j + 1 \in 1..Len(queue) /\ queue'[j] = queue[j + 1]
      BY <1>2
    <3>2. i + 1 < j + 1
      BY <2>3
    <3> QED BY <2>1, <3>1, <3>2 DEF Queued
  <2> QED BY <2>2, <2>3
<1>4. ASSUME NEW x \in Int, x = EndOf(Head(queue)) PROVE Coming(x)'
  <2>1. EndOf(queue[1]) <= feed /\ \A j \in 1..Len(queue) : 1 < j => EndOf(queue[1]) <= queue[j].stamp
    BY <1>2 DEF Queued
  <2>2. ASSUME NEW i \in 1..Len(queue') PROVE EndOf(queue[1]) <= queue'[i].stamp
    <3>1. i + 1 \in 1..Len(queue) /\ queue'[i] = queue[i + 1] /\ 1 < i + 1
      BY <1>2
    <3> QED BY <2>1, <3>1
  <2>3. EndOf(queue[1]) <= feed' /\ \A i \in 1..Len(queue') : EndOf(queue[1]) <= queue'[i].stamp
    BY <1>1, <2>1, <2>2
  <2>4. x = EndOf(queue[1])
    BY <1>2, <1>4
  <2> QED BY <2>3, <2>4 DEF Coming
<1>5. ASSUME NEW x \in Int, Coming(x) PROVE Coming(x)'
  <2>1. ASSUME NEW i \in 1..Len(queue') PROVE x <= queue'[i].stamp
    BY <1>2, <1>5 DEF Coming
  <2> QED BY <1>1, <1>5, <2>1 DEF Coming
<1> QED BY <1>2, <1>3, <1>4, <1>5

(***************************************************************************)
(* Slots that a tick does not fall in.                                     *)
(***************************************************************************)

\* multiples of Lap are apart by at least one
LEMMA Laps ==
  ASSUME NEW k \in Int
  PROVE  /\ k * Lap \in Int /\ (k >= 1 => k * Lap >= Lap) /\ (k <= -1 => k * Lap <= 0 - Lap)
         /\ (k = 0 => k * Lap = 0) /\ (k * Lap) % Lap = 0
<1>1. Lap \in Nat \ {0}
  BY RingFacts
<1>2. k * Lap \in Int
  BY <1>1, ProductInt
<1>3. k >= 1 => k * Lap >= Lap
  BY <1>1, AtLeastOne
<1>4. k <= -1 => k * Lap <= 0 - Lap
  <2>1. SUFFICES ASSUME k <= -1 PROVE k * Lap <= 0 - Lap
    OBVIOUS
  <2>2. (0 - k) * Lap >= Lap
    BY <1>1, <2>1, AtLeastOne
  <2>3. (0 - k) * Lap = 0 * Lap - k * Lap /\ 0 * Lap = 0
    BY <1>1, Distribute
  <2>4. PICK K \in Int : K = k * Lap
    BY <1>2
  <2> QED BY <1>1, <2>2, <2>3, <2>4
<1>5. k = 0 => k * Lap = 0
  BY <1>1
<1>6. (k * Lap) % Lap = 0
  <2>1. (0 + k * Lap) % Lap = 0 % Lap
    <3>1. 0 \in Int
      OBVIOUS
    <3> QED BY <1>1, <3>1, ShiftedMod, Zenon
  <2>2. 0 % Lap = 0
    BY <1>1
  <2> QED BY <1>2, <2>1, <2>2
<1> QED BY <1>2, <1>3, <1>4, <1>5, <1>6

LEMMA Clear ==
  ASSUME NEW e \in Int, Aligned(e), NEW t \in Int,
         (t < e /\ e + Tps <= t + Lap) \/ (e + Tps <= t /\ t < e + Lap)
  PROVE  Slot(Place(t)) # Slot(Place(e))
<1> SUFFICES ASSUME Slot(Place(t)) = Slot(Place(e)) PROVE FALSE
  OBVIOUS
<1>1. Tps \in Nat \ {0} /\ Lap \in Nat \ {0}
  BY RingFacts
<1>2. PICK k \in Int, j \in 0..(Tps - 1) : t = e + j + k * Lap
  BY SameSlot
<1>3. PICK K \in Int : /\ K = k * Lap /\ (k >= 1 => K >= Lap) /\ (k <= -1 => K <= 0 - Lap)
                       /\ (k = 0 => K = 0)
  BY Laps
<1>4. t = e + j + K
  BY <1>2, <1>3
<1>5. K >= Lap \/ K <= 0 - Lap \/ K = 0
  BY <1>3
<1> QED BY <1>1, <1>4, <1>5

\* two ticks on the grid are a slot apart
LEMMA Grid ==
  ASSUME NEW a \in Int, Aligned(a), NEW b \in Int, Aligned(b), a < b
  PROVE  a + Tps <= b
<1>1. Tps \in Nat \ {0} /\ T0 \in Nat
  BY RingFacts
<1>2. PICK m \in Int, n \in Int : a = T0 + m * Tps /\ b = T0 + n * Tps
  BY AlignedIs
<1>3. PICK A \in Int, B \in Int : A = m * Tps /\ B = n * Tps
  BY <1>1, ProductInt
<1>4. (n - m) * Tps = B - A
  BY <1>1, <1>3, Distribute
<1>5. A < B
  BY <1>1, <1>2, <1>3
<1>6. n - m >= 1
  <2>1. SUFFICES ASSUME n <= m PROVE FALSE
    OBVIOUS
  <2>2. n * Tps <= m * Tps
    BY <1>1, <2>1, Monotone
  <2> QED BY <1>3, <1>5, <2>2
<1>7. (n - m) * Tps >= Tps
  BY <1>1, <1>6, AtLeastOne
<1> QED BY <1>1, <1>2, <1>3, <1>4, <1>7

\* ticks on the grid whose slots are the same are a number of laps apart
LEMMA LapsApart ==
  ASSUME NEW a \in Int, Aligned(a), NEW b \in Int, Aligned(b), Slot(Place(a)) = Slot(Place(b))
  PROVE  \E k \in Int : a = b + k * Lap
<1>1. Tps \in Nat \ {0} /\ Lap \in Nat \ {0} /\ T0 \in Nat
  BY RingFacts
<1>2. PICK x \in Int, y \in Int :
        /\ x = Place(a) /\ y = Place(b)
        /\ x % Tps = (a - T0) % Tps /\ y % Tps = (b - T0) % Tps
        /\ x \div Tps = y \div Tps
  BY PlaceIs DEF Slot
<1>3. x % Tps = 0 /\ y % Tps = 0
  BY <1>2 DEF Aligned
<1>4. x = y
  BY <1>1, <1>2, <1>3, DivModIs
<1>5. PICK A \in Int, B \in Int : A = a - T0 /\ B = b - T0
  BY <1>1
<1>6. A % Lap = B % Lap
  BY <1>2, <1>4, <1>5 DEF Place
<1>7. PICK k \in Int : A = B + k * Lap
  BY <1>1, <1>6, Congruent, ZenonT(60)
<1>8. k * Lap \in Int
  BY Laps
<1> QED BY <1>1, <1>5, <1>7, <1>8

(***************************************************************************)
(* The judged packet's samples, and the samples that were there.           *)
(***************************************************************************)
LEMMA WrittenHolds ==
  ASSUME AInv, judged # -1, NEW p, p = Head(queue)
  PROVE  /\ Written(p) \in [0..(Lap - 1) -> {Silence} \cup Nat]
         /\ \A t \in Content(p) : Written(p)[Place(t)] = t
         /\ Pad(p) = 0 => \A t \in promised : t > now + Ahead => Written(p)[Place(t)] = ring[Place(t)]
         /\ \A x \in 0..(Lap - 1) : Written(p)[x] \in {Silence, ring[x]}
                \/ (Written(p)[x] \in Content(p) /\ Place(Written(p)[x]) = x)
<1>1. ring \in [0..(Lap - 1) -> {Silence} \cup Nat] /\ DOMAIN ring = 0..(Lap - 1)
  BY DEF AInv, ATypeOK
<1>2. /\ p \in PacketRec /\ now + Ahead < p.stamp /\ p.stamp <= now + MaxLead /\ EndOf(p) <= now + Lap
      /\ \A t \in promised : t < p.stamp
      /\ Pad(p) \in 0..(Tps - 1)
  BY JudgedIs
<1>3. p.stamp \in Nat /\ p.multi \in Multi /\ EndOf(p) \in Nat /\ Content(p) = p.stamp..(EndOf(p) - 1)
      /\ EndOf(p) <= p.stamp + MaxLead
  <2>1. /\ p.stamp \in Nat /\ p.multi \in Multi /\ EndOf(p) \in Nat /\ Content(p) = p.stamp..(EndOf(p) - 1)
        /\ EndOf(p) = p.stamp + p.multi * Tps /\ p.multi * Tps \in Nat /\ p.multi * Tps <= MaxLead
    BY <1>2, EndOfIs
  <2>2. PICK M \in Nat : M = p.multi * Tps
    BY <2>1
  <2>3. EndOf(p) = p.stamp + M /\ M <= MaxLead
    BY <2>1, <2>2, Zenon
  <2>4. EndOf(p) <= p.stamp + MaxLead
    BY <2>1, <2>3, RingFacts
  <2> QED BY <2>1, <2>4, Zenon
<1>4. ASSUME NEW x \in 0..(Lap - 1)
      PROVE  \E v \in Int :
               /\ Place(v) = x /\ p.stamp - Pad(p) <= v /\ v < p.stamp - Pad(p) + Lap
               /\ v \in Content(p) => Written(p)[x] = v
               /\ v \notin Content(p) => Written(p)[x] \in {ring[x], Silence}
               /\ v \notin Content(p) /\ Pad(p) = 0 => Written(p)[x] = ring[x]
  BY <1>1, <1>3, WrittenIs, Zenon
<1>5. now \in Nat /\ {Ahead, MaxLead, Lap, Tps} \subseteq Nat /\ Tps + MaxLead <= Lap /\ 2 * MaxLead <= Lap /\ Tps <= Lap
  <2>1. now \in Nat
    <3>1. Start + TimeMax \in Nat /\ Start \in Nat
      BY TxAirAssumption, RingFacts
    <3> QED BY <3>1 DEF AInv, ATypeOK
  <2>2. {Ahead, MaxLead, Lap, Tps} \subseteq Nat /\ 2 * MaxLead <= Lap /\ Tps <= MaxLead /\ Tps <= Lap
    BY RingFacts, TxAirAssumption
  <2> QED BY <2>1, <2>2
<1>10. PICK c \in Nat, e \in Nat, P \in Nat :
         /\ c = p.stamp /\ e = EndOf(p) /\ P = Pad(p)
         /\ P < Tps /\ e <= c + MaxLead /\ e <= now + Lap
  <2>1. Pad(p) \in Nat /\ Pad(p) < Tps
    <3>1. Tps \in Nat
      BY <1>5
    <3> QED BY <1>2, <3>1
  <2> QED BY <1>2, <1>3, <2>1, Zenon
<1>6. ASSUME NEW t \in Content(p) PROVE Written(p)[Place(t)] = t
  <2>1. t \in Int /\ p.stamp <= t /\ t < EndOf(p)
    BY <1>3
  <2>2. Place(t) \in 0..(Lap - 1)
    BY <2>1, PlaceIs
  <2>3. PICK v \in Int : /\ Place(v) = Place(t) /\ p.stamp - Pad(p) <= v /\ v < p.stamp - Pad(p) + Lap
                         /\ v \in Content(p) => Written(p)[Place(t)] = v
    BY <1>4, <2>2
  <2>4. t - v < Lap /\ v - t < Lap
    <3>1. P < Tps /\ e <= c + MaxLead
      BY <1>10
    <3>2. c <= t /\ t < e /\ c - P <= v /\ v < c - P + Lap
      BY <1>10, <2>1, <2>3, Zenon
    <3>3. Tps + MaxLead <= Lap /\ {MaxLead, Lap, Tps} \subseteq Nat /\ t \in Int
      BY <1>5, <2>1
    <3> QED BY <3>1, <3>2, <3>3
  <2>5. t = v
    BY <2>1, <2>3, <2>4, SamePlace
  <2> QED BY <2>3, <2>5
<1>7. ASSUME Pad(p) = 0, NEW t \in promised, t > now + Ahead PROVE Written(p)[Place(t)] = ring[Place(t)]
  <2>1. t \in Int /\ t < p.stamp
    BY <1>2 DEF AInv, ATypeOK
  <2>2. Place(t) \in 0..(Lap - 1)
    BY <2>1, PlaceIs
  <2>3. PICK v \in Int : /\ Place(v) = Place(t) /\ p.stamp - Pad(p) <= v /\ v < p.stamp - Pad(p) + Lap
                         /\ v \notin Content(p) => Written(p)[Place(t)] = ring[Place(t)]
    BY <1>4, <1>7, <2>2
  <2>4. ASSUME v \in Content(p) PROVE FALSE
    <3>1. p.stamp <= v /\ v < EndOf(p)
      BY <1>3, <2>4
    <3>2. t - v < Lap /\ v - t < Lap
      <4>1. c <= v /\ v < e /\ e <= now + Lap /\ t < c
        BY <1>10, <2>1, <3>1, Zenon
      <4> QED BY <1>5, <1>7, <2>1, <4>1
    <3>3. t = v
      BY <2>1, <2>3, <3>2, SamePlace
    <3> QED BY <2>1, <3>1, <3>3, <1>3
  <2> QED BY <2>3, <2>4
<1>8. ASSUME NEW x \in 0..(Lap - 1)
      PROVE  Written(p)[x] \in {Silence, ring[x]} \/ (Written(p)[x] \in Content(p) /\ Place(Written(p)[x]) = x)
  BY <1>4
<1>9. Written(p) \in [0..(Lap - 1) -> {Silence} \cup Nat]
  <2>1. Content(p) \subseteq Nat
    BY <1>3
  <2>2. \A x \in 0..(Lap - 1) : Written(p)[x] \in {Silence} \cup Nat
    BY <1>1, <1>8, <2>1
  <2>3. Written(p) = [x \in 0..(Lap - 1) |-> Written(p)[x]]
    BY <1>1, Zenon DEF Written
  <2> QED BY <2>2, <2>3
<1> QED BY <1>6, <1>7, <1>8, <1>9

(***************************************************************************)
(* The windows.                                                            *)
(***************************************************************************)
WinRec == [active : BOOLEAN, open : Nat, first : 0..(N - 1), next : 0..(N - 1), slots : Nat, jump : Nat, old : BOOLEAN]

LEMMA EndsIs ==
  ASSUME NEW w \in WinRec
  PROVE  w.slots * Tps \in Nat /\ Ends(w) \in Nat /\ w.open <= Ends(w) /\ w.open \in Nat /\ w.jump \in Nat
         /\ (Aligned(w.open) => Aligned(Ends(w)))
<1>1. w.slots \in Nat /\ w.open \in Nat /\ w.jump \in Nat /\ Tps \in Nat
  BY RingFacts DEF WinRec
<1>2. PICK S \in Nat : S = w.slots * Tps
  BY <1>1, ProductNat
<1>3. Ends(w) = w.open + S
  BY <1>2, Zenon DEF Ends
<1>4. Ends(w) \in Nat /\ w.open <= Ends(w)
  BY <1>1, <1>3
<1>5. Aligned(w.open) => Aligned(Ends(w))
  <2>1. SUFFICES ASSUME Aligned(w.open) PROVE Aligned(w.open + w.slots * Tps)
    BY Zenon DEF Ends
  <2>2. w.open \in Int /\ w.slots \in Int
    BY <1>1
  <2> QED BY <2>1, <2>2, SlotsAhead, Zenon
<1> QED BY <1>1, <1>2, <1>4, <1>5, Zenon

LEMMA GrownIs ==
  ASSUME NEW w \in WinRec, NEW p, BaseSlot(p) \in 0..(N - 1), p.stamp \in Nat, p.multi \in Nat
  PROVE  LET g == Grown(w, p)
         IN  /\ g.active
             /\ ~w.active => /\ g.open = p.stamp /\ g.next = (BaseSlot(p) + p.multi) % N /\ g.slots = p.multi
                             /\ g.jump = p.stamp - (p.stamp + 0 * Tps) /\ ~g.old
             /\ w.active => /\ g.open = w.open /\ g.next = (w.next + p.multi) % N /\ g.slots = w.slots + p.multi
                            /\ g.jump = p.stamp - Ends(w) /\ g.old = w.old
             /\ g.jump \in Nat => g \in WinRec
<1> DEFINE new == [NoWin EXCEPT !.active = TRUE, !.open = p.stamp, !.first = BaseSlot(p), !.next = BaseSlot(p)]
           base == IF w.active THEN w ELSE new
           g == [base EXCEPT !.next = (base.next + p.multi) % N, !.slots = base.slots + p.multi,
                             !.jump = p.stamp - (base.open + base.slots * Tps)]
<1>1. N \in Nat \ {0} /\ Tps \in Nat
  BY RingFacts
<1>2. new \in WinRec
  BY <1>1 DEF WinRec, NoWin
<1>3. new.open = p.stamp /\ new.next = BaseSlot(p) /\ new.slots = 0 /\ ~new.old /\ new.active
  BY DEF NoWin
<1> HIDE DEF new
<1>4. base \in WinRec /\ base.active
  BY <1>2, <1>3
<1>5. Grown(w, p) = g
  BY DEF Grown, new
<1>6. /\ ~w.active => base = new
      /\ w.active => base = w
  OBVIOUS
<1> HIDE DEF base
<1>7. /\ g.active /\ g.open = base.open /\ g.old = base.old /\ g.next = (base.next + p.multi) % N
      /\ g.slots = base.slots + p.multi /\ g.jump = p.stamp - (base.open + base.slots * Tps)
  BY <1>4 DEF WinRec
<1>8. base.slots + p.multi \in Nat /\ (base.next + p.multi) % N \in 0..(N - 1)
  <2>1. base.slots \in Nat /\ base.next \in Int
    BY <1>4 DEF WinRec
  <2>2. base.next + p.multi \in Int
    BY <2>1
  <2> QED BY <1>1, <2>1, <2>2, DivModIs
<1>9. ASSUME g.jump \in Nat PROVE g \in WinRec
  <2>1. PICK n \in 0..(N - 1), s \in Nat, d \in Nat :
          n = (base.next + p.multi) % N /\ s = base.slots + p.multi /\ d = p.stamp - (base.open + base.slots * Tps)
    BY <1>7, <1>8, <1>9
  <2>2. g = [base EXCEPT !.next = n, !.slots = s, !.jump = d]
    BY <2>1, Zenon
  <2> QED BY <1>4, <2>2 DEF WinRec
<1> HIDE DEF g
<1>10. ~w.active => g.slots = p.multi
  BY <1>3, <1>6, <1>7
<1> QED BY <1>3, <1>5, <1>6, <1>7, <1>9, <1>10, Zenon DEF Ends

LEMMA JudgedEnds ==
  ASSUME AInv, judged # -1, NEW p, p = Head(queue)
  PROVE  /\ now \in Nat /\ p.stamp \in Nat /\ p.stamp \in Int /\ EndOf(p) \in Nat /\ p.multi \in Nat /\ p.multi \in Int
         /\ EndOf(p) <= p.stamp + MaxLead /\ p.stamp < EndOf(p) /\ p.stamp + Tps <= EndOf(p)
         /\ EndOf(p) = p.stamp + p.multi * Tps
         /\ Content(p) = p.stamp..(EndOf(p) - 1)
         /\ (Pad(p) = 0 => Aligned(EndOf(p)) /\ Slot(Place(EndOf(p))) = (BaseSlot(p) + p.multi) % N)
<1>1. p \in PacketRec /\ (Pad(p) = 0 <=> Aligned(p.stamp)) /\ BaseSlot(p) = Slot(Place(p.stamp))
  BY JudgedIs
<1>2. /\ p.stamp \in Nat /\ p.multi \in Nat \ {0} /\ p.multi * Tps \in Nat
      /\ EndOf(p) \in Nat /\ EndOf(p) = p.stamp + p.multi * Tps
      /\ p.multi * Tps <= MaxLead /\ Content(p) = p.stamp..(EndOf(p) - 1)
  BY <1>1, EndOfIs
<1>3. p.multi * Tps >= Tps
  <2>1. p.multi \in Int /\ p.multi >= 1 /\ Tps \in Nat
    BY <1>2, RingFacts
  <2> QED BY <2>1, AtLeastOne, Zenon
<1>4. PICK M \in Nat : M = p.multi * Tps /\ M <= MaxLead /\ M >= Tps
  BY <1>2, <1>3
<1>5. EndOf(p) = p.stamp + M
  BY <1>2, <1>4, Zenon
<1>6. EndOf(p) <= p.stamp + MaxLead /\ p.stamp < EndOf(p) /\ p.stamp + Tps <= EndOf(p)
  <2>1. p.stamp \in Nat /\ MaxLead \in Nat /\ Tps \in Nat \ {0}
    BY <1>2, RingFacts
  <2> QED BY <1>4, <1>5, <2>1
<1>7. now \in Nat
  <2>1. Start + TimeMax \in Nat /\ Start \in Nat
    BY TxAirAssumption, RingFacts
  <2> QED BY <2>1 DEF AInv, ATypeOK
<1>8. p.stamp \in Int /\ p.multi \in Int /\ p.multi \in Nat
  BY <1>2
<1>9. Pad(p) = 0 => Aligned(EndOf(p)) /\ Slot(Place(EndOf(p))) = (BaseSlot(p) + p.multi) % N
  <2>1. SUFFICES ASSUME Aligned(p.stamp)
                 PROVE  Aligned(EndOf(p)) /\ Slot(Place(EndOf(p))) = (BaseSlot(p) + p.multi) % N
    BY <1>1, Zenon
  <2>2. Aligned(p.stamp + p.multi * Tps) /\ Slot(Place(p.stamp + p.multi * Tps)) = (Slot(Place(p.stamp)) + p.multi) % N
    BY <1>8, <2>1, SlotsAhead, Zenon
  <2> QED BY <1>1, <1>2, <2>2, Zenon
<1> QED BY <1>2, <1>6, <1>7, <1>8, <1>9

\* the window after an aligned packet of a timed client
LEMMA GrownSound ==
  ASSUME AInv, judged # -1, kind = "timed", Windowed, NEW p, p = Head(queue), Pad(p) = 0,
         NEW w \in WinRec, w.active => w = win /\ BaseSlot(p) = win.next
  PROVE  LET g == Grown(w, p)
         IN  /\ g \in WinRec /\ g.active /\ Sound(g, promised \cup Content(p))
             /\ Ends(g) + g.jump = EndOf(p)
             /\ Live(w) /\ Ends(w) > now => g.jump = 0
             /\ ~w.active => g.jump = 0
             /\ g.old => w.active /\ w.old
<1> DEFINE g == Grown(w, p)
<1>1. /\ now \in Nat /\ p.stamp \in Nat /\ p.stamp \in Int /\ EndOf(p) \in Nat /\ p.multi \in Nat /\ p.multi \in Int
      /\ EndOf(p) <= p.stamp + MaxLead /\ p.stamp < EndOf(p)
      /\ EndOf(p) = p.stamp + p.multi * Tps
      /\ Content(p) = p.stamp..(EndOf(p) - 1)
      /\ Aligned(EndOf(p)) /\ Slot(Place(EndOf(p))) = (BaseSlot(p) + p.multi) % N
  BY JudgedEnds
<1>2. /\ now + Ahead < p.stamp /\ p.stamp <= now + MaxLead /\ EndOf(p) <= now + Lap
      /\ \A t \in promised : t < p.stamp
      /\ Live(win) => Ends(win) + win.jump <= p.stamp
      /\ Aligned(p.stamp) /\ BaseSlot(p) = Slot(Place(p.stamp))
  BY JudgedIs
<1>3. /\ {Ahead, MaxLead, Tps, T0} \subseteq Nat /\ Lap \in Nat \ {0} /\ 2 * MaxLead <= Lap /\ promised \subseteq Nat
  BY RingFacts DEF AInv, ATypeOK
<1>4. BaseSlot(p) \in 0..(N - 1)
  BY <1>1, <1>2, PlaceIs
<1>5. /\ g.active
      /\ ~w.active => /\ g.open = p.stamp /\ g.next = (BaseSlot(p) + p.multi) % N /\ g.slots = p.multi
                      /\ g.jump = p.stamp - (p.stamp + 0 * Tps) /\ ~g.old
      /\ w.active => /\ g.open = w.open /\ g.next = (w.next + p.multi) % N /\ g.slots = w.slots + p.multi
                     /\ g.jump = p.stamp - Ends(w) /\ g.old = w.old
      /\ g.jump \in Nat => g \in WinRec
  BY <1>1, <1>4, GrownIs
<1>6. PICK c \in Nat, e \in Nat : c = p.stamp /\ e = EndOf(p)
  BY <1>1
<1> HIDE DEF g
<1>7. CASE ~w.active
  <2>1. g.jump = 0
    <3>1. 0 * Tps = 0
      BY <1>3
    <3> QED BY <1>1, <1>5, <1>7, <3>1
  <2>2. Ends(g) = EndOf(p) /\ g.open = p.stamp
    BY <1>1, <1>5, <1>7, Zenon DEF Ends
  <2>3. g.next = Slot(Place(Ends(g))) /\ Aligned(g.open)
    BY <1>1, <1>2, <1>5, <1>7, <2>2
  <2>4. Ends(g) + g.jump = EndOf(p)
    BY <1>1, <2>1, <2>2
  <2>5. 0 % Lap = 0
    BY <1>3
  <2>6. \A t \in promised \cup Content(p) : t < Ends(g) + g.jump
    <3>1. \A t \in promised : t < e
      <4>1. c < e /\ \A t \in promised : t < c
        BY <1>1, <1>2, <1>6, Zenon
      <4> QED BY <1>3, <4>1
    <3>2. \A t \in Content(p) : t < e
      BY <1>1, <1>6
    <3> QED BY <1>6, <2>4, <3>1, <3>2
  <2>7. g.open..(Ends(g) - 1) \subseteq promised \cup Content(p)
    BY <1>1, <2>2
  <2>8. Sound(g, promised \cup Content(p))
    <3>1. g.jump >= 0 /\ g.jump % Lap = 0 /\ ~(g.jump > 0) /\ Ends(g) <= now + Lap
      BY <1>2, <2>1, <2>2, <2>5
    <3> QED BY <2>3, <2>6, <2>7, <3>1, Zenon DEF Sound
  <2>9. g \in WinRec
    BY <1>5, <2>1
  <2> QED BY <1>5, <1>7, <2>1, <2>4, <2>8, <2>9 DEF Live, g
<1>8. CASE w.active
  <2>1. w = win /\ Sound(win, promised)
    BY <1>8 DEF AInv, WinOK
  <2>2. /\ Aligned(w.open) /\ w.next = Slot(Place(Ends(w))) /\ Ends(w) <= now + Lap
        /\ Live(w) => /\ w.jump = 0 => w.open .. (Ends(w) - 1) \subseteq promised
    BY <1>8, <2>1, Zenon DEF Sound
  <2>3. Ends(w) \in Nat /\ w.open \in Nat /\ Aligned(Ends(w)) /\ w.slots \in Nat /\ w.jump \in Nat
    BY <2>2, EndsIs DEF WinRec
  <2>4. PICK s \in Nat, d \in Int : s = Ends(w) /\ d = g.jump /\ d = c - s
    BY <1>5, <1>6, <1>8, <2>3
  <2>5. d >= 0 /\ d % Lap = 0 /\ (d > 0 => d >= Lap)
    <3>1. Slot(Place(p.stamp)) = Slot(Place(Ends(w)))
      BY <1>2, <1>8, <2>1, <2>2
    <3>2. PICK k \in Int : p.stamp = Ends(w) + k * Lap
      <4>1. Ends(w) \in Int
        BY <2>3
      <4> QED BY <1>1, <1>2, <2>3, <3>1, <4>1, LapsApart, Zenon
    <3>3. PICK K \in Int : /\ K = k * Lap /\ (k >= 1 => K >= Lap) /\ (k <= -1 => K <= 0 - Lap)
                           /\ (k = 0 => K = 0) /\ K % Lap = 0
      BY Laps
    <3>4. c = s + K
      BY <1>6, <2>4, <3>2, <3>3, Zenon
    <3>5. d = K
      BY <2>4, <3>4
    <3>6. s <= now + Lap /\ now + Ahead < c
      BY <1>2, <1>6, <2>2, <2>4, Zenon
    <3>7. K > 0 - Lap
      BY <1>1, <1>3, <3>4, <3>6
    <3>8. k >= 1 \/ k = 0
      BY <3>3, <3>7, <1>3
    <3> QED BY <1>3, <3>3, <3>5, <3>8
  <2>6. PICK m \in Nat : m = p.multi * Tps /\ e = c + m
    <3>1. p.multi * Tps \in Nat
      BY <1>1, <1>3, ProductNat
    <3> QED BY <1>1, <1>6, <3>1, Zenon
  <2>7. Ends(g) = s + m
    <3>1. Ends(g) = w.open + (w.slots + p.multi) * Tps
      BY <1>5, <1>8, Zenon DEF Ends
    <3>2. PICK S \in Int : S = w.slots * Tps
      BY <1>3, <2>3, ProductInt
    <3>3. (w.slots + p.multi) * Tps = w.slots * Tps + p.multi * Tps
      <4>1. PICK a \in Int, b \in Int : a = w.slots /\ b = p.multi
        BY <1>1, <2>3
      <4>2. (a + b) * Tps = a * Tps + b * Tps
        <5>1. Tps \in Int
          BY <1>3
        <5> QED BY <5>1, Distribute
      <4> QED BY <4>1, <4>2, Zenon
    <3>4. s = w.open + S /\ (w.slots + p.multi) * Tps = S + m
      BY <2>4, <2>6, <3>2, <3>3, Zenon DEF Ends
    <3>5. Ends(g) = w.open + (S + m)
      BY <3>1, <3>4, Zenon
    <3> QED BY <2>3, <2>6, <3>4, <3>5
  <2>8. Ends(g) + g.jump = EndOf(p) /\ Ends(g) \in Nat
    BY <1>6, <2>4, <2>6, <2>7
  <2>9. g.next = Slot(Place(Ends(g))) /\ Aligned(g.open)
    <3>1. Slot(Place(Ends(w) + p.multi * Tps)) = (Slot(Place(Ends(w))) + p.multi) % N
      <4>1. Ends(w) \in Int
        BY <2>3
      <4> QED BY <1>1, <2>3, <4>1, SlotsAhead, Zenon
    <3>2. Ends(w) + p.multi * Tps = Ends(g)
      BY <2>4, <2>6, <2>7, Zenon
    <3> QED BY <1>5, <1>8, <2>2, <3>1, <3>2, Zenon
  <2>10. e <= now + Lap /\ c <= now + MaxLead /\ e <= c + MaxLead
    BY <1>1, <1>2, <1>6, Zenon
  <2>11. Ends(g) <= now + Lap /\ (d > 0 => Ends(g) <= now)
    <3>1. d >= 0 /\ (d > 0 => d >= Lap) /\ d = c - s /\ e = c + m /\ Ends(g) = s + m
      BY <2>4, <2>5, <2>6, <2>7, Zenon
    <3>2. Lap \in Nat /\ MaxLead \in Nat /\ 2 * MaxLead <= Lap
      BY <1>3
    <3> QED BY <1>1, <2>10, <3>1, <3>2
  <2>12. Live(g) => Live(w)
    BY <1>5, <1>8 DEF Live
  <2>13. \A t \in promised \cup Content(p) : t < Ends(g) + g.jump
    <3>1. \A t \in promised : t < e
      <4>1. c < e /\ \A t \in promised : t < c
        BY <1>1, <1>2, <1>6, Zenon
      <4> QED BY <1>3, <4>1
    <3>2. \A t \in Content(p) : t < e
      BY <1>1, <1>6
    <3> QED BY <1>6, <2>8, <3>1, <3>2
  <2>14. ASSUME Live(g), g.jump = 0 PROVE g.open..(Ends(g) - 1) \subseteq promised \cup Content(p)
    <3>1. s + w.jump <= c
      BY <1>2, <1>6, <2>1, <2>4, <2>12, <2>14, Zenon
    <3>2. w.jump = 0 /\ s = c
      <4>1. PICK j \in Nat : j = w.jump
        BY <2>3
      <4>2. s + j <= c /\ 0 = c - s
        BY <2>4, <2>14, <3>1, <4>1, Zenon
      <4>3. s = c /\ j = 0
        BY <4>2
      <4> QED BY <4>1, <4>3
    <3>3. w.open..(s - 1) \subseteq promised
      BY <2>2, <2>4, <2>12, <2>14, <3>2
    <3>4. Ends(g) = e /\ g.open = w.open
      BY <1>5, <1>8, <2>6, <2>7, <3>2
    <3>5. Content(p) = c..(e - 1)
      BY <1>1, <1>6, Zenon
    <3> QED BY <2>3, <3>2, <3>3, <3>4, <3>5
  <2>15. Sound(g, promised \cup Content(p))
    <3>1. g.jump >= 0 /\ g.jump % Lap = 0 /\ (g.jump > 0 => Ends(g) <= now) /\ Ends(g) <= now + Lap
      BY <2>4, <2>5, <2>11
    <3> QED BY <2>9, <2>13, <2>14, <3>1, Zenon DEF Sound
  <2>16. g.jump \in Nat
    BY <2>4, <2>5
  <2>17. ASSUME Live(w), Ends(w) > now PROVE g.jump = 0
    <3>1. d < Lap
      <4>1. s > now /\ d = c - s /\ c <= now + MaxLead
        BY <2>4, <2>10, <2>17, Zenon
      <4>2. now \in Nat /\ MaxLead \in Nat /\ Lap \in Nat /\ MaxLead <= Lap
        BY <1>1, <1>3
      <4> QED BY <4>1, <4>2
    <3> QED BY <1>3, <2>4, <2>5, <3>1
  <2> QED BY <1>5, <1>8, <2>8, <2>15, <2>16, <2>17, Zenon DEF g
<1> QED BY <1>7, <1>8

\* the silence behind a window that breaks falls on no sample still to be fetched
LEMMA BreakClear ==
  ASSUME AInv, judged # -1, NEW p, p = Head(queue), Pad(p) = 0, win.active, ~Leftover(win), Breaks(p),
         NEW t \in promised \cup Content(p), t > now + Ahead
  PROVE  Slot(Place(t)) # win.next
<1>1. /\ now \in Nat /\ p.stamp \in Nat /\ p.stamp \in Int /\ EndOf(p) \in Nat
      /\ Content(p) = p.stamp..(EndOf(p) - 1)
  BY JudgedEnds
<1>2. /\ p.stamp <= now + MaxLead /\ EndOf(p) <= now + Lap
      /\ Live(win) => Ends(win) + win.jump <= p.stamp
      /\ Aligned(p.stamp) /\ BaseSlot(p) = Slot(Place(p.stamp))
  BY JudgedIs
<1>3. /\ {Ahead, MaxLead, Tps, Lap} \subseteq Nat /\ Tps + MaxLead <= Lap /\ promised \subseteq Nat /\ win \in WinRec
  <2>1. {Ahead, MaxLead, Tps, Lap} \subseteq Nat /\ 2 * MaxLead <= Lap /\ Tps <= MaxLead
    BY RingFacts, TxAirAssumption
  <2>2. Tps + MaxLead <= Lap
    BY <2>1
  <2>3. promised \subseteq Nat /\ win \in WinRec
    BY DEF AInv, ATypeOK, WinRec
  <2> QED BY <2>1, <2>2, <2>3
<1>4. Live(win) /\ ~(Ends(win) <= now + Ahead)
  BY Zenon DEF Leftover, Live, Ends
<1>5. /\ Aligned(win.open) /\ win.next = Slot(Place(Ends(win)))
      /\ win.jump > 0 => Ends(win) <= now
      /\ \A u \in promised : u < Ends(win) + win.jump
  BY <1>4, Zenon DEF AInv, WinOK, Sound, Live
<1>6. Ends(win) \in Nat /\ Ends(win) \in Int /\ Aligned(Ends(win)) /\ win.jump \in Nat
  BY <1>3, <1>5, EndsIs
<1>7. PICK e \in Nat, j \in Nat : e = Ends(win) /\ j = win.jump
  BY <1>6
<1>8. j = 0 /\ now + Ahead < e
  BY <1>1, <1>3, <1>4, <1>5, <1>7, SMTT(40)
<1>9. PICK c \in Nat, f \in Nat : c = p.stamp /\ f = EndOf(p)
  BY <1>1
<1>10. e <= c /\ c <= now + MaxLead /\ f <= now + Lap
  <2>1. e + j <= c
    BY <1>2, <1>4, <1>7, <1>9, Zenon
  <2> QED BY <1>2, <1>8, <1>9, <2>1
<1>11. Slot(Place(t)) # Slot(Place(e))
  <2>1. Aligned(e) /\ e \in Int /\ t \in Int
    BY <1>1, <1>3, <1>6, <1>7
  <2>2. CASE t \in promised
    <3>1. t < e + j
      BY <1>5, <1>7, <2>2, Zenon
    <3>2. t < e /\ e + Tps <= t + Lap
      <4>1. {Ahead, MaxLead, Tps, Lap} \subseteq Nat /\ Tps + MaxLead <= Lap /\ now \in Nat
            /\ e <= c /\ c <= now + MaxLead /\ j = 0
        BY <1>1, <1>3, <1>8, <1>10
      <4>2. t < e
        BY <2>1, <3>1, <4>1
      <4>3. e + Tps <= t + Lap
        BY <2>1, <4>1
      <4> QED BY <4>2, <4>3
    <3> QED BY <2>1, <3>2, Clear, Zenon
  <2>3. CASE t \in Content(p)
    <3>1. c <= t /\ t < f
      BY <1>1, <1>9, <2>3
    <3>2. c # e
      BY <1>2, <1>5, <1>7, <1>9, Zenon DEF Breaks
    <3>3. e + Tps <= c
      <4>1. Aligned(c) /\ c \in Int /\ e < c
        BY <1>2, <1>9, <1>10, <3>2
      <4> QED BY <2>1, <4>1, Grid, Zenon
    <3>4. e + Tps <= t /\ t < e + Lap
      <4>1. {Ahead, Tps, Lap} \subseteq Nat /\ now \in Nat /\ now + Ahead < e /\ f <= now + Lap
        BY <1>1, <1>3, <1>8, <1>10
      <4>2. e + Tps <= t
        BY <2>1, <3>1, <3>3, <4>1
      <4>3. t < e + Lap
        BY <2>1, <3>1, <4>1
      <4> QED BY <4>2, <4>3
    <3> QED BY <2>1, <3>4, Clear, Zenon
  <2> QED BY <2>2, <2>3
<1> QED BY <1>5, <1>7, <1>11, Zenon

\* neither does the silence behind a window that ends with its last packet
LEMMA EndClear ==
  ASSUME AInv, judged # -1, NEW p, p = Head(queue), Pad(p) = 0,
         NEW t \in promised \cup Content(p), t > now + Ahead
  PROVE  Slot(Place(t)) # Slot(Place(EndOf(p)))
<1>1. /\ now \in Nat /\ p.stamp \in Nat /\ EndOf(p) \in Nat /\ EndOf(p) \in Int /\ p.stamp < EndOf(p)
      /\ Content(p) = p.stamp..(EndOf(p) - 1) /\ Aligned(EndOf(p))
  BY JudgedEnds
<1>2. EndOf(p) <= now + Lap /\ \A u \in promised : u < p.stamp
  BY JudgedIs
<1>3. {Ahead, Tps, Lap} \subseteq Nat /\ Tps <= Ahead /\ promised \subseteq Nat
  BY RingFacts, TxAirAssumption DEF AInv, ATypeOK
<1>4. PICK f \in Nat : f = EndOf(p)
  BY <1>1
<1>5. t \in Int /\ t < f
  <2>1. CASE t \in promised
    BY <1>1, <1>2, <1>3, <1>4, <2>1
  <2>2. CASE t \in Content(p)
    BY <1>1, <1>4, <2>2
  <2> QED BY <2>1, <2>2
<1>6. f + Tps <= t + Lap
  <2>1. f <= now + Lap
    BY <1>2, <1>4
  <2> QED BY <1>1, <1>3, <1>5, <2>1
<1> QED BY <1>1, <1>4, <1>5, <1>6, Clear, Zenon

LEMMA PaddedIs ==
  ASSUME NEW r \in [0..(Lap - 1) -> {Silence} \cup Nat], NEW s
  PROVE  /\ Padded(r, s) \in [0..(Lap - 1) -> {Silence} \cup Nat]
         /\ \A x \in 0..(Lap - 1) : Padded(r, s)[x] = IF Slot(x) = s THEN Silence ELSE r[x]
BY DEF Padded

(***************************************************************************)
(* A timed packet is placed.                                               *)
(***************************************************************************)
Breaking(p) == Windowed /\ Breaks(p)
Kept(p) == IF Breaking(p) THEN NoWin ELSE win
NextWin(p) == IF Windowed /\ Pad(p) = 0 THEN Grown(Kept(p), p) ELSE Kept(p)
Ending(p) == NextWin(p).active /\ p.eob /\ Pad(p) = 0

LEMMA TimedFacts ==
  ASSUME AInv, PlaceTimed, NEW p, p = Head(queue)
  PROVE  /\ ring' \in [0..(Lap - 1) -> {Silence} \cup Nat]
         /\ \A x \in 0..(Lap - 1) :
              ring'[x] = IF Ending(p) /\ Slot(x) = NextWin(p).next THEN Silence
                         ELSE IF Breaking(p) /\ Slot(x) = win.next THEN Silence
                         ELSE Written(p)[x]
         /\ win' = IF Ending(p) THEN NoWin ELSE NextWin(p)
         /\ out' = (IF Breaking(p) THEN {win} ELSE {}) \cup (IF Ending(p) THEN {NextWin(p)} ELSE {})
         /\ NextWin(p) \in WinRec
         /\ Sound(NextWin(p), promised \cup Content(p))
         /\ Live(NextWin(p)) => EndOf(p) = Ends(NextWin(p)) + NextWin(p).jump
         /\ Ending(p) /\ ~Leftover(win) => NextWin(p).next = Slot(Place(EndOf(p)))
<1> DEFINE after == IF Breaking(p) THEN Padded(Written(p), win.next) ELSE Written(p)
<1>1. judged # -1 /\ kind = "timed"
  BY DEF PlaceTimed
<1>2. Written(p) \in [0..(Lap - 1) -> {Silence} \cup Nat]
  BY <1>1, WrittenHolds
<1>3. ring' = IF Ending(p) THEN Padded(after, NextWin(p).next) ELSE after
  BY Zenon DEF PlaceTimed, Breaking, Kept, NextWin, Ending
<1>4. /\ win' = IF Ending(p) THEN NoWin ELSE NextWin(p)
      /\ out' = (IF Breaking(p) THEN {win} ELSE {}) \cup (IF Ending(p) THEN {NextWin(p)} ELSE {})
  BY Zenon DEF PlaceTimed, Breaking, Kept, NextWin, Ending
<1>5. /\ after \in [0..(Lap - 1) -> {Silence} \cup Nat]
      /\ \A x \in 0..(Lap - 1) : after[x] = IF Breaking(p) /\ Slot(x) = win.next THEN Silence ELSE Written(p)[x]
  BY <1>2, PaddedIs
<1>6. /\ ring' \in [0..(Lap - 1) -> {Silence} \cup Nat]
      /\ \A x \in 0..(Lap - 1) :
           ring'[x] = IF Ending(p) /\ Slot(x) = NextWin(p).next THEN Silence
                      ELSE IF Breaking(p) /\ Slot(x) = win.next THEN Silence
                      ELSE Written(p)[x]
  <2> HIDE DEF after
  <2>1. CASE Ending(p)
    <3>1. ring' = Padded(after, NextWin(p).next)
      BY <1>3, <2>1
    <3>2. /\ ring' \in [0..(Lap - 1) -> {Silence} \cup Nat]
          /\ \A x \in 0..(Lap - 1) : ring'[x] = IF Slot(x) = NextWin(p).next THEN Silence ELSE after[x]
      <4>1. after \in [0..(Lap - 1) -> {Silence} \cup Nat]
        BY <1>5, Zenon
      <4> QED BY <3>1, <4>1, PaddedIs, ZenonT(60)
    <3> QED BY <1>5, <2>1, <3>2
  <2>2. CASE ~Ending(p)
    <3>1. ring' = after
      BY <1>3, <2>2
    <3> QED BY <1>5, <2>2, <3>1
  <2> QED BY <2>1, <2>2
<1>7. win \in WinRec /\ NoWin \in WinRec /\ ~NoWin.active
  <2>1. N \in Nat \ {0}
    BY RingFacts
  <2> QED BY <2>1 DEF AInv, ATypeOK, WinRec, NoWin
<1>8. Kept(p) \in WinRec /\ (Kept(p).active => Kept(p) = win /\ ~Breaking(p))
  BY <1>7 DEF Kept
<1>9. win.active => Windowed
  BY DEF AInv, WinOK, Sound
<1>10. /\ EndOf(p) \in Nat /\ p.stamp < EndOf(p) /\ p.stamp \in Nat /\ now \in Nat
       /\ Pad(p) = 0 => Slot(Place(EndOf(p))) = (BaseSlot(p) + p.multi) % N
  BY <1>1, JudgedEnds
<1>11. CASE Windowed /\ Pad(p) = 0
  <2>1. NextWin(p) = Grown(Kept(p), p)
    BY <1>11, Zenon DEF NextWin
  <2>2. Kept(p).active => Kept(p) = win /\ BaseSlot(p) = win.next
    BY <1>8, <1>11, Zenon DEF Breaks, Breaking
  <2>3. /\ NextWin(p) \in WinRec /\ NextWin(p).active /\ Sound(NextWin(p), promised \cup Content(p))
        /\ Ends(NextWin(p)) + NextWin(p).jump = EndOf(p)
        /\ Live(Kept(p)) /\ Ends(Kept(p)) > now => NextWin(p).jump = 0
        /\ ~Kept(p).active => NextWin(p).jump = 0
    <3>1. LET g == Grown(Kept(p), p)
          IN  /\ g \in WinRec /\ g.active /\ Sound(g, promised \cup Content(p))
              /\ Ends(g) + g.jump = EndOf(p)
              /\ Live(Kept(p)) /\ Ends(Kept(p)) > now => g.jump = 0
              /\ ~Kept(p).active => g.jump = 0
      BY <1>1, <1>8, <1>11, <2>2, GrownSound
    <3> QED BY <2>1, <3>1, Zenon
  <2>4. ASSUME ~Leftover(win) PROVE NextWin(p).next = Slot(Place(EndOf(p)))
    <3>1. NextWin(p).jump = 0
      <4>1. CASE Kept(p).active
        <5>1. Live(Kept(p)) /\ ~(Ends(Kept(p)) <= now + Ahead)
          BY <1>8, <2>4, <4>1, Zenon DEF Leftover, Live, Ends
        <5>2. Ends(Kept(p)) \in Nat /\ Ahead \in Nat
          BY <1>8, EndsIs, RingFacts
        <5> QED BY <1>10, <2>3, <5>1, <5>2
      <4> QED BY <2>3, <4>1
    <3>2. NextWin(p).next = Slot(Place(Ends(NextWin(p))))
      BY <2>3, Zenon DEF Sound
    <3>3. Ends(NextWin(p)) = EndOf(p)
      <4>1. Ends(NextWin(p)) \in Nat
        BY <2>3, EndsIs
      <4>2. Ends(NextWin(p)) + 0 = EndOf(p)
        BY <2>3, <3>1, Zenon
      <4> QED BY <4>1, <4>2
    <3> QED BY <3>2, <3>3, Zenon
  <2> QED BY <1>4, <1>6, <2>3, <2>4, Zenon
<1>12. CASE ~(Windowed /\ Pad(p) = 0)
  <2>1. NextWin(p) = Kept(p)
    BY <1>12, Zenon DEF NextWin
  <2>2. ~Kept(p).active
    BY <1>8, <1>9, <1>12, Zenon DEF Breaks, Breaking
  <2>3. ~Ending(p)
    BY <2>1, <2>2, Zenon DEF Ending
  <2>4. Sound(NextWin(p), promised \cup Content(p)) /\ ~Live(NextWin(p))
    BY <2>1, <2>2, Zenon DEF Sound, Live
  <2>5. NextWin(p) \in WinRec
    BY <1>8, <2>1, Zenon
  <2> QED BY <1>4, <1>6, <2>3, <2>4, <2>5, Zenon
<1> QED BY <1>11, <1>12

\* what the samples still to be fetched find behind the step
LEMMA TimedHolds ==
  ASSUME AInv, PlaceTimed, NEW p, p = Head(queue), Pad(p) = 0, ~Leftover(win),
         NEW t \in promised \cup Content(p), t > now + Ahead,
         t \in Content(p) \/ ring[Place(t)] = t
  PROVE  ring'[Place(t)] = t
<1>1. judged # -1
  BY DEF PlaceTimed
<1>2. t \in Int /\ Place(t) \in 0..(Lap - 1)
  <2>1. Content(p) \subseteq Int /\ promised \subseteq Int
    <3>1. Content(p) = p.stamp..(EndOf(p) - 1) /\ p.stamp \in Nat /\ EndOf(p) \in Nat
      BY <1>1, JudgedEnds
    <3>2. promised \subseteq Nat
      BY DEF AInv, ATypeOK
    <3> QED BY <3>1, <3>2
  <2> QED BY <2>1, PlaceIs
<1>3. Written(p)[Place(t)] = t
  <2>1. CASE t \in Content(p)
    BY <1>1, <2>1, WrittenHolds
  <2>2. CASE t \notin Content(p)
    BY <1>1, <2>2, WrittenHolds
  <2> QED BY <2>1, <2>2
<1>4. Breaking(p) => Slot(Place(t)) # win.next
  <2>1. SUFFICES ASSUME Breaking(p) PROVE Slot(Place(t)) # win.next
    OBVIOUS
  <2>2. Breaks(p) /\ win.active
    BY <2>1 DEF Breaking, Breaks
  <2> QED BY <1>1, <2>2, BreakClear
<1>5. Ending(p) => Slot(Place(t)) # NextWin(p).next
  BY <1>1, EndClear, TimedFacts
<1>6. ring'[Place(t)] = IF Ending(p) /\ Slot(Place(t)) = NextWin(p).next THEN Silence
                        ELSE IF Breaking(p) /\ Slot(Place(t)) = win.next THEN Silence
                        ELSE Written(p)[Place(t)]
  BY <1>2, TimedFacts
<1> QED BY <1>3, <1>4, <1>5, <1>6

\* a packet is taken: its samples are promised, the others lie behind it
LEMMA TakenPast ==
  ASSUME AInv, judged # -1, Take, UNCHANGED <<now, kind, sent, feed, aired, flushes>>,
         promised' \in {promised, promised \cup Content(Head(queue))}
  PROVE  Queued' /\ JudgedOK' /\ Past' /\ queue' \in Seq(PacketRec) /\ promised' \subseteq Nat
<1> DEFINE p == Head(queue)
<1>1. queue # <<>> /\ ATypeOK /\ Queued /\ Past
  BY DEF AInv, ATypeOK
<1>2. /\ p.stamp \in Nat /\ EndOf(p) \in Nat /\ Content(p) = p.stamp..(EndOf(p) - 1)
  BY JudgedEnds
<1>3. /\ queue' \in Seq(PacketRec) /\ Queued'
      /\ \A x \in Int : Coming(x) \/ x = EndOf(p) => Coming(x)'
  BY <1>1, TakeInv
<1>4. feed' \in Nat /\ (\A i \in 1..Len(queue') : queue'[i].stamp \in Nat)
  <2>1. feed' \in Nat
    BY <1>1 DEF ATypeOK
  <2>2. ASSUME NEW i \in 1..Len(queue') PROVE queue'[i].stamp \in Nat
    <3>1. queue'[i] \in PacketRec
      BY <1>3
    <3> QED BY <3>1 DEF PacketRec
  <2> QED BY <2>1, <2>2
<1>5. ASSUME NEW t \in promised' PROVE Coming(t + 1)'
  <2>1. CASE t \in promised
    <3>1. Coming(t + 1) /\ t + 1 \in Int
      BY <1>1, <2>1 DEF Past, ATypeOK
    <3> QED BY <1>3, <3>1
  <2>2. CASE t \in Content(p)
    <3>1. t + 1 <= EndOf(p) /\ t + 1 \in Int
      BY <1>2, <2>2
    <3>3. EndOf(p) <= feed' /\ (\A i \in 1..Len(queue') : EndOf(p) <= queue'[i].stamp)
      <4>1. PICK e \in Nat : e = EndOf(p)
        BY <1>2
      <4>2. Coming(e)'
        BY <1>3, <4>1
      <4> HIDE DEF p
      <4>3. e <= feed' /\ (\A i \in 1..Len(queue') : e <= queue'[i].stamp)
        BY <4>2 DEF Coming
      <4> QED BY <4>1, <4>3
    <3>4. t + 1 <= feed' /\ (\A i \in 1..Len(queue') : t + 1 <= queue'[i].stamp)
      BY <1>2, <1>4, <3>1, <3>3
    <3> QED BY <3>4 DEF Coming
  <2> QED BY <2>1, <2>2
<1>6. Past'
  <2>1. \A t \in aired' : t <= now' + Ahead
    BY <1>1 DEF Past
  <2> QED BY <1>5, <2>1 DEF Past
<1>7. JudgedOK'
  BY DEF JudgedOK, Take
<1>8. promised' \subseteq Nat
  BY <1>1, <1>2, SMTT(40) DEF ATypeOK
<1> QED BY <1>3, <1>6, <1>7, <1>8

\* samples that were in the ring or are the packet's own keep to the ring's order
LEMMA PlacedNeverEarly ==
  ASSUME AInv, judged # -1, UNCHANGED now, NEW p, p = Head(queue),
         ring' \in [0..(Lap - 1) -> {Silence} \cup Nat],
         \A x \in 0..(Lap - 1) : ring'[x] \in {Silence, Written(p)[x]}
  PROVE  NeverEarly'
<1>1. /\ now \in Nat /\ p.stamp \in Nat /\ EndOf(p) \in Nat /\ Content(p) = p.stamp..(EndOf(p) - 1)
  BY JudgedEnds
<1>2. EndOf(p) <= now + Lap
  BY JudgedIs
<1>3. \A x \in 0..(Lap - 1) : Written(p)[x] \in {Silence, ring[x]}
                 \/ (Written(p)[x] \in Content(p) /\ Place(Written(p)[x]) = x)
  BY WrittenHolds
<1>4. \A x \in 0..(Lap - 1) : ring[x] # Silence => Place(ring[x]) = x /\ ring[x] <= now + Ahead + Lap
  BY DEF AInv, ATypeOK, NeverEarly, Place
<1>5. \A v \in Content(p) : v <= now + Ahead + Lap
  <2>1. Ahead \in Nat /\ Lap \in Nat
    BY RingFacts
  <2> QED BY <1>1, <1>2, <2>1
<1>6. ASSUME NEW x \in 0..(Lap - 1), ring'[x] # Silence
      PROVE  Place(ring'[x]) = x /\ ring'[x] <= now + Ahead + Lap
  <2>1. ring'[x] = Written(p)[x]
    BY <1>6
  <2>2. CASE Written(p)[x] = ring[x]
    BY <1>4, <1>6, <2>1, <2>2
  <2>3. CASE Written(p)[x] \in Content(p) /\ Place(Written(p)[x]) = x
    BY <1>5, <2>1, <2>3
  <2> QED BY <1>3, <1>6, <2>1, <2>2, <2>3
<1>7. DOMAIN ring' = 0..(Lap - 1)
  OBVIOUS
<1> QED BY <1>6, <1>7 DEF NeverEarly, Place

LEMMA TimedInv ==
  ASSUME AInv, PlaceTimed
  PROVE  AInv' /\ WindowTruth'
<1> DEFINE p == Head(queue)
<1>1. /\ judged # -1 /\ kind = "timed" /\ Take /\ judged' = -1
      /\ promised' = promised \cup Content(p)
      /\ spoilt' = IF Pad(p) # 0 \/ Leftover(win) THEN spoilt \cup {t \in promised' : Overwritten(t)} ELSE spoilt
      /\ UNCHANGED <<now, kind, sent, feed, aired, flushes>>
  BY Zenon DEF PlaceTimed, Take
<1>2. Queued' /\ JudgedOK' /\ Past' /\ queue' \in Seq(PacketRec) /\ promised' \subseteq Nat
  BY <1>1, TakenPast
<1>3. /\ p.stamp \in Nat /\ EndOf(p) \in Nat /\ Content(p) = p.stamp..(EndOf(p) - 1) /\ now \in Nat
  BY <1>1, JudgedEnds
<1>4. now + Ahead < p.stamp
  BY <1>1, JudgedIs
<1>5. /\ ring' \in [0..(Lap - 1) -> {Silence} \cup Nat]
      /\ \A x \in 0..(Lap - 1) :
           ring'[x] = IF Ending(p) /\ Slot(x) = NextWin(p).next THEN Silence
                      ELSE IF Breaking(p) /\ Slot(x) = win.next THEN Silence
                      ELSE Written(p)[x]
      /\ win' = IF Ending(p) THEN NoWin ELSE NextWin(p)
      /\ out' = (IF Breaking(p) THEN {win} ELSE {}) \cup (IF Ending(p) THEN {NextWin(p)} ELSE {})
      /\ NextWin(p) \in WinRec
      /\ Sound(NextWin(p), promised \cup Content(p))
      /\ Live(NextWin(p)) => EndOf(p) = Ends(NextWin(p)) + NextWin(p).jump
  BY TimedFacts
<1>6. NoWin \in WinRec /\ ~NoWin.active
  <2>1. N \in Nat \ {0}
    BY RingFacts
  <2> QED BY <2>1 DEF WinRec, NoWin
<1>7. win' \in WinRec
  BY <1>5, <1>6
<1>8. spoilt' \subseteq Nat
  BY <1>1, <1>2 DEF AInv, ATypeOK
<1>9. ATypeOK'
  BY <1>1, <1>2, <1>5, <1>7, <1>8 DEF AInv, ATypeOK, PacketRec, WinRec
<1>10. WinOK'
  <2>1. CASE Ending(p)
    <3>1. win' = NoWin /\ ~win'.active
      BY <1>5, <1>6, <2>1
    <3> QED BY <3>1 DEF WinOK, Sound, Live
  <2>2. CASE ~Ending(p)
    <3> DEFINE w == NextWin(p)
    <3>1. win' = w
      BY <1>5, <2>2
    <3> HIDE DEF w
    <3>2. Sound(w, promised \cup Content(p)) /\ (Live(w) => EndOf(p) = Ends(w) + w.jump)
      BY <1>5 DEF w
    <3>3. Sound(win, promised)'
      BY <1>1, <3>1, <3>2, Zenon DEF Sound, Live, Aligned, Place, Slot, Ends
    <3>4. ASSUME Live(win)' PROVE Coming(Ends(win) + win.jump)'
      <4>1. Live(w)
        BY <3>1, <3>4 DEF Live
      <4>2. PICK e \in Int : e = EndOf(p)
        BY <1>3
      <4>3. Coming(e)'
        <5>1. queue # <<>> /\ ATypeOK /\ Queued
          BY <1>1 DEF AInv, ATypeOK
        <5> QED BY <1>1, <4>2, <5>1, TakeInv
      <4>4. (Ends(win) + win.jump)' = e
        BY <3>1, <3>2, <4>1, <4>2 DEF Ends
      <4> QED BY <4>3, <4>4 DEF Coming
    <3> QED BY <3>3, <3>4 DEF WinOK, Live
  <2> QED BY <2>1, <2>2
<1>11. NeverEarly'
  <2>1. \A x \in 0..(Lap - 1) : ring'[x] \in {Silence, Written(p)[x]}
    BY <1>5
  <2> QED BY <1>1, <1>5, <2>1, PlacedNeverEarly
<1>12. \A t \in promised : t \notin spoilt => t \in aired \/ (t > now + Ahead /\ ring[Place(t)] = t)
  BY DEF AInv, PlacedAirs, Place
<1>13. \A t \in Content(p) : t > now + Ahead
  <2>1. Ahead \in Nat
    BY RingFacts
  <2> QED BY <1>3, <1>4, <2>1
<1>14. ASSUME NEW t \in promised', t \notin spoilt'
       PROVE  t \in aired \/ (t > now + Ahead /\ ring'[Place(t)] = t)
  <2>1. CASE Pad(p) # 0 \/ Leftover(win)
    <3>1. t \notin spoilt /\ ~Overwritten(t)
      BY <1>1, <1>14, <2>1
    <3>2. t > now + Ahead => ring'[Place(t)] = t
      BY <3>1 DEF Overwritten, Place
    <3>3. t \in aired \/ t > now + Ahead
      BY <1>1, <1>12, <1>13, <1>14, <3>1
    <3> QED BY <3>2, <3>3
  <2>2. CASE Pad(p) = 0 /\ ~Leftover(win)
    <3>1. t \notin spoilt
      BY <1>1, <1>14, <2>2
    <3>2. t \in aired \/ (t > now + Ahead /\ (t \in Content(p) \/ ring[Place(t)] = t))
      BY <1>1, <1>12, <1>13, <1>14, <3>1
    <3> QED BY <1>1, <1>14, <2>2, <3>2, TimedHolds
  <2> QED BY <2>1, <2>2
<1>15. PlacedAirs'
  BY <1>1, <1>14 DEF PlacedAirs, Place
<1>16. ASSUME NEW w \in WinRec, w.active, ~w.old, ~(w.jump > 0 /\ w.jump % Lap = 0),
              Sound(w, promised) \/ Sound(w, promised \cup Content(p)),
              \A x \in 0..(Lap - 1) : Slot(x) = w.next => ring'[x] = Silence,
              NEW t \in w.open..(Ends(w) + Tps - 1), t \notin spoilt', t > now + Ahead
       PROVE  ring'[Place(t)] = IF t < Ends(w) THEN t ELSE Silence
  <2>1. /\ Aligned(w.open) /\ w.next = Slot(Place(Ends(w))) /\ w.jump >= 0 /\ w.jump % Lap = 0
        /\ w.jump = 0 => w.open..(Ends(w) - 1) \subseteq promised'
    BY <1>1, <1>16 DEF Sound, Live
  <2>2. Ends(w) \in Nat /\ w.open \in Nat /\ w.jump \in Nat /\ Aligned(Ends(w)) /\ Tps \in Nat
    BY <2>1, EndsIs, RingFacts
  <2>3. w.jump = 0 /\ t \in Int
    BY <1>16, <2>1, <2>2
  <2>4. CASE t < Ends(w)
    <3>1. t \in promised'
      BY <2>1, <2>2, <2>3, <2>4
    <3>2. t \notin aired
      <4>1. \A u \in aired : u <= now + Ahead
        BY DEF AInv, Past
      <4>2. Ahead \in Nat
        BY RingFacts
      <4> QED BY <1>3, <1>16, <2>3, <4>1, <4>2
    <3> QED BY <1>14, <1>16, <2>4, <3>1, <3>2
  <2>5. CASE ~(t < Ends(w))
    <3>1. t \in Ends(w)..(Ends(w) + Tps - 1)
      BY <2>2, <2>3, <2>5
    <3>2. Slot(Place(t)) = Slot(Place(Ends(w)))
      <4>1. Ends(w) \in Int /\ 0 \in Int
        BY <2>2
      <4> QED BY <2>2, <3>1, <4>1, SlotsAhead, Zenon
    <3>3. Place(t) \in 0..(Lap - 1)
      BY <2>3, PlaceIs
    <3> QED BY <1>16, <2>1, <2>5, <3>2, <3>3
  <2> QED BY <2>4, <2>5
<1>17. ASSUME NEW w \in out'
       PROVE  /\ w \in WinRec /\ w.active /\ (Sound(w, promised) \/ Sound(w, promised \cup Content(p)))
              /\ \A x \in 0..(Lap - 1) : Slot(x) = w.next => ring'[x] = Silence
  <2>1. CASE Breaking(p) /\ w = win
    <3>1. win \in WinRec /\ win.active /\ Sound(win, promised)
      BY <2>1 DEF AInv, ATypeOK, WinOK, WinRec, Breaking, Breaks
    <3> QED BY <1>5, <2>1, <3>1
  <2>2. CASE Ending(p) /\ w = NextWin(p)
    <3>1. NextWin(p).active
      BY <2>2 DEF Ending
    <3> QED BY <1>5, <2>2, <3>1
  <2> QED BY <1>5, <1>17, <2>1, <2>2
<1>18. WindowTruth'
  <2> SUFFICES ASSUME NEW w \in out', ~w.old, ~(w.jump > 0 /\ w.jump % Lap = 0),
                      NEW t \in (w.open .. ((w.open + w.slots * Tps) + Tps - 1)) \ spoilt', t > now' + Ahead
               PROVE  ring'[(t - T0) % Lap] = IF t < w.open + w.slots * Tps THEN t ELSE Silence
    BY DEF WindowTruth
  <2>1. t \in w.open..(Ends(w) + Tps - 1) /\ t \notin spoilt' /\ t > now + Ahead
    BY <1>1 DEF Ends
  <2>2. ring'[Place(t)] = IF t < Ends(w) THEN t ELSE Silence
    BY <1>16, <1>17, <2>1
  <2> QED BY <2>2 DEF Place, Ends
<1> QED BY <1>2, <1>9, <1>10, <1>11, <1>15, <1>18 DEF AInv

LEMMA PosInv ==
  ASSUME AInv, PlacePos
  PROVE  AInv'
<1> DEFINE p == Head(queue)
<1>1. /\ judged # -1 /\ kind = "pos" /\ Take /\ judged' = -1 /\ Pad(p) = 0
      /\ ring' = Written(p) /\ promised' = promised \cup Content(p)
      /\ UNCHANGED <<now, kind, sent, feed, win, aired, spoilt, flushes>>
  BY Zenon DEF PlacePos, Take
<1>2. Queued' /\ JudgedOK' /\ Past' /\ queue' \in Seq(PacketRec) /\ promised' \subseteq Nat
  BY <1>1, TakenPast
<1>3. Written(p) \in [0..(Lap - 1) -> {Silence} \cup Nat]
  BY <1>1, WrittenHolds
<1>4. ATypeOK'
  BY <1>1, <1>2, <1>3 DEF AInv, ATypeOK, PacketRec
<1>5. WinOK'
  <2>1. ~Live(win)
    BY <1>1 DEF AInv, WinOK, Sound
  <2>2. Sound(win, promised)'
    BY <1>1, <2>1, Zenon DEF AInv, WinOK, Sound, Live, Aligned, Place, Slot, Ends
  <2> QED BY <1>1, <2>1, <2>2 DEF WinOK, Live
<1>6. NeverEarly'
  <2>1. \A x \in 0..(Lap - 1) : ring'[x] \in {Silence, Written(p)[x]}
    BY <1>1
  <2> QED BY <1>1, <1>3, <2>1, PlacedNeverEarly
<1>7. PlacedAirs'
  <2> SUFFICES ASSUME NEW t \in promised', t \notin spoilt
               PROVE  t \in aired \/ (t > now + Ahead /\ ring'[Place(t)] = t)
    BY <1>1 DEF PlacedAirs, Place
  <2>1. CASE t \in Content(p)
    <3>1. p.stamp \in Nat /\ EndOf(p) \in Nat /\ Content(p) = p.stamp..(EndOf(p) - 1) /\ now \in Nat /\ Ahead \in Nat
      BY <1>1, JudgedEnds, RingFacts
    <3>2. now + Ahead < p.stamp
      BY <1>1, JudgedIs
    <3>3. t > now + Ahead
      BY <2>1, <3>1, <3>2
    <3> QED BY <1>1, <2>1, <3>3, WrittenHolds
  <2>2. CASE t \in promised
    <3>1. t \in aired \/ (t > now + Ahead /\ ring[Place(t)] = t)
      BY <2>2 DEF AInv, PlacedAirs, Place
    <3> QED BY <1>1, <2>2, <3>1, WrittenHolds
  <2> QED BY <1>1, <2>1, <2>2
<1> QED BY <1>2, <1>4, <1>5, <1>6, <1>7 DEF AInv

\* the ring and the windows as they are, the packet gone
LEMMA DropInv ==
  ASSUME AInv, queue # <<>>, Take, UNCHANGED <<now, kind, sent, feed, ring, win, promised, aired, spoilt, flushes>>
  PROVE  AInv'
<1>1. ATypeOK /\ Queued /\ Past /\ WinOK /\ NeverEarly /\ PlacedAirs
  BY DEF AInv
<1>2. /\ queue' \in Seq(PacketRec) /\ Queued'
      /\ \A x \in Int : Coming(x) => Coming(x)'
  BY <1>1, TakeInv
<1>3. ATypeOK'
  BY <1>1, <1>2 DEF ATypeOK, PacketRec, Take
<1>4. JudgedOK'
  BY DEF JudgedOK, Take
<1>5. Past'
  <2>1. ASSUME NEW t \in promised PROVE Coming(t + 1)'
    <3>1. Coming(t + 1) /\ t + 1 \in Int
      BY <1>1 DEF Past, ATypeOK
    <3> QED BY <1>2, <3>1
  <2> QED BY <1>1, <2>1 DEF Past
<1>6. WinOK'
  <2>1. Sound(win, promised)'
    BY <1>1, Zenon DEF WinOK, Sound, Live, Aligned, Place, Slot, Ends
  <2>2. ASSUME Live(win) PROVE Coming(Ends(win) + win.jump)'
    <3>1. PICK e \in Int : e = Ends(win) + win.jump
      <4>1. win \in WinRec
        BY <1>1 DEF ATypeOK, WinRec
      <4>2. Ends(win) \in Nat /\ win.jump \in Nat
        BY <4>1, EndsIs
      <4> QED BY <4>2
    <3>2. Coming(e)
      BY <1>1, <2>2, <3>1 DEF WinOK
    <3>3. Coming(e)'
      BY <1>2, <3>2
    <3> QED BY <3>1, <3>3 DEF Coming, Ends
  <2> QED BY <2>1, <2>2 DEF WinOK, Live
<1>7. NeverEarly' /\ PlacedAirs'
  BY <1>1 DEF NeverEarly, PlacedAirs
<1> QED BY <1>2, <1>3, <1>4, <1>5, <1>6, <1>7 DEF AInv

LEMMA AcceptInv ==
  ASSUME AInv, InReach, Accept
  PROVE  AInv'
<1>1. /\ queue # <<>> /\ judged = -1 /\ Verdict(Head(queue)) = "good" /\ judged' = now
      /\ UNCHANGED <<now, kind, sent, feed, queue, ring, win, promised, aired, spoilt, flushes>>
  BY DEF Accept, Ready
<1>2. ATypeOK /\ Queued /\ Past /\ WinOK /\ NeverEarly /\ PlacedAirs
  BY DEF AInv
<1>3. now \in Nat /\ {Ahead, MinLead, MaxLead} \subseteq Nat /\ Ahead < MinLead
  <2>1. Start + TimeMax \in Nat /\ Start \in Nat
    BY TxAirAssumption, RingFacts
  <2> QED BY <1>2, <2>1, RingFacts DEF ATypeOK
<1>4. Head(queue) \in PacketRec
  <2>1. queue \in Seq(PacketRec)
    BY <1>2 DEF ATypeOK, PacketRec
  <2> QED BY <1>1, <2>1
<1>5. Head(queue).stamp - now \in MinLead..MaxLead
  BY <1>1, <1>3, <1>4, ExtendIs DEF InReach
<1>6. JudgedOK'
  BY <1>1, <1>3, <1>5 DEF JudgedOK
<1>7. ATypeOK'
  BY <1>1, <1>2, <1>3 DEF ATypeOK
<1>8. Queued' /\ Past' /\ NeverEarly' /\ PlacedAirs'
  BY <1>1, <1>2 DEF Queued, Past, Coming, NeverEarly, PlacedAirs, EndOf
<1>9. WinOK'
  BY <1>1, <1>2, Zenon DEF WinOK, Sound, Live, Aligned, Place, Slot, Ends, Coming
<1> QED BY <1>6, <1>7, <1>8, <1>9 DEF AInv

LEMMA AirSend ==
  ASSUME AInv, NEW gap \in Gap, NEW multi \in Multi, NEW eob \in BOOLEAN, Send(gap, multi, eob)
  PROVE  AInv'
<1> DEFINE p == [stamp |-> feed + gap, multi |-> multi, eob |-> eob]
<1>1. /\ sent < PktMax /\ sent' = sent + 1 /\ queue' = Append(queue, p)
      /\ feed' = feed + gap + (IF eob THEN multi + 1 ELSE multi) * Tps
      /\ UNCHANGED <<now, kind, judged, ring, win, promised, aired, spoilt, flushes>>
  BY Zenon DEF Send
<1>2. ATypeOK /\ Queued /\ JudgedOK /\ Past /\ WinOK /\ NeverEarly /\ PlacedAirs
  BY DEF AInv
<1>3. feed \in Nat /\ gap \in Nat /\ queue \in Seq(PacketRec) /\ PktMax \in Nat /\ Tps \in Nat /\ feed + gap \in Nat
  BY <1>2, TxAirAssumption, RingFacts DEF ATypeOK, PacketRec
<1>4. p \in PacketRec
  BY <1>3 DEF PacketRec
<1>5. p.stamp = feed + gap /\ p.multi = multi
  OBVIOUS
<1> HIDE DEF p
<1>6. EndOf(p) \in Nat /\ EndOf(p) <= feed' /\ feed' \in Nat /\ feed <= p.stamp /\ feed <= feed'
  <2>1. /\ multi \in Nat \ {0} /\ multi * Tps \in Nat /\ EndOf(p) = (feed + gap) + multi * Tps /\ EndOf(p) \in Nat
    BY <1>4, <1>5, EndOfIs
  <2>2. PICK M \in Nat : M = multi * Tps
    BY <2>1
  <2>3. (multi + 1) * Tps = M + Tps
    <3>1. (multi + 1) * Tps = multi * Tps + 1 * Tps /\ 1 * Tps = Tps
      BY <1>3, <2>1, Distribute
    <3> QED BY <2>2, <3>1
  <2>4. EndOf(p) = (feed + gap) + M
    BY <2>1, <2>2, Zenon
  <2>5. feed' = (feed + gap) + M \/ feed' = (feed + gap) + (M + Tps)
    BY <1>1, <2>2, <2>3
  <2> QED BY <1>3, <1>5, <2>4, <2>5
<1>7. /\ queue' \in Seq(PacketRec) /\ Len(queue') = Len(queue) + 1 /\ Len(queue) \in Nat
      /\ \A i \in 1..Len(queue) : i \in 1..Len(queue') /\ queue'[i] = queue[i] /\ queue[i] \in PacketRec
      /\ queue'[Len(queue) + 1] = p
      /\ \A i \in 1..Len(queue') : i \in 1..Len(queue) \/ i = Len(queue) + 1
      /\ queue # <<>> => Head(queue') = Head(queue)
  BY <1>1, <1>3, <1>4
<1>8. ASSUME NEW x \in Int, Coming(x) PROVE Coming(x)'
  <2>1. x <= feed /\ \A i \in 1..Len(queue) : x <= queue[i].stamp
    BY <1>8 DEF Coming
  <2>2. x <= feed' /\ x <= p.stamp
    BY <1>3, <1>4, <1>6, <2>1, EndOfIs
  <2>3. \A i \in 1..Len(queue') : x <= queue'[i].stamp
    BY <1>7, <2>1, <2>2
  <2> QED BY <2>2, <2>3 DEF Coming
<1>9. Queued'
  <2>1. ASSUME NEW i \in 1..Len(queue) PROVE EndOf(queue[i]) <= feed /\ EndOf(queue[i]) \in Nat
    BY <1>2, <1>7, EndOfIs DEF Queued
  <2>2. ASSUME NEW i \in 1..Len(queue')
        PROVE  /\ EndOf(queue'[i]) <= feed'
               /\ \A j \in 1..Len(queue') : i < j => EndOf(queue'[i]) <= queue'[j].stamp
    <3>1. CASE i = Len(queue) + 1
      BY <1>6, <1>7, <3>1
    <3>2. CASE i \in 1..Len(queue)
      <4>1. queue'[i] = queue[i] /\ EndOf(queue[i]) <= feed /\ EndOf(queue[i]) \in Nat
        BY <1>7, <2>1, <3>2
      <4>2. EndOf(queue'[i]) <= feed' /\ EndOf(queue'[i]) <= p.stamp
        BY <1>3, <1>4, <1>6, <4>1, EndOfIs, SMTT(40)
      <4>3. ASSUME NEW j \in 1..Len(queue), i < j PROVE EndOf(queue'[i]) <= queue'[j].stamp
        BY <1>2, <1>7, <3>2, <4>1, <4>3 DEF Queued
      <4> QED BY <1>7, <4>2, <4>3
    <3> QED BY <1>7, <3>1, <3>2
  <2> QED BY <2>2, Zenon DEF Queued, EndOf
<1>10. Past'
  <2>1. ASSUME NEW t \in promised PROVE Coming(t + 1)'
    <3>1. Coming(t + 1) /\ t + 1 \in Int
      BY <1>2 DEF Past, ATypeOK
    <3> QED BY <1>8, <3>1
  <2> QED BY <1>1, <1>2, <2>1 DEF Past
<1>11. WinOK'
  <2>1. Sound(win, promised)'
    BY <1>1, <1>2, Zenon DEF WinOK, Sound, Live, Aligned, Place, Slot, Ends
  <2>2. ASSUME Live(win) PROVE Coming(Ends(win) + win.jump)'
    <3>1. PICK e \in Int : e = Ends(win) + win.jump
      <4>1. win \in WinRec
        BY <1>2 DEF ATypeOK, WinRec
      <4>2. Ends(win) \in Nat /\ win.jump \in Nat
        BY <4>1, EndsIs
      <4> QED BY <4>2
    <3>2. Coming(e)
      BY <1>2, <2>2, <3>1 DEF WinOK
    <3>3. Coming(e)'
      BY <1>8, <3>2
    <3> QED BY <1>1, <3>1, <3>3 DEF Coming, Ends
  <2> QED BY <1>1, <2>1, <2>2 DEF WinOK, Live
<1>12. JudgedOK'
  <2>1. judged # -1 => queue # <<>>
    BY <1>2 DEF ATypeOK
  <2> QED BY <1>1, <1>2, <1>7, <2>1 DEF JudgedOK
<1>13. ATypeOK'
  <2>1. sent' \in 0..PktMax
    BY <1>1, <1>2, <1>3 DEF ATypeOK
  <2>2. queue' # <<>>
    BY <1>7
  <2> QED BY <1>1, <1>2, <1>6, <1>7, <2>1, <2>2 DEF ATypeOK, PacketRec
<1>14. NeverEarly' /\ PlacedAirs'
  BY <1>1, <1>2 DEF NeverEarly, PlacedAirs
<1> QED BY <1>9, <1>10, <1>11, <1>12, <1>13, <1>14 DEF AInv

LEMMA TickInv ==
  ASSUME AInv, Tick
  PROVE  AInv'
<1>1. /\ now < Start + TimeMax /\ (judged # -1 => now + 1 - judged < MinLead - Ahead) /\ now' = now + 1
      /\ aired' = aired \cup ({now + 1 + Ahead} \cap {ring[(now + 1 + Ahead - T0) % Lap]})
      /\ UNCHANGED <<kind, sent, feed, queue, judged, ring, win, promised, spoilt, flushes>>
  BY DEF Tick
<1>2. ATypeOK /\ Queued /\ JudgedOK /\ Past /\ WinOK /\ NeverEarly /\ PlacedAirs
  BY DEF AInv
<1>3. now \in Nat /\ {Ahead, MinLead, MaxLead, Lap, Start, T0} \subseteq Nat /\ Start + TimeMax \in Nat
      /\ now \in Start..(Start + TimeMax) /\ TimeMax \in Nat
  <2>1. Start + TimeMax \in Nat /\ {Ahead, MinLead, MaxLead, Lap, Start, T0} \subseteq Nat /\ TimeMax \in Nat
    BY TxAirAssumption, RingFacts
  <2>2. now \in Start..(Start + TimeMax)
    BY <1>2 DEF ATypeOK
  <2> QED BY <2>1, <2>2
<1>4. PICK u \in Nat : u = now + 1 + Ahead
  BY <1>3
<1>5. \A t \in aired' : t \in aired \/ (t = u /\ ring[Place(u)] = u)
  BY <1>1, <1>4 DEF Place
<1>6. ring[Place(u)] = u => u \in aired'
  <2>1. now + 1 + Ahead - T0 = u - T0
    BY <1>3, <1>4
  <2>2. aired' = aired \cup ({u} \cap {ring[(u - T0) % Lap]})
    BY <1>1, <1>4, <2>1, Zenon
  <2> QED BY <2>2 DEF Place
<1>7. ATypeOK'
  <2>1. now' \in Start..(Start + TimeMax)
    BY <1>1, <1>3
  <2>2. aired' \subseteq Nat
    BY <1>2, <1>5 DEF ATypeOK
  <2> QED BY <1>1, <1>2, <2>1, <2>2 DEF ATypeOK
<1>8. JudgedOK'
  <2>1. judged # -1 => judged \in Nat
    BY <1>2 DEF ATypeOK
  <2>2. judged # -1 => judged <= now + 1 /\ (now + 1) - judged < MinLead - Ahead
    BY <1>1, <1>2, <1>3, <2>1 DEF JudgedOK
  <2> QED BY <1>1, <1>2, <2>2 DEF JudgedOK
<1>9. Past'
  <2>1. \A t \in aired' : t <= now' + Ahead
    <3>1. \A t \in aired : t <= now + Ahead /\ t \in Nat
      BY <1>2 DEF Past, ATypeOK
    <3>2. u <= now' + Ahead /\ (\A t \in aired : t <= now' + Ahead)
      BY <1>1, <1>3, <1>4, <3>1
    <3> QED BY <1>5, <3>2
  <2>2. \A t \in promised : Coming(t + 1)'
    BY <1>1, <1>2 DEF Past, Coming
  <2> QED BY <1>1, <2>1, <2>2 DEF Past
<1>10. Queued'
  BY <1>1, <1>2 DEF Queued, EndOf
<1>11. WinOK'
  <2>1. Ends(win) \in Nat
    BY <1>2, EndsIs DEF ATypeOK, WinRec
  <2>2. (Ends(win) <= now + Lap => Ends(win) <= now' + Lap) /\ (Ends(win) <= now => Ends(win) <= now')
    BY <1>1, <1>3, <2>1
  <2>3. Sound(win, promised)'
    BY <1>1, <1>2, <2>2, Zenon DEF WinOK, Sound, Live, Aligned, Place, Slot, Ends
  <2>4. Live(win) => Coming(Ends(win) + win.jump)'
    BY <1>1, <1>2, Zenon DEF WinOK, Coming, Ends
  <2> QED BY <1>1, <2>3, <2>4 DEF WinOK, Live
<1>12. NeverEarly'
  <2> SUFFICES ASSUME NEW x \in DOMAIN ring, ring[x] # Silence
               PROVE  (ring[x] - T0) % Lap = x /\ ring[x] <= (now + 1) + Ahead + Lap
    BY <1>1 DEF NeverEarly
  <2>1. (ring[x] - T0) % Lap = x /\ ring[x] <= now + Ahead + Lap /\ ring[x] \in Nat
    BY <1>2 DEF NeverEarly, ATypeOK
  <2> QED BY <1>3, <2>1
<1>13. PlacedAirs'
  <2> SUFFICES ASSUME NEW t \in promised, t \notin spoilt
               PROVE  t \in aired' \/ (t > (now + 1) + Ahead /\ ring[Place(t)] = t)
    BY <1>1 DEF PlacedAirs, Place
  <2>1. t \in aired \/ (t > now + Ahead /\ ring[Place(t)] = t)
    BY <1>2 DEF PlacedAirs, Place
  <2>2. CASE t \in aired
    BY <1>1, <2>2
  <2>3. CASE t > now + Ahead /\ ring[Place(t)] = t
    <3>1. t \in Nat
      BY <1>2 DEF ATypeOK
    <3>2. t = u \/ t > (now + 1) + Ahead
      <4>1. now \in Nat /\ Ahead \in Nat /\ t > now + Ahead
        BY <1>3, <2>3
      <4> QED BY <1>4, <3>1, <4>1
    <3> QED BY <1>6, <2>3, <3>2
  <2> QED BY <2>1, <2>2, <2>3
<1> QED BY <1>7, <1>8, <1>9, <1>10, <1>11, <1>12, <1>13 DEF AInv

LEMMA AirFlush ==
  ASSUME AInv, NEW scrub \in BOOLEAN, NEW k \in Kind, Flush(scrub, k)
  PROVE  AInv'
<1>1. /\ flushes < FlushCap /\ judged = -1 /\ flushes' = flushes + 1
      /\ queue' = <<>> /\ kind' = k /\ feed' = now + MinLead
      /\ ring' = IF scrub THEN [x \in DOMAIN ring |-> Silence] ELSE ring
      /\ promised' = {} /\ aired' = {} /\ spoilt' = {}
      /\ win' = [win EXCEPT !.old = win.active]
      /\ UNCHANGED <<now, sent, judged>>
  BY DEF Flush
<1>2. ATypeOK /\ WinOK /\ NeverEarly
  BY DEF AInv
<1>3. now \in Nat /\ MinLead \in Nat /\ FlushCap \in Nat
  <2>1. Start + TimeMax \in Nat /\ {Start, MinLead} \subseteq Nat /\ FlushCap \in Nat
    BY TxAirAssumption, RingFacts
  <2> QED BY <1>2, <2>1 DEF ATypeOK
<1>4. win \in WinRec
  BY <1>2 DEF ATypeOK, WinRec
<1>5. /\ win' \in WinRec /\ win'.active = win.active /\ win'.old = win.active
      /\ win'.open = win.open /\ win'.next = win.next /\ win'.slots = win.slots /\ win'.jump = win.jump
  BY <1>1, <1>4 DEF WinRec
<1>6. ring' \in [0..(Lap - 1) -> {Silence} \cup Nat]
  BY <1>1, <1>2 DEF ATypeOK
<1>7. ATypeOK'
  <2>1. flushes' \in 0..FlushCap
    BY <1>1, <1>2, <1>3, SMTT(40) DEF ATypeOK
  <2>2. feed' \in Nat
    BY <1>1, <1>3
  <2> QED BY <1>1, <1>2, <1>5, <1>6, <2>1, <2>2 DEF ATypeOK, WinRec
<1>8. Queued' /\ JudgedOK' /\ Past' /\ PlacedAirs'
  BY <1>1 DEF Queued, JudgedOK, Past, PlacedAirs
<1>9. WinOK'
  <2>1. ~Live(win)'
    BY <1>5 DEF Live
  <2>2. Ends(win)' = Ends(win)
    BY <1>5 DEF Ends
  <2>3. win'.active => /\ Windowed /\ Aligned(win.open) /\ win.next = Slot(Place(Ends(win)))
                       /\ win.jump >= 0 /\ win.jump % Lap = 0 /\ Ends(win) <= now + Lap
    BY <1>2, <1>5, Zenon DEF WinOK, Sound
  <2>4. Sound(win, promised)'
    BY <1>1, <1>5, <2>1, <2>2, <2>3, Zenon DEF Sound, Live, Aligned, Place, Slot, Ends
  <2> QED BY <2>1, <2>4 DEF WinOK
<1>10. NeverEarly'
  BY <1>1, <1>2 DEF NeverEarly
<1> QED BY <1>7, <1>8, <1>9, <1>10 DEF AInv

LEMMA AirStep == AInv /\ InReach /\ [ANext]_avars => AInv'
<1> SUFFICES ASSUME AInv, InReach, [ANext]_avars PROVE AInv'
  OBVIOUS
<1>1. ASSUME NEW gap \in Gap, NEW multi \in Multi, NEW eob \in BOOLEAN, Send(gap, multi, eob) PROVE AInv'
  BY <1>1, AirSend
<1>2. CASE Reject
  BY <1>2, DropInv DEF Reject, Ready
<1>3. CASE Accept
  BY <1>3, AcceptInv
<1>4. CASE PlaceTimed
  BY <1>4, TimedInv
<1>5. CASE PlacePos
  BY <1>5, PosInv
<1>6. CASE Refuse
  BY <1>6, DropInv DEF Refuse, AInv, ATypeOK
<1>7. CASE Tick
  BY <1>7, TickInv
<1>8. ASSUME NEW scrub \in BOOLEAN, NEW k \in Kind, Flush(scrub, k) PROVE AInv'
  BY <1>8, AirFlush
<1>9. CASE UNCHANGED avars
  <2>1. UNCHANGED <<now, kind, sent, feed, queue, judged, ring, win, promised, aired, spoilt, flushes>>
    BY <1>9 DEF avars
  <2> QED BY <2>1 DEF AInv, ATypeOK, Queued, JudgedOK, Past, Coming, WinOK, Sound, Live, NeverEarly, PlacedAirs,
                      Ends, EndOf, Aligned, Place, Slot
<1> QED BY <1>1, <1>2, <1>3, <1>4, <1>5, <1>6, <1>7, <1>8, <1>9 DEF ANext

\* windows are handed over by timed placements alone
LEMMA StepTruth == AInv /\ WindowTruth /\ [ANext]_avars => WindowTruth'
<1> SUFFICES ASSUME AInv, WindowTruth, [ANext]_avars PROVE WindowTruth'
  OBVIOUS
<1>1. CASE PlaceTimed
  BY <1>1, TimedInv
<1>2. CASE out' = {}
  BY <1>2 DEF WindowTruth
<1>3. CASE UNCHANGED avars
  BY <1>3 DEF avars, WindowTruth
<1> QED BY <1>1, <1>2, <1>3 DEF ANext, Send, Reject, Accept, PlacePos, Refuse, Tick, Flush

LEMMA AirInvariant == ASpec /\ []InReach => []AInv
BY AirInit, AirStep, PTL DEF ASpec

\* Every variable of TxAir keeps its type: slots are masked to the ring, a window's
\* length, opening and gap are never negative.
THEOREM AirTypes == ASpec /\ []InReach => []ATypeOK
<1>1. AInv => ATypeOK
  BY DEF AInv
<1> QED BY <1>1, AirInvariant, PTL

\* Every sample counted as placed is fetched at its tick, as long as no stamp is a
\* whole wrap away from the timer when it is judged.
THEOREM PlacedSamplesAir == ASpec /\ []InReach => []PlacedAirs
<1>1. AInv => PlacedAirs
  BY DEF AInv
<1> QED BY <1>1, AirInvariant, PTL

\* No sample lies at a place the firmware passes before its tick.
THEOREM NothingAirsEarly == ASpec /\ []InReach => []NeverEarly
<1>1. AInv => NeverEarly
  BY DEF AInv
<1> QED BY <1>1, AirInvariant, PTL

\* A window handed to the sink holds its samples and the silence behind them.
THEOREM WindowsHoldTruth == ASpec /\ []InReach => []WindowTruth
<1>1. AInit => WindowTruth
  BY DEF AInit, WindowTruth
<1> QED BY <1>1, AirInvariant, StepTruth, PTL DEF ASpec
=============================================================================
