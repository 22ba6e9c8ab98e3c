-------------------------- MODULE RxUsbLaneProofs --------------------------
(***************************************************************************)
(* Proofs about module RxUsbLane for one streaming lane: what it ships is  *)
(* a stream of FlaggedStream, however long packets, ring and backlog are,  *)
(* no packet hides a seam, and none is rewritten in flight that fewer have *)
(* overtaken than the ring has slots to spare.  (Several lanes share slot  *)
(* 0 after a reset and write into each other's packets there.)             *)
(***************************************************************************)
EXTENDS RxUsbLane, FiniteSetTheorems, SequenceTheorems, TLAPS

Sub  == [lane : Lane, pt : Nat, discont : BOOLEAN, epoch : Nat]
Part == [pt : Nat, epoch : Nat]
Pkt  == [lane : Lane \cup {NoPkt}, pt : Nat, epoch : Nat, flag : BOOLEAN, cc : Nat, elems : Nat,
         body : [1..PktSubs -> {NoPkt} \cup (Lane \X Nat)]]
Head0 == [cc : Nat, pt : Nat, elems : Nat, epoch : Nat, flag : BOOLEAN]

LaneTypes ==
  /\ fw \in [Lane -> Nat] /\ epoch \in Nat /\ la \in Seq(Sub) /\ lap \in Seq(Sub)
  /\ todo \in Int /\ todo <= Len(la) /\ anew \subseteq Lane
  /\ mem \in [Slots -> Pkt] /\ head \in Slots /\ slot \in [Lane -> Slots]
  /\ subs \in [Lane -> Seq(Part)] /\ cc \in [Lane -> Nat] /\ jump \in [Lane -> BOOLEAN]
  /\ down \in BOOLEAN /\ last \in [Lane -> Head0 \cup {NoPkt}]

(***************************************************************************)
(* The inductive invariant.  q joins what ends at stamp x in epoch e when  *)
(* it continues it or declares that it does not.                           *)
(***************************************************************************)
Joins(e, x, q) == q.discont \/ q.epoch # e \/ q.pt = x

\* the sub-buffer the firmware would write next
Coming(l) == [lane |-> l, pt |-> fw[l], discont |-> FALSE, epoch |-> epoch]

\* sub-buffers s, and the one c behind them, declare every gap
Runs(s, e, c) ==
  /\ \A i \in 1..Len(s) : s[i].epoch <= e
  /\ \A i \in 1..(Len(s) - 1) : Joins(s[i].epoch, s[i].pt + 1, s[i + 1])
  /\ s # <<>> => Joins(s[Len(s)].epoch, s[Len(s)].pt + 1, c)

\* what is in the ring, and what a reset would find there
RingOK(l) == Runs(la, epoch, Coming(l)) /\ Runs(lap, epoch, Coming(l))

First(l) == IF la # <<>> THEN la[1] ELSE Coming(l)

\* what the producer takes next joins what it has, unless it owes a DISCONT;
\* after a reset it need not join what was shipped before
HeadOK(l) ==
  ~jump[l] =>
    /\ subs[l] # <<>> => Joins(mem[slot[l]].epoch, mem[slot[l]].pt + Len(subs[l]), First(l))
    /\ subs[l] = <<>> /\ last[l] # NoPkt /\ l \notin anew => Joins(last[l].epoch, last[l].pt + last[l].elems, First(l))

\* the packet being assembled joins the last one shipped
PacketOK(l) ==
  /\ subs[l] # <<>> => mem[slot[l]].epoch <= epoch
  /\ last[l] # NoPkt => last[l].epoch <= epoch /\ last[l].cc = cc[l]
  /\ subs[l] # <<>> /\ last[l] # NoPkt /\ l \notin anew =>
       LET p == mem[slot[l]]
       IN  p.flag \/ p.epoch # last[l].epoch \/ p.pt = last[l].pt + last[l].elems

\* its sub-buffers are one run of stamps, but for a jump that is still owed
PartsOK(l) ==
  \A i \in 1..Len(subs[l]) :
    /\ subs[l][i].epoch = mem[slot[l]].epoch
    /\ jump[l] \/ subs[l][i].pt = mem[slot[l]].pt + i - 1

\* a producer that stands down has dropped its packets and marked its lanes
DownOK(l) == down => todo = 0 /\ jump[l] /\ subs[l] = <<>>

LInv(l) ==
  LaneTypes /\ RingOK(l) /\ HeadOK(l) /\ PacketOK(l) /\ PartsOK(l) /\ DownOK(l)

(***************************************************************************)
(* The steps that the invariant hardly notices.                            *)
(***************************************************************************)
lanevars == <<fw, epoch, la, lap, todo, mem, head, slot, subs, cc, jump, down, last, anew>>

LEMMA LaneStays ==
  ASSUME NEW a, LInv(a), UNCHANGED lanevars
  PROVE  LInv(a)'
BY DEF lanevars, LInv, LaneTypes, RingOK, HeadOK, PacketOK, PartsOK, DownOK, Joins, Coming, First

\* runs of sub-buffers: the empty one, one longer, one shorter, an epoch later
LEMMA RunsEmpty ==
  ASSUME NEW e, NEW c
  PROVE  Runs(<<>>, e, c)
BY DEF Runs

LEMMA RunsLonger ==
  ASSUME NEW s \in Seq(Sub), NEW e \in Nat, NEW c, NEW x \in Sub, NEW d, Runs(s, e, c), x.epoch <= e,
         \A f, y : Joins(f, y, c) => Joins(f, y, x), Joins(x.epoch, x.pt + 1, d)
  PROVE  Runs(Append(s, x), e, d)
<1> DEFINE t == Append(s, x)
<1>1. /\ t \in Seq(Sub) /\ Len(t) = Len(s) + 1 /\ Len(s) \in Nat
      /\ t[Len(s) + 1] = x /\ \A i \in 1..Len(s) : t[i] = s[i]
  OBVIOUS
<1> HIDE DEF t
<1>2. \A i \in 1..Len(t) : t[i].epoch <= e
  BY <1>1 DEF Runs
<1>3. ASSUME NEW i \in 1..(Len(t) - 1) PROVE Joins(t[i].epoch, t[i].pt + 1, t[i + 1])
  <2>1. CASE i = Len(s)
    <3>1. s # <<>> /\ t[i] = s[Len(s)] /\ t[i + 1] = x
      BY <1>1, <1>3, <2>1
    <3> QED BY <2>1, <3>1 DEF Runs
  <2>2. CASE i # Len(s)
    <3>1. i \in 1..(Len(s) - 1) /\ t[i] = s[i] /\ t[i + 1] = s[i + 1]
      BY <1>1, <1>3, <2>2
    <3> QED BY <3>1 DEF Runs
  <2> QED BY <2>1, <2>2
<1>4. Joins(t[Len(t)].epoch, t[Len(t)].pt + 1, d)
  BY <1>1
<1>5. Runs(t, e, d)
  BY <1>2, <1>3, <1>4 DEF Runs
<1> QED BY <1>5 DEF t

LEMMA RunsShorter ==
  ASSUME NEW s \in Seq(Sub), NEW e, NEW c, Runs(s, e, c), s # <<>>
  PROVE  Runs(Tail(s), e, c)
<1> DEFINE t == Tail(s)
<1>1. Len(s) \in Nat \ {0} /\ t \in Seq(Sub) /\ Len(t) = Len(s) - 1 /\ \A i \in 1..Len(t) : t[i] = s[i + 1]
  OBVIOUS
<1> HIDE DEF t
<1>2. \A i \in 1..Len(t) : t[i].epoch <= e
  BY <1>1 DEF Runs
<1>3. ASSUME NEW i \in 1..(Len(t) - 1) PROVE Joins(t[i].epoch, t[i].pt + 1, t[i + 1])
  <2>1. i + 1 \in 1..(Len(s) - 1) /\ t[i] = s[i + 1] /\ t[i + 1] = s[(i + 1) + 1]
    BY <1>1, <1>3
  <2> QED BY <2>1 DEF Runs
<1>4. t # <<>> => t[Len(t)] = s[Len(s)]
  BY <1>1
<1>5. Runs(t, e, c)
  BY <1>2, <1>3, <1>4 DEF Runs
<1> QED BY <1>5 DEF t

LEMMA RunsOlder ==
  ASSUME NEW s \in Seq(Sub), NEW e \in Nat, NEW c, NEW d, Runs(s, e, c), d.epoch = e + 1
  PROVE  Runs(s, e + 1, d)
<1>1. \A i \in 1..Len(s) : s[i].epoch \in Nat /\ s[i].epoch <= e
  <2>1. \A i \in 1..Len(s) : s[i] \in Sub
    BY ElementOfSeq
  <2> QED BY <2>1 DEF Runs, Sub
<1>2. s # <<>> => Len(s) \in 1..Len(s)
  OBVIOUS
<1>3. s # <<>> => Joins(s[Len(s)].epoch, s[Len(s)].pt + 1, d)
  BY <1>1, <1>2 DEF Joins
<1> QED BY <1>1, <1>3 DEF Runs

LEMMA SlotsFact ==
  ASSUME NEW a, Lane = {a}
  PROVE  RingSize \in Nat /\ RingSize > 1 /\ 0 \in Slots /\ \A s \in Slots : (s + 1) % RingSize \in Slots
<1>1. Cardinality(Lane) = 1
  BY FS_Singleton
<1>2. RingSize \in Nat /\ RingSize > 1
  BY <1>1, RingAssumption
<1> QED BY <1>2 DEF Slots

LEMMA InitLane ==
  ASSUME NEW a, Lane = {a}, Init
  PROVE  LInv(a)
<1> USE DEF Init
<1>1. Blank \in Pkt
  BY DEF Blank, Pkt
<1>2. LaneTypes
  <2>1. 0 \in Slots
    BY SlotsFact
  <2>2. mem \in [Slots -> Pkt] /\ slot \in [Lane -> Slots]
    BY <1>1, <2>1
  <2>3. la \in Seq(Sub) /\ lap \in Seq(Sub) /\ Len(la) = 0 /\ anew = {} /\ subs \in [Lane -> Seq(Part)]
    OBVIOUS
  <2>5. todo \in Int /\ todo <= 0 /\ epoch \in Nat /\ head = 0
    OBVIOUS
  <2>6. down \in BOOLEAN
    OBVIOUS
  <2>4. /\ fw \in [Lane -> Nat] /\ cc \in [Lane -> Nat] /\ jump \in [Lane -> BOOLEAN]
        /\ last \in [Lane -> Head0 \cup {NoPkt}]
    OBVIOUS
  <2> HIDE DEF Init
  <2> QED BY <2>1, <2>2, <2>3, <2>4, <2>5, <2>6 DEF LaneTypes
<1>3. RingOK(a) /\ HeadOK(a) /\ PacketOK(a) /\ PartsOK(a) /\ DownOK(a)
  BY RunsEmpty DEF RingOK, HeadOK, PacketOK, PartsOK, DownOK, Joins, Coming, First
<1> QED BY <1>2, <1>3 DEF LInv

\* The backlog is skipped, by a pass, a stand-down or while standing down.
LEMMA SkipKept ==
  ASSUME NEW a, Lane = {a}, LInv(a), la' = <<>>, todo = 0, jump' \in [Lane -> BOOLEAN], jump'[a],
         UNCHANGED <<fw, epoch, lap, todo, mem, head, slot, cc, last, anew>>, down' \in BOOLEAN,
         subs' = subs \/ subs' = [l \in Lane |-> <<>>], down' => subs'[a] = <<>>
  PROVE  LInv(a)'
<1> USE DEF LInv
<1>1. LaneTypes'
  <2>1. subs' \in [Lane -> Seq(Part)]
    <3>1. subs \in [Lane -> Seq(Part)]
      BY DEF LaneTypes
    <3>2. [l \in Lane |-> <<>>] \in [Lane -> Seq(Part)]
      OBVIOUS
    <3> QED BY <3>1, <3>2
  <2>2. la' \in Seq(Sub) /\ Len(la') = 0
    OBVIOUS
  <2> QED BY <2>1, <2>2 DEF LaneTypes
<1>2. RingOK(a)' /\ HeadOK(a)' /\ DownOK(a)'
  BY RunsEmpty DEF RingOK, HeadOK, DownOK, Coming
<1>3. PacketOK(a)' /\ PartsOK(a)'
  <2>1. CASE subs' = subs
    BY <2>1 DEF PacketOK, PartsOK
  <2>2. CASE subs'[a] = <<>>
    BY <2>2 DEF PacketOK, PartsOK
  <2> QED BY <2>1, <2>2
<1> QED BY <1>1, <1>2, <1>3

LEMMA QuietKept ==
  ASSUME NEW a, Lane = {a}, LInv(a),
         PassBegin \/ JumpForward \/ Halt \/ StandDown \/ StandDownPass \/ Resume \/ Transport
  PROVE  LInv(a)'
<1>1. CASE PassBegin
  <2>1. todo' = Len(la) - 1 /\ todo' \in Int /\ todo' <= Len(la) /\ ~down
        /\ UNCHANGED <<fw, epoch, la, lap, mem, head, slot, subs, cc, jump, down, last, anew>>
    BY <1>1 DEF PassBegin, Readable, LInv, LaneTypes, histvars
  <2> QED BY <2>1 DEF LInv, LaneTypes, RingOK, HeadOK, PacketOK, PartsOK, DownOK, Joins, Coming, First
<1>2. CASE JumpForward
  <2>1. jump' \in [Lane -> BOOLEAN] /\ jump'[a] /\ ~down
    BY <1>2 DEF JumpForward
  <2> QED BY <1>2, <2>1, SkipKept DEF JumpForward, LInv, LaneTypes, histvars
<1>3. CASE StandDown
  <2>1. jump' \in [Lane -> BOOLEAN] /\ jump'[a] /\ subs'[a] = <<>>
    BY <1>3 DEF StandDown
  <2> QED BY <1>3, <2>1, SkipKept DEF StandDown, histvars
<1>4. CASE StandDownPass
  <2>1. todo = 0 /\ jump[a] /\ subs[a] = <<>> /\ jump \in [Lane -> BOOLEAN] /\ down \in BOOLEAN
    BY <1>4 DEF StandDownPass, LInv, DownOK, LaneTypes
  <2> QED BY <1>4, <2>1, SkipKept DEF StandDownPass, histvars
<1>5. CASE Resume
  BY <1>5 DEF Resume, histvars, LInv, LaneTypes, RingOK, HeadOK, PacketOK, PartsOK, DownOK, Joins, Coming, First
<1>6. CASE Transport
  <2>1. UNCHANGED lanevars
    BY <1>6 DEF Transport, Arm, ArmFail, Deliver, Cancel, ConsumerStale, GraceExpires, hostvars, histvars, lanevars
  <2> QED BY <2>1, LaneStays
<1>7. CASE Halt
  <2>1. todo' \in Int /\ todo' <= Len(la) /\ ~down
        /\ UNCHANGED <<fw, epoch, la, lap, mem, head, slot, subs, cc, jump, down, last, anew>>
    BY <1>7 DEF Halt, Stopped, LInv, LaneTypes, DownOK, histvars
  <2> QED BY <2>1 DEF LInv, LaneTypes, RingOK, HeadOK, PacketOK, PartsOK, DownOK, Joins, Coming, First
<1> QED BY <1>1, <1>2, <1>3, <1>4, <1>5, <1>6, <1>7

(***************************************************************************)
(* The firmware.                                                           *)
(***************************************************************************)
LEMMA ProduceKept ==
  ASSUME NEW a, Lane = {a}, LInv(a), NEW gap \in 0..1, Produce(a, gap)
  PROVE  LInv(a)'
<1> DEFINE new == NextSub(a, gap)
<1> USE DEF LInv
<1>1. /\ la' = Append(la, new) /\ fw' = [fw EXCEPT ![a] = @ + gap + 1]
      /\ lap' = <<>> \/ lap' = Append(lap, new)
      /\ UNCHANGED <<epoch, todo, mem, head, slot, subs, cc, jump, down, last, anew>>
  BY DEF Produce, histvars
<1>2. /\ new \in Sub /\ la \in Seq(Sub) /\ lap \in Seq(Sub) /\ epoch \in Nat
      /\ fw'[a] = fw[a] + gap + 1 /\ fw' \in [Lane -> Nat]
      /\ new.epoch = epoch /\ new.pt = fw[a] + gap /\ new.discont = (gap > 0)
  <2>1. la \in Seq(Sub) /\ lap \in Seq(Sub) /\ epoch \in Nat /\ fw \in [Lane -> Nat] /\ fw[a] + gap \in Nat
    BY DEF LaneTypes
  <2>2. new \in Sub /\ new.epoch = epoch /\ new.pt = fw[a] + gap /\ new.discont = (gap > 0)
    BY <2>1 DEF Sub, NextSub
  <2>3. fw'[a] = fw[a] + gap + 1 /\ fw' \in [Lane -> Nat]
    <3>1. fw' = [fw EXCEPT ![a] = fw[a] + gap + 1] /\ fw[a] + gap + 1 \in Nat /\ a \in Lane
      BY <1>1, <2>1
    <3> QED BY <2>1, <3>1
  <2> HIDE DEF new
  <2> QED BY <2>1, <2>2, <2>3
<1> HIDE DEF new
<1>3. /\ la' \in Seq(Sub) /\ Len(la') = Len(la) + 1 /\ Len(la) \in Nat
      /\ la'[Len(la) + 1] = new /\ \A i \in 1..Len(la) : la'[i] = la[i]
  BY <1>1, <1>2
<1>10. lap' \in Seq(Sub)
  <2>1. CASE lap' = <<>>
    BY <2>1
  <2>2. CASE lap' = Append(lap, new)
    BY <1>2, <2>2
  <2> QED BY <1>1, <2>1, <2>2
<1>4. LaneTypes'
  BY <1>1, <1>2, <1>3, <1>10 DEF LaneTypes
<1>5. \A e, x : Joins(e, x, Coming(a)) => Joins(e, x, new)
  <2>1. CASE gap = 0
    <3>1. fw[a] + gap = fw[a]
      BY <2>1 DEF LaneTypes
    <3> QED BY <1>2, <3>1 DEF Joins, Coming
  <2>2. CASE gap = 1
    <3>1. gap > 0
      BY <2>2
    <3> QED BY <1>2, <3>1 DEF Joins
  <2> QED BY <2>1, <2>2
<1>6. RingOK(a)'
  <2>1. Joins(new.epoch, new.pt + 1, Coming(a)')
    BY <1>1, <1>2 DEF Joins, Coming, LaneTypes
  <2>2. Runs(Append(la, new), epoch, Coming(a)')
    BY <1>2, <1>5, <2>1, RunsLonger DEF RingOK
  <2>3. Runs(Append(lap, new), epoch, Coming(a)')
    BY <1>2, <1>5, <2>1, RunsLonger DEF RingOK
  <2>4. Runs(<<>>, epoch, Coming(a)')
    BY RunsEmpty
  <2>5. Runs(lap', epoch, Coming(a)')
    BY <1>1, <2>3, <2>4
  <2> QED BY <1>1, <2>2, <2>5 DEF RingOK
<1>7. HeadOK(a)'
  <2>1. la' # <<>> /\ la'[1] = IF la # <<>> THEN la[1] ELSE new
    BY <1>2, <1>3
  <2>2. \A e, x : Joins(e, x, First(a)) => Joins(e, x, First(a)')
    BY <2>1, <1>5 DEF First
  <2> QED BY <1>1, <2>2 DEF HeadOK
<1>8. PacketOK(a)' /\ PartsOK(a)' /\ DownOK(a)'
  BY <1>1 DEF PacketOK, PartsOK, DownOK
<1> QED BY <1>4, <1>6, <1>7, <1>8

LEMMA NewEpochKept ==
  ASSUME NEW a, Lane = {a}, LInv(a), NewEpoch
  PROVE  LInv(a)'
<1> USE DEF LInv
<1>1. /\ epoch' = epoch + 1 /\ epoch \in Nat
      /\ UNCHANGED <<la, lap, todo, mem, head, slot, subs, cc, jump, down, last, anew>>
  BY DEF NewEpoch, LaneTypes, histvars
<1>2. fw' \in [Lane -> Nat]
  BY RingAssumption DEF NewEpoch, LaneTypes
<1>3. LaneTypes'
  BY <1>1, <1>2 DEF LaneTypes
<1>4. ASSUME NEW e \in Nat, NEW x, e <= epoch PROVE Joins(e, x, Coming(a)')
  BY <1>1, <1>4 DEF Joins, Coming
<1>6. RingOK(a)'
  <2>1. Coming(a)'.epoch = epoch + 1
    BY <1>1 DEF Coming
  <2>2. Runs(la, epoch + 1, Coming(a)') /\ Runs(lap, epoch + 1, Coming(a)')
    BY <2>1, RunsOlder DEF RingOK, LaneTypes
  <2> QED BY <1>1, <2>2 DEF RingOK
<1>7. /\ subs[a] # <<>> => mem[slot[a]].epoch \in Nat /\ mem[slot[a]].epoch <= epoch
      /\ last[a] # NoPkt => last[a].epoch \in Nat /\ last[a].epoch <= epoch
  BY DEF LaneTypes, PacketOK, Pkt, Head0
<1>8. HeadOK(a)'
  <2>1. CASE la # <<>>
    BY <1>1, <2>1 DEF HeadOK, First
  <2>2. CASE la = <<>>
    BY <1>1, <1>4, <1>7, <2>2 DEF HeadOK, First
  <2> QED BY <2>1, <2>2
<1>9. PacketOK(a)' /\ PartsOK(a)' /\ DownOK(a)'
  BY <1>1, <1>7 DEF PacketOK, PartsOK, DownOK
<1> QED BY <1>3, <1>6, <1>8, <1>9

LEMMA ResetKept ==
  ASSUME NEW a, Lane = {a}, LInv(a), Reset
  PROVE  LInv(a)'
<1> USE DEF LInv
<1>1. /\ la' = lap /\ todo' = 0 /\ anew' = Lane /\ a \in Lane
      /\ head' = 0 /\ slot' = [l \in Lane |-> 0] /\ subs' = [l \in Lane |-> <<>>]
      /\ UNCHANGED <<fw, epoch, lap, mem, cc, jump, down, last>>
  BY DEF Reset
<1>2. LaneTypes'
  <2>1. 0 \in Slots
    BY SlotsFact
  <2>2. slot' \in [Lane -> Slots] /\ subs' \in [Lane -> Seq(Part)]
    BY <1>1, <2>1
  <2>3. la' \in Seq(Sub) /\ Len(la') >= 0
    BY <1>1 DEF LaneTypes
  <2> QED BY <1>1, <2>1, <2>2, <2>3 DEF LaneTypes
<1>3. last[a] # NoPkt => last[a].epoch <= epoch /\ last[a].cc = cc[a]
  BY DEF PacketOK
<1>4. RingOK(a)' /\ PartsOK(a)' /\ DownOK(a)'
  BY <1>1 DEF RingOK, PartsOK, DownOK, Coming
<1>5. HeadOK(a)'
  BY <1>1 DEF HeadOK
<1>6. PacketOK(a)'
  BY <1>1, <1>3 DEF PacketOK
<1> QED BY <1>2, <1>4, <1>5, <1>6

(***************************************************************************)
(* Shipping, and the sub-buffer step.                                      *)
(***************************************************************************)

\* what leaves has the stamps of the packet assembled and the next number
LEMMA ShipFacts ==
  ASSUME NEW a, Lane = {a}, LInv(a), Ship(a)
  PROVE  /\ Shipped(a) \in Pkt /\ Header(Shipped(a)) \in Head0 /\ Header(Shipped(a)) # NoPkt
         /\ cc' \in [Lane -> Nat] /\ head' \in Slots /\ slot' \in [Lane -> Slots] /\ slot'[a] = head
         /\ last' \in [Lane -> Head0 \cup {NoPkt}] /\ last'[a] # NoPkt /\ last'[a].cc = cc'[a]
         /\ last'[a].pt = mem[slot[a]].pt /\ last'[a].epoch = mem[slot[a]].epoch
         /\ last'[a].flag = mem[slot[a]].flag /\ last'[a].elems = Len(subs[a])
         /\ last[a] # NoPkt => last'[a].cc = last[a].cc + 1
         /\ cc'[a] = cc[a] + 1 /\ anew' = anew \ {a}
<1>1. /\ mem[slot[a]] \in Pkt /\ cc[a] \in Nat /\ Len(subs[a]) \in Nat /\ head \in Slots
      /\ cc \in [Lane -> Nat] /\ slot \in [Lane -> Slots] /\ last \in [Lane -> Head0 \cup {NoPkt}]
  <2>1. subs[a] \in Seq(Part)
    BY DEF LInv, LaneTypes
  <2> QED BY <2>1 DEF LInv, LaneTypes
<1> DEFINE p == mem[slot[a]]
           q == Shipped(a)
<1>2. q \in Pkt /\ q.cc = cc[a] + 1 /\ q.elems = Len(subs[a])
      /\ q.pt = p.pt /\ q.epoch = p.epoch /\ q.flag = p.flag
  <2>1. q = [p EXCEPT !.cc = cc[a] + 1, !.elems = Len(subs[a])]
    BY DEF Shipped
  <2>2. p \in Pkt
    BY <1>1
  <2>3. cc[a] + 1 \in Nat /\ Len(subs[a]) \in Nat
    BY <1>1
  <2> HIDE DEF p, q
  <2>4. q = [lane |-> p.lane, pt |-> p.pt, epoch |-> p.epoch, flag |-> p.flag, cc |-> cc[a] + 1,
             elems |-> Len(subs[a]), body |-> p.body]
    BY <2>1, <2>2 DEF Pkt
  <2>5. /\ p.lane \in Lane \cup {NoPkt} /\ p.pt \in Nat /\ p.epoch \in Nat /\ p.flag \in BOOLEAN
        /\ p.body \in [1..PktSubs -> {NoPkt} \cup (Lane \X Nat)]
    BY <2>2 DEF Pkt
  <2> QED BY <2>3, <2>4, <2>5 DEF Pkt
<1>3. Header(Shipped(a)) \in Head0
  BY <1>2 DEF Header, Head0, Pkt
<1>4. Header(Shipped(a)) # NoPkt
  BY <1>3, RingAssumption DEF Head0
<1>5. head' \in Slots
  BY <1>1, SlotsFact DEF Ship
<1>6. slot' \in [Lane -> Slots] /\ slot'[a] = head /\ cc' \in [Lane -> Nat] /\ cc'[a] = cc[a] + 1
  BY <1>1 DEF Ship
<1>7. last' = [last EXCEPT ![a] = Header(Shipped(a))]
  BY DEF Ship
<1>8. last'[a] = Header(Shipped(a)) /\ last' \in [Lane -> Head0 \cup {NoPkt}]
  BY <1>1, <1>3, <1>7
<1>9. last[a] # NoPkt => last[a].cc = cc[a]
  BY DEF LInv, PacketOK
<1>10. anew' = anew \ {a}
  BY DEF Ship
<1> QED BY <1>2, <1>3, <1>4, <1>5, <1>6, <1>8, <1>9, <1>10 DEF Header

LEMMA FlushKept ==
  ASSUME NEW a, Lane = {a}, LInv(a), FlushPartial(a)
  PROVE  LInv(a)'
<1> USE DEF LInv
<1>1. /\ Ship(a) /\ mem' = [mem EXCEPT ![slot[a]] = Shipped(a)] /\ subs' = [subs EXCEPT ![a] = <<>>]
      /\ subs[a] # <<>> /\ UNCHANGED <<fw, epoch, la, lap, todo, jump, down>>
  BY DEF FlushPartial
<1>2. subs' \in [Lane -> Seq(Part)] /\ subs'[a] = <<>>
  BY <1>1 DEF LaneTypes
<1>3. mem' \in [Slots -> Pkt]
  BY <1>1, ShipFacts DEF LaneTypes
<1>4. LaneTypes'
  BY <1>1, <1>2, <1>3, ShipFacts DEF LaneTypes
<1>5. RingOK(a)' /\ PartsOK(a)' /\ DownOK(a)'
  BY <1>1, <1>2 DEF RingOK, PartsOK, DownOK, Coming
<1>6. First(a)' = First(a)
  BY <1>1 DEF First, Coming
<1>7. HeadOK(a)'
  BY <1>1, <1>2, <1>6, ShipFacts DEF HeadOK
<1>8. PacketOK(a)'
  BY <1>1, <1>2, ShipFacts DEF PacketOK
<1> QED BY <1>4, <1>5, <1>7, <1>8

\* One sub-buffer, taken apart: whether the packet under way leaves, what is
\* left of it, and the packet the sub-buffer goes into.
Taken(l, sub, have, ship, out) ==
  /\ la # <<>> /\ sub = la[1] /\ sub = Head(la) /\ la' = Tail(la)
  /\ todo' = todo - 1 /\ todo > 0 /\ UNCHANGED <<fw, epoch, lap, down>>
  /\ have = IF out THEN <<>> ELSE subs[l]
  /\ out => subs[l] # <<>>
  /\ ~out /\ subs[l] # <<>> => ~sub.discont /\ sub.epoch = mem[slot[l]].epoch
  /\ ship => out /\ Ship(l)
  /\ ~ship => Drop(l)
  /\ subs' = [subs EXCEPT ![l] = Append(have, [pt |-> sub.pt, epoch |-> sub.epoch])]
  /\ jump' = IF have = <<>> THEN [jump EXCEPT ![l] = FALSE] ELSE jump
  /\ mem' \in [Slots -> Pkt]
  /\ have # <<>> => /\ mem'[slot[l]].pt = mem[slot[l]].pt /\ mem'[slot[l]].epoch = mem[slot[l]].epoch
                    /\ mem'[slot[l]].flag = mem[slot[l]].flag
  /\ LET at == IF ship THEN head ELSE slot[l]
     IN  have = <<>> => /\ mem'[at].pt = sub.pt /\ mem'[at].epoch = sub.epoch
                        /\ sub.discont \/ jump[l] \/ (out /\ ~ship) => mem'[at].flag

LEMMA ProcessFacts ==
  ASSUME NEW a, Lane = {a}, LInv(a), Process
  PROVE  \E sub \in Sub, have \in Seq(Part), ship \in BOOLEAN, out \in BOOLEAN :
           Taken(a, sub, have, ship, out)
<1> DEFINE sub  == Head(la)
           out  == Len(subs[a]) + 1 > PktSubs \/ SeamFlush(sub)
           ship == out /\ CanShip
           have == IF out THEN <<>> ELSE subs[a]
           left == IF ship THEN [mem EXCEPT ![slot[a]] = Shipped(a)] ELSE mem
           at   == IF ship THEN head ELSE slot[a]
           copy == IF alive \/ grace
                   THEN [left[at] EXCEPT !.body[Len(have) + 1] = <<a, sub.pt>>]
                   ELSE left[at]
           flagged == sub.discont \/ jump[a] \/ (out /\ ~ship)
<1>1. la \in Seq(Sub) /\ todo > 0 /\ todo <= Len(la) /\ todo \in Int /\ subs[a] \in Seq(Part)
  BY DEF Process, LInv, LaneTypes
<1>2. la # <<>> /\ sub \in Sub /\ sub = la[1] /\ sub.lane = a
  <2>1. la # <<>>
    BY <1>1
  <2>2. sub \in Sub /\ sub = la[1]
    BY <1>1, <2>1
  <2> QED BY <2>1, <2>2 DEF Sub
<1>3. /\ IF ship THEN Ship(a) ELSE Drop(a)
      /\ subs' = [subs EXCEPT ![a] = Append(have, [pt |-> sub.pt, epoch |-> sub.epoch])]
      /\ mem' = [left EXCEPT ![at] = IF have = <<>> THEN Birth(copy, sub, flagged) ELSE copy]
      /\ jump' = IF have = <<>> THEN [jump EXCEPT ![a] = FALSE] ELSE jump
      /\ la' = Tail(la) /\ todo' = todo - 1 /\ UNCHANGED <<fw, epoch, lap, down>>
  BY <1>2 DEF Process
<1>4. ~out /\ subs[a] # <<>> => ~sub.discont /\ sub.epoch = mem[slot[a]].epoch
  BY <1>2 DEF SeamFlush
<1>5. have \in Seq(Part) /\ out \in BOOLEAN /\ ship \in BOOLEAN
  BY <1>1
<1>20. out => subs[a] # <<>>
  <2>1. PktSubs \in Nat /\ PktSubs > 0
    BY RingAssumption
  <2>2. Len(subs[a]) + 1 > PktSubs => subs[a] # <<>>
    BY <1>1, <2>1
  <2>3. SeamFlush(sub) => subs[a] # <<>>
    BY <1>2 DEF SeamFlush
  <2> QED BY <2>2, <2>3
<1>6. left \in [Slots -> Pkt] /\ at \in Slots
  <2>1. mem \in [Slots -> Pkt] /\ head \in Slots /\ slot[a] \in Slots
    BY DEF LInv, LaneTypes
  <2>2. ship => Shipped(a) \in Pkt
    BY <1>3, ShipFacts
  <2> QED BY <2>1, <2>2
<1>7. have # <<>> => ~ship /\ at = slot[a] /\ left = mem
  OBVIOUS
<1> HIDE DEF left, at, have, ship, out, sub
<1>8. copy \in Pkt /\ copy.pt = left[at].pt /\ copy.epoch = left[at].epoch /\ copy.flag = left[at].flag
  <2>1. left[at] \in Pkt /\ sub.pt \in Nat
    BY <1>2, <1>6 DEF Sub
  <2> QED BY <2>1 DEF Pkt
<1>9. flagged \in BOOLEAN
  BY <1>2, <1>5 DEF Sub, LInv, LaneTypes
<1> HIDE DEF copy, flagged
<1>10. LET b == Birth(copy, sub, flagged)
       IN  b \in Pkt /\ b.pt = sub.pt /\ b.epoch = sub.epoch /\ b.flag = flagged
  BY <1>2, <1>8, <1>9 DEF Birth, Pkt, Sub
<1>11. mem' \in [Slots -> Pkt]
  BY <1>3, <1>6, <1>8, <1>10
<1>12. have # <<>> => mem'[at] = copy
  BY <1>3, <1>6
<1>13. have = <<>> => mem'[at] = Birth(copy, sub, flagged)
  BY <1>3, <1>6
<1>14. have # <<>> => /\ mem'[slot[a]].pt = mem[slot[a]].pt /\ mem'[slot[a]].epoch = mem[slot[a]].epoch
                      /\ mem'[slot[a]].flag = mem[slot[a]].flag
  BY <1>7, <1>8, <1>12
<1>15. have = <<>> => /\ mem'[at].pt = sub.pt /\ mem'[at].epoch = sub.epoch
                      /\ (sub.discont \/ jump[a] \/ (out /\ ~ship) => mem'[at].flag)
  BY <1>10, <1>13 DEF flagged
<1>16. ship => out
  BY DEF ship
<1>17. have = IF out THEN <<>> ELSE subs[a]
  BY DEF have
<1>18. at = IF ship THEN head ELSE slot[a]
  BY DEF at
<1>19. sub = Head(la)
  BY DEF sub
<1>21. Taken(a, sub, have, ship, out)
  BY <1>1, <1>2, <1>3, <1>4, <1>5, <1>20, <1>11, <1>14, <1>15, <1>16, <1>17, <1>18, <1>19 DEF Taken
<1> QED BY <1>2, <1>5, <1>21

\* what the producer takes next joins the sub-buffer it takes now
LEMMA NextJoins ==
  ASSUME NEW a, LaneTypes, RingOK(a), la # <<>>, la' = Tail(la), UNCHANGED <<fw, epoch, lap>>
  PROVE  /\ la' \in Seq(Sub) /\ Len(la') = Len(la) - 1
         /\ First(a) = la[1] /\ la[1].epoch <= epoch
         /\ Joins(la[1].epoch, la[1].pt + 1, First(a)')
         /\ RingOK(a)'
<1>1. la \in Seq(Sub) /\ Len(la) \in Nat \ {0}
  BY DEF LaneTypes
<1>2. la' \in Seq(Sub) /\ Len(la') = Len(la) - 1 /\ \A i \in 1..Len(la') : la'[i] = la[i + 1]
  BY <1>1
<1>3. First(a) = la[1] /\ la[1].epoch <= epoch
  BY <1>1 DEF First, RingOK, Runs
<1>4. Coming(a)' = Coming(a)
  BY DEF Coming
<1>5. Joins(la[1].epoch, la[1].pt + 1, First(a)')
  <2>1. CASE la' = <<>>
    <3> DEFINE rest == la'
    <3>0. Len(la') = 0
      <4>1. rest = <<>> => Len(rest) = 0
        <5> HIDE DEF rest
        <5> QED OBVIOUS
      <4> QED BY <2>1, <4>1
    <3>1. Len(la) = 1
      BY <1>1, <1>2, <3>0
    <3> QED BY <1>4, <2>1, <3>1 DEF First, RingOK, Runs
  <2>2. CASE la' # <<>>
    <3>1. 1 \in 1..(Len(la) - 1) /\ la'[1] = la[2]
      BY <1>1, <1>2, <2>2
    <3>2. Joins(la[1].epoch, la[1].pt + 1, la[1 + 1])
      BY <3>1 DEF RingOK, Runs
    <3> QED BY <2>2, <3>1, <3>2 DEF First
  <2> QED BY <2>1, <2>2
<1>6. RingOK(a)'
  BY <1>1, <1>4, RunsShorter DEF RingOK, LaneTypes
<1> QED BY <1>2, <1>3, <1>5, <1>6

LEMMA ProcessKept ==
  ASSUME NEW a, Lane = {a}, LInv(a), Process
  PROVE  LInv(a)'
<1> USE DEF LInv
<1>1. PICK sub \in Sub, have \in Seq(Part), ship \in BOOLEAN, out \in BOOLEAN :
             Taken(a, sub, have, ship, out)
  BY ProcessFacts
<1> USE DEF Taken
<1>2. /\ la' \in Seq(Sub) /\ Len(la') = Len(la) - 1
      /\ First(a) = sub /\ sub.epoch <= epoch
      /\ Joins(sub.epoch, sub.pt + 1, First(a)')
      /\ RingOK(a)'
  BY <1>1, NextJoins
<1> DEFINE part == [pt |-> sub.pt, epoch |-> sub.epoch]
           n    == Len(have)
           p    == mem[slot[a]]
<1>3. sub.pt \in Nat /\ sub.epoch \in Nat /\ part \in Part /\ n \in Nat /\ a \in Lane
  BY DEF Sub, Part
<1>4. /\ subs'[a] = Append(have, part) /\ Len(subs'[a]) = n + 1 /\ subs' \in [Lane -> Seq(Part)]
      /\ subs'[a] # <<>> /\ subs'[a][n + 1] = part /\ \A i \in 1..n : subs'[a][i] = have[i]
  <2>1. /\ subs' = [subs EXCEPT ![a] = Append(have, part)] /\ subs \in [Lane -> Seq(Part)]
    BY <1>1 DEF LaneTypes
  <2> DEFINE more == Append(have, part)
  <2>2. more \in Seq(Part) /\ Len(more) = n + 1 /\ more[n + 1] = part /\ \A i \in 1..n : more[i] = have[i]
    BY <1>3
  <2>3. more # <<>>
    BY <1>3, <2>2
  <2> HIDE DEF more, part, n
  <2>4. subs'[a] = more /\ subs' \in [Lane -> Seq(Part)]
    BY <1>3, <2>1, <2>2 DEF more
  <2> QED BY <2>2, <2>3, <2>4 DEF more
<1>5. p \in Pkt /\ p.pt \in Nat /\ p.epoch \in Nat
  BY <1>3 DEF LaneTypes, Pkt
<1>6. slot'[a] = (IF ship THEN head ELSE slot[a]) /\ slot' \in [Lane -> Slots] /\ head' \in Slots
  BY <1>1, ShipFacts DEF Drop, LaneTypes
<1>7. cc' \in [Lane -> Nat] /\ last' \in [Lane -> Head0 \cup {NoPkt}]
  BY <1>1, ShipFacts DEF Drop, LaneTypes
<1>8. jump' \in [Lane -> BOOLEAN] /\ lap' \in Seq(Sub) /\ anew' \subseteq Lane
  <2>1. anew \subseteq Lane /\ (anew' = anew \/ anew' = anew \ {a})
    BY <1>1, ShipFacts DEF LaneTypes, Drop
  <2> QED BY <1>1, <2>1 DEF LaneTypes
<1>9. LaneTypes'
  <2>1. todo' \in Int /\ todo' <= Len(la')
    BY <1>1, <1>2 DEF LaneTypes
  <2>2. fw' \in [Lane -> Nat] /\ epoch' \in Nat
    BY <1>1 DEF LaneTypes
  <2>3. down' \in BOOLEAN
    BY <1>1 DEF LaneTypes
  <2> QED BY <1>1, <1>2, <1>4, <1>6, <1>7, <1>8, <2>1, <2>2, <2>3 DEF LaneTypes
<1>10. CASE have = <<>>
  <2>1. mem'[slot'[a]].pt = sub.pt /\ mem'[slot'[a]].epoch = sub.epoch /\ n = 0
    BY <1>1, <1>6, <1>10
  <2>2. HeadOK(a)'
    BY <1>2, <1>4, <2>1 DEF HeadOK
  <2>3. PartsOK(a)'
    <3>1. ASSUME NEW i \in 1..Len(subs'[a]) PROVE i = 1 /\ subs'[a][i] = part
      BY <1>4, <2>1
    <3> QED BY <1>3, <2>1, <3>1 DEF PartsOK
  <2>4. PacketOK(a)'
    <3>1. CASE ship
      <4>1. /\ last'[a].pt = p.pt /\ last'[a].epoch = p.epoch /\ last'[a].elems = Len(subs[a])
            /\ last'[a].cc = cc'[a] /\ subs[a] # <<>> /\ p.epoch <= epoch
        BY <1>1, <3>1, ShipFacts DEF PacketOK
      <4>2. jump[a] \/ Joins(p.epoch, p.pt + Len(subs[a]), sub)
        BY <1>2, <4>1 DEF HeadOK
      <4>3. mem'[slot'[a]].flag \/ sub.epoch # p.epoch \/ sub.pt = p.pt + Len(subs[a])
        BY <1>1, <1>6, <1>10, <4>2 DEF Joins
      <4> QED BY <1>1, <1>2, <2>1, <4>1, <4>3 DEF PacketOK
    <3>2. CASE ~ship
      <4>1. last' = last /\ anew' = anew /\ cc' = cc /\ slot'[a] = slot[a]
        BY <1>1, <1>6, <3>2 DEF Drop
      <4>2. out \/ jump[a] \/ last[a] = NoPkt \/ a \in anew \/ Joins(last[a].epoch, last[a].pt + last[a].elems, sub)
        BY <1>1, <1>2, <1>10 DEF HeadOK
      <4>3. mem'[slot'[a]].flag \/ last[a] = NoPkt \/ a \in anew \/ sub.epoch # last[a].epoch
              \/ sub.pt = last[a].pt + last[a].elems
        BY <1>1, <1>6, <1>10, <3>2, <4>2 DEF Joins
      <4> QED BY <1>1, <1>2, <2>1, <4>1, <4>3 DEF PacketOK
    <3> QED BY <3>1, <3>2
  <2>5. DownOK(a)'
    BY <1>1 DEF DownOK, LaneTypes
  <2> QED BY <1>2, <1>9, <2>2, <2>3, <2>4, <2>5
<1>11. CASE have # <<>>
  <2>1. ~out /\ ~ship /\ subs[a] = have /\ slot' = slot /\ last' = last /\ anew' = anew /\ cc' = cc /\ jump' = jump
    BY <1>1, <1>11 DEF Drop
  <2>2. /\ mem'[slot'[a]].pt = p.pt /\ mem'[slot'[a]].epoch = p.epoch /\ mem'[slot'[a]].flag = p.flag
        /\ sub.epoch = p.epoch /\ ~sub.discont
    BY <1>1, <1>11, <2>1
  <2>3. jump[a] \/ sub.pt = p.pt + n
    BY <1>2, <1>11, <2>1, <2>2 DEF HeadOK, Joins
  <2>4. HeadOK(a)'
    <3>1. ~jump[a] => p.pt + (n + 1) = sub.pt + 1
      <4>1. ASSUME NEW x \in Nat, NEW m \in Nat PROVE x + (m + 1) = (x + m) + 1
        OBVIOUS
      <4>2. p.pt + (n + 1) = (p.pt + n) + 1
        BY <1>3, <1>5, <4>1
      <4> HIDE DEF p, n
      <4> QED BY <2>3, <4>2
    <3> QED BY <1>2, <1>4, <2>1, <2>2, <3>1 DEF HeadOK
  <2>5. PartsOK(a)'
    <3>1. ASSUME NEW i \in 1..Len(subs'[a])
          PROVE subs'[a][i].epoch = p.epoch /\ (jump[a] \/ subs'[a][i].pt = p.pt + i - 1)
      <4>1. CASE i = n + 1
        BY <1>3, <1>4, <1>5, <2>2, <2>3, <4>1
      <4>2. CASE i # n + 1
        <5>1. i \in 1..n /\ subs'[a][i] = subs[a][i]
          BY <1>3, <1>4, <2>1, <4>2
        <5> QED BY <2>1, <5>1 DEF PartsOK
      <4> QED BY <4>1, <4>2
    <3> QED BY <2>1, <2>2, <3>1 DEF PartsOK
  <2>6. PacketOK(a)'
    BY <1>1, <1>4, <1>11, <2>1, <2>2 DEF PacketOK
  <2>7. DownOK(a)'
    BY <1>1 DEF DownOK, LaneTypes
  <2> QED BY <1>2, <1>9, <2>4, <2>5, <2>6, <2>7
<1> QED BY <1>10, <1>11

LEMMA StepInv ==
  ASSUME NEW a, Lane = {a}, LInv(a), [Next]_vars
  PROVE  LInv(a)'
<1>1. CASE UNCHANGED vars
  <2>1. UNCHANGED lanevars
    BY <1>1 DEF vars, histvars, lanevars
  <2> QED BY <2>1, LaneStays
<1>2. ASSUME NEW l \in Lane, NEW gap \in 0..1, Produce(l, gap) PROVE LInv(a)'
  BY <1>2, ProduceKept
<1>3. ASSUME NEW l \in Lane, FlushPartial(l) PROVE LInv(a)'
  BY <1>3, FlushKept
<1> QED BY <1>1, <1>2, <1>3, NewEpochKept, ProcessKept, QuietKept, ResetKept DEF Next, Producer

\* rfnm_handler_in keeps ring, packet and owed marks in step, whatever the
\* firmware, the transport and the resets do.
THEOREM LaneInvariant ==
  ASSUME NEW CONSTANT a, Lane = {a}
  PROVE  Spec => []LInv(a)
<1>1. Init => LInv(a)
  BY InitLane
<1>2. LInv(a) /\ [Next]_vars => LInv(a)'
  BY StepInv
<1> QED BY <1>1, <1>2, PTL DEF Spec

\* A packet shipped follows the one before it.
LEMMA ShipFollows ==
  ASSUME NEW a, Lane = {a}, LInv(a), Ship(a), subs[a] # <<>>
  PROVE  FS!Emit(a)
<1>0. anew' = anew \ {a}
  BY ShipFacts
<1>1. last'[a] # NoPkt /\ \A k \in Lane \ {a} : last'[k] = last[k]
  BY ShipFacts
<1>2. ASSUME last[a] # NoPkt PROVE FS!Follows(a, last[a], last'[a])
  <2>1. last'[a].cc = last[a].cc + 1
    BY <1>2, ShipFacts
  <2>2. a \in anew \/ last'[a].flag \/ last'[a].epoch # last[a].epoch \/ last'[a].pt = last[a].pt + last[a].elems
    BY <1>2, ShipFacts DEF LInv, PacketOK
  <2> QED BY <2>1, <2>2 DEF FS!Follows, FS!Announced, FS!Continues
<1> QED BY <1>0, <1>1, <1>2 DEF FS!Emit

\* who ships, and who else touches the staging list
LEMMA ShippedOnly ==
  ASSUME NEW a, Lane = {a}, LInv(a), [Next]_vars
  PROVE  UNCHANGED <<last, anew, staged>> \/ (Ship(a) /\ subs[a] # <<>>)
           \/ (UNCHANGED <<last, anew>> /\ (Arm \/ ArmFail)) \/ (last' = last /\ anew' = Lane /\ Reset)
<1>1. CASE Process
  <2>1. PICK sub \in Sub, have \in Seq(Part), ship \in BOOLEAN, out \in BOOLEAN :
               Taken(a, sub, have, ship, out)
    BY <1>1, ProcessFacts
  <2> QED BY <2>1 DEF Taken, Drop
<1>2. CASE UNCHANGED vars
  BY <1>2 DEF vars, histvars
<1>3. CASE (\E l \in Lane, gap \in 0..1 : Produce(l, gap)) \/ NewEpoch \/ Reset
  BY <1>3 DEF Produce, NewEpoch, Reset, histvars
<1>4. CASE \E l \in Lane : FlushPartial(l)
  BY <1>4 DEF FlushPartial
<1>5. CASE PassBegin \/ JumpForward \/ Halt \/ StandDown \/ StandDownPass \/ Resume
  BY <1>5 DEF PassBegin, JumpForward, Halt, StandDown, StandDownPass, Resume, histvars
<1>6. CASE Transport
  BY <1>6 DEF Transport, Arm, ArmFail, Deliver, Cancel, ConsumerStale, GraceExpires, histvars
<1>7. Next \/ UNCHANGED vars
  OBVIOUS
<1>8. CASE Next
  <2>1. Process \/ (\E l \in Lane, gap \in 0..1 : Produce(l, gap)) \/ NewEpoch \/ Reset
        \/ (\E l \in Lane : FlushPartial(l)) \/ Transport
        \/ PassBegin \/ JumpForward \/ Halt \/ StandDown \/ StandDownPass \/ Resume
    BY <1>8 DEF Next, Producer
  <2> QED BY <1>1, <1>3, <1>4, <1>5, <1>6, <2>1
<1> QED BY <1>2, <1>7, <1>8

(***************************************************************************)
(* Data loss is never transparent: whatever the lane ships carries the     *)
(* next number, and its stamps continue those of the packet before it, or  *)
(* it says by DISCONT or by its epoch that they do not (rfnm_handler_in);  *)
(* but for the lane's first packet after a reset, which may say nothing.   *)
(***************************************************************************)
THEOREM LossFlagged ==
  ASSUME NEW CONSTANT a, Lane = {a}
  PROVE  Spec => Flagged
<1>1. Init => FS!Init
  BY DEF Init, FS!Init
<1>2. LInv(a) /\ [Next]_vars => [FS!Next]_<<last, anew>>
  <2>1. SUFFICES ASSUME LInv(a), [Next]_vars PROVE FS!Next \/ UNCHANGED <<last, anew>>
    OBVIOUS
  <2>2. UNCHANGED <<last, anew>> \/ (last' = last /\ anew' = Lane) \/ (Ship(a) /\ subs[a] # <<>>)
    BY <2>1, ShippedOnly
  <2> QED BY <2>1, <2>2, ShipFollows DEF FS!Next, FS!Restart
<1> QED BY <1>1, <1>2, LaneInvariant, PTL DEF Spec, Flagged, FS!Spec

\* the staging list is a list
Queue == \E S : staged \in Seq(S)

LEMMA QueueKept ==
  ASSUME NEW a, Lane = {a}, LInv(a), Queue, [Next]_vars
  PROVE  Queue'
<1>1. PICK S : staged \in Seq(S)
  BY DEF Queue
<1>2. CASE UNCHANGED <<last, anew, staged>>
  BY <1>1, <1>2 DEF Queue
<1>3. CASE Ship(a)
  <2> DEFINE r == [ep |-> Head(pool), slot |-> slot[a], pkt |-> Shipped(a), subs |-> subs[a], over |-> 0]
  <2>1. staged' = Append(staged, r)
    BY <1>3 DEF Ship
  <2> HIDE DEF r
  <2>2. staged \in Seq(S \cup {r})
    BY <1>1
  <2>3. staged' \in Seq(S \cup {r})
    BY <2>1, <2>2
  <2> QED BY <2>3 DEF Queue
<1>4. CASE Arm \/ ArmFail
  <2>1. staged # <<>> /\ staged' = Tail(staged)
    BY <1>4 DEF Arm, ArmFail
  <2>2. staged' \in Seq(S)
    BY <1>1, <2>1
  <2> QED BY <2>2 DEF Queue
<1>5. CASE Reset
  <2>1. staged' \in Seq(S)
    BY <1>5 DEF Reset
  <2> QED BY <2>1 DEF Queue
<1> QED BY <1>2, <1>3, <1>4, <1>5, ShippedOnly

(***************************************************************************)
(* No packet hides a seam: the sub-buffers in what is handed over are one  *)
(* run of stamps of the packet's epoch, unless a DISCONT is still owed.    *)
(***************************************************************************)
THEOREM SeamsShown ==
  ASSUME NEW CONSTANT a, Lane = {a}
  PROVE  Spec => NoBuriedSeam
<1> DEFINE Shown ==
      \A l \in Lane : last'[l] # last[l] =>
        LET e == Last(staged')
        IN \A i \in DOMAIN e.subs :
             /\ e.subs[i].epoch = e.pkt.epoch
             /\ jump[l] \/ e.subs[i].pt = e.subs[1].pt + i - 1
<1>1. Init => Queue
  BY DEF Init, Queue
<1>2. LInv(a) /\ Queue /\ [Next]_vars => Queue'
  BY QueueKept
<1>3. LInv(a) /\ Queue /\ [Next]_vars => Shown
  <2>1. SUFFICES ASSUME LInv(a), Queue, [Next]_vars, last'[a] # last[a],
                        NEW i \in DOMAIN Last(staged').subs
                 PROVE  /\ Last(staged').subs[i].epoch = Last(staged').pkt.epoch
                        /\ jump[a] \/ Last(staged').subs[i].pt = Last(staged').subs[1].pt + i - 1
    OBVIOUS
  <2>2. Ship(a) /\ subs[a] # <<>>
    BY <2>1, ShippedOnly
  <2>3. Last(staged').subs = subs[a] /\ Last(staged').pkt = Shipped(a)
    <3> DEFINE r == [ep |-> Head(pool), slot |-> slot[a], pkt |-> Shipped(a), subs |-> subs[a], over |-> 0]
    <3>1. PICK S : staged \in Seq(S)
      BY <2>1 DEF Queue
    <3>2. staged' = Append(staged, r)
      BY <2>2 DEF Ship
    <3>3. r.subs = subs[a] /\ r.pkt = Shipped(a)
      OBVIOUS
    <3> HIDE DEF r
    <3>4. staged'[Len(staged')] = r
      BY <3>1, <3>2
    <3> QED BY <3>3, <3>4 DEF Last
  <2>4. Shipped(a).epoch = mem[slot[a]].epoch /\ mem[slot[a]].pt \in Nat /\ subs[a] \in Seq(Part)
    <3>1. mem[slot[a]].pt \in Nat /\ subs[a] \in Seq(Part)
      BY <2>1 DEF LInv, LaneTypes, Pkt
    <3>2. last'[a] = Header(Shipped(a))
      BY <2>1, <2>2 DEF Ship, LInv, LaneTypes
    <3>3. last'[a].epoch = mem[slot[a]].epoch
      BY <2>1, <2>2, ShipFacts
    <3> QED BY <3>1, <3>2, <3>3 DEF Header
  <2>5. i \in 1..Len(subs[a]) /\ 1 \in 1..Len(subs[a])
    BY <2>1, <2>3, <2>4
  <2>6. \A k \in 1..Len(subs[a]) : subs[a][k].epoch = mem[slot[a]].epoch
                                   /\ (jump[a] \/ subs[a][k].pt = mem[slot[a]].pt + k - 1)
    BY <2>1 DEF LInv, PartsOK
  <2>7. jump[a] \/ subs[a][1].pt = mem[slot[a]].pt
    <3>1. jump[a] \/ subs[a][1].pt = mem[slot[a]].pt + 1 - 1
      BY <2>5, <2>6
    <3>2. mem[slot[a]].pt + 1 - 1 = mem[slot[a]].pt
      BY <2>4
    <3> QED BY <3>1, <3>2
  <2> QED BY <2>3, <2>4, <2>5, <2>6, <2>7
<1>4. LInv(a) /\ Queue /\ [Next]_vars => [Shown]_vars
  BY <1>3
<1> QED BY <1>1, <1>2, <1>4, LaneInvariant, PTL DEF Spec, NoBuriedSeam

(***************************************************************************)
(* Slots in flight.  Behind a packet outstanding the lane has shipped no   *)
(* more than are outstanding behind it and have left before it: its slot   *)
(* lies behind the lane's, less than a lap away unless too many overtook.  *)
(***************************************************************************)
LEMMA RequestsNat == Requests \in Nat
<1>1. Cardinality(Ep) \in Nat /\ PerEp \in Nat
  BY FS_CardinalityType, RingAssumption
<1> QED BY <1>1 DEF Requests

Req == [ep : Ep, slot : Slots, pkt : Pkt, subs : Seq(Part), over : Nat]

\* n slots further, n less than a lap
Ahead(s, n) == IF s + n < RingSize THEN s + n ELSE s + n - RingSize

\* packets the lane has shipped behind e
Age(a, e) == cc[a] - e.pkt.cc

\* e was shipped from a slot of its own, so many slots behind the lane's ...
OwnSlot(a, e) ==
  /\ slot[a] = Ahead(e.slot, Age(a, e) + 1)
  /\ mem[e.slot] = e.pkt

\* ... or is the first one after a reset, which the second one overwrites
FirstSlot(a, e) ==
  /\ e.slot = 0 /\ slot[a] = Age(a, e)
  /\ mem[0].cc = IF Age(a, e) = 0 THEN e.pkt.cc ELSE e.pkt.cc + 1

InPlace(a, e) == Age(a, e) >= 0 /\ (OwnSlot(a, e) \/ FirstSlot(a, e))

\* the ring has room for those that overtook e
Within(e) == e.over + Requests < RingSize

EntryOK(a, e) == Age(a, e) >= 0 /\ (Within(e) => InPlace(a, e))

QueuesOK ==
  /\ pool \in Seq(Ep) /\ staged \in Seq(Req) /\ flying \in Seq(Req)
  /\ Len(pool) + Len(staged) + Len(flying) = Requests

CursorOK(a) == head = Ahead(slot[a], 1) \/ (head = 0 /\ slot[a] = 0 /\ staged = <<>> /\ flying = <<>>)

\* as many packets are behind one outstanding as are outstanding or have left
AgesOK(a) ==
  /\ \A i \in 1..Len(flying) : Age(a, flying[i]) <= Len(flying) - i + Len(staged) + flying[i].over
  /\ \A i \in 1..Len(staged) : Age(a, staged[i]) <= Len(staged) - i + staged[i].over

EntriesOK(a) ==
  /\ \A i \in 1..Len(flying) : EntryOK(a, flying[i])
  /\ \A i \in 1..Len(staged) : EntryOK(a, staged[i])

FlightInv(a) == QueuesOK /\ CursorOK(a) /\ AgesOK(a) /\ EntriesOK(a)

\* A sub-buffer that goes into the packet under way; one packet handed over.
Put(a) ==
  /\ UNCHANGED <<pool, staged, flying, slot, head, cc>>
  /\ \A s \in Slots \ {slot[a]} : mem'[s] = mem[s]
  /\ mem'[slot[a]].cc = mem[slot[a]].cc

Sent(a) ==
  /\ Ship(a) /\ pool # <<>> /\ UNCHANGED flying
  /\ \A s \in Slots \ {slot[a], head} : mem'[s] = mem[s]
  /\ slot[a] # head => mem'[slot[a]] = Shipped(a)
  /\ mem'[slot[a]].cc = cc[a] + 1

LEMMA ShippedIs ==
  ASSUME NEW a, Lane = {a}, LInv(a)
  PROVE  Shipped(a) \in Pkt /\ Shipped(a).cc = cc[a] + 1
<1>1. mem[slot[a]] \in Pkt /\ cc[a] \in Nat /\ subs[a] \in Seq(Part)
  BY DEF LInv, LaneTypes
<1>2. Len(subs[a]) \in Nat
  BY <1>1, LenProperties
<1> DEFINE p == mem[slot[a]]
<1>3. Shipped(a) = [p EXCEPT !.cc = cc[a] + 1, !.elems = Len(subs[a])]
  BY DEF Shipped
<1>4. ASSUME NEW x \in Pkt, NEW m \in Nat, NEW k \in Nat
      PROVE  [x EXCEPT !.cc = m, !.elems = k] \in Pkt /\ [x EXCEPT !.cc = m, !.elems = k].cc = m
  BY DEF Pkt
<1>5. cc[a] + 1 \in Nat
  BY <1>1
<1> HIDE DEF p
<1>6. p \in Pkt
  BY <1>1 DEF p
<1>7. [p EXCEPT !.cc = cc[a] + 1, !.elems = Len(subs[a])] \in Pkt
      /\ [p EXCEPT !.cc = cc[a] + 1, !.elems = Len(subs[a])].cc = cc[a] + 1
  BY <1>2, <1>4, <1>5, <1>6
<1> QED BY <1>3, <1>7, Zenon

LEMMA PutOrSent ==
  ASSUME NEW a, Lane = {a}, LInv(a), Process \/ FlushPartial(a)
  PROVE  Put(a) \/ Sent(a)
<1>1. mem \in [Slots -> Pkt] /\ slot[a] \in Slots /\ head \in Slots /\ a \in Lane
  BY DEF LInv, LaneTypes
<1>2. CASE FlushPartial(a)
  <2>1. /\ Ship(a) /\ CanShip /\ mem' = [mem EXCEPT ![slot[a]] = Shipped(a)]
        /\ UNCHANGED flying
    BY <1>2 DEF FlushPartial
  <2> QED BY <1>1, <2>1, ShippedIs DEF Sent, CanShip
<1>3. CASE Process
  <2> DEFINE sub  == Head(la)
             out  == Len(subs[a]) + 1 > PktSubs \/ SeamFlush(sub)
             ship == out /\ CanShip
             have == IF out THEN <<>> ELSE subs[a]
             left == IF ship THEN [mem EXCEPT ![slot[a]] = Shipped(a)] ELSE mem
             at   == IF ship THEN head ELSE slot[a]
             copy == IF alive \/ grace
                     THEN [left[at] EXCEPT !.body[Len(have) + 1] = <<a, sub.pt>>]
                     ELSE left[at]
             flagged == sub.discont \/ jump[a] \/ (out /\ ~ship)
             new  == IF have = <<>> THEN Birth(copy, sub, flagged) ELSE copy
  <2>1. sub \in Sub /\ sub.lane = a
    <3>1. la \in Seq(Sub) /\ todo > 0 /\ todo <= Len(la) /\ todo \in Int
      BY <1>3 DEF Process, LInv, LaneTypes
    <3>2. la # <<>>
      BY <3>1
    <3>3. sub \in Sub
      BY <3>1, <3>2
    <3> QED BY <3>3 DEF Sub
  <2>2. /\ IF ship THEN Ship(a) ELSE Drop(a)
        /\ mem' = [left EXCEPT ![at] = new] /\ UNCHANGED flying
    BY <1>3, <2>1 DEF Process
  <2>3. left \in [Slots -> Pkt] /\ at \in Slots
    BY <1>1, ShippedIs
  <2>4. new.cc = left[at].cc
    <3>1. left[at] \in Pkt
      BY <2>3
    <3> HIDE DEF left, at, flagged, have, sub
    <3>2. copy.cc = left[at].cc /\ DOMAIN copy = DOMAIN left[at]
      BY <3>1 DEF Pkt
    <3> HIDE DEF copy
    <3>3. Birth(copy, sub, flagged).cc = copy.cc
      <4>1. "cc" \in DOMAIN copy
        BY <3>1, <3>2 DEF Pkt
      <4> QED BY <4>1 DEF Birth
    <3> QED BY <3>2, <3>3
  <2> HIDE DEF new
  <2>5. CASE ship
    <3>1. Ship(a) /\ CanShip /\ left = [mem EXCEPT ![slot[a]] = Shipped(a)] /\ at = head
      BY <2>2, <2>5
    <3> HIDE DEF ship, left, at
    <3>2. \A s \in Slots \ {slot[a], head} : mem'[s] = mem[s]
      BY <1>1, <2>2, <2>3, <3>1
    <3>3. slot[a] # head => mem'[slot[a]] = Shipped(a)
      BY <1>1, <2>2, <2>3, <3>1
    <3>4. mem'[slot[a]].cc = cc[a] + 1
      <4>1. CASE slot[a] = head
        <5>1. mem'[slot[a]] = new /\ left[at] = Shipped(a)
          BY <1>1, <2>2, <2>3, <3>1, <4>1
        <5> QED BY <2>4, <5>1, ShippedIs
      <4>2. CASE slot[a] # head
        BY <3>3, <4>2, ShippedIs
      <4> QED BY <4>1, <4>2
    <3> QED BY <2>2, <3>1, <3>2, <3>3, <3>4 DEF Sent, CanShip
  <2>6. CASE ~ship
    <3>1. Drop(a) /\ left = mem /\ at = slot[a]
      BY <2>2, <2>6
    <3> HIDE DEF ship, left, at
    <3>2. mem' = [mem EXCEPT ![slot[a]] = new] /\ new.cc = mem[slot[a]].cc
      BY <2>2, <2>4, <3>1
    <3> QED BY <1>1, <2>2, <3>1, <3>2 DEF Put, Drop
  <2> QED BY <2>5, <2>6
<1> QED BY <1>2, <1>3

LEMMA RingIs == ASSUME NEW a, Lane = {a}
                PROVE  RingSize \in Nat /\ RingSize > 1 /\ \A s \in Slots : (s + 1) % RingSize = Ahead(s, 1)
<1>1. RingSize \in Nat /\ RingSize > 1
  BY SlotsFact
<1>2. ASSUME NEW s \in Slots PROVE (s + 1) % RingSize = Ahead(s, 1)
  <2>1. s \in Nat /\ s + 1 <= RingSize
    BY <1>1 DEF Slots
  <2>2. CASE s + 1 = RingSize
    BY <1>1, <2>1, <2>2 DEF Ahead
  <2>3. CASE s + 1 < RingSize
    BY <1>1, <2>1, <2>3 DEF Ahead
  <2> QED BY <1>1, <2>1, <2>2, <2>3
<1> QED BY <1>1, <1>2

\* a request that is outstanding for less than a lap keeps its place
LEMMA EntryKept ==
  ASSUME NEW a, Lane = {a}, LInv(a), NEW e \in Req, InPlace(a, e),
         \/ Put(a) /\ Age(a, e) <= RingSize - 2
         \/ Sent(a) /\ head = Ahead(slot[a], 1) /\ Age(a, e) + 1 <= RingSize - 2
  PROVE  InPlace(a, e)'
<1>1. /\ cc[a] \in Nat /\ slot[a] \in 0..(RingSize - 1) /\ head \in 0..(RingSize - 1)
      /\ slot \in [Lane -> Slots] /\ cc \in [Lane -> Nat] /\ a \in Lane
      /\ e.slot \in 0..(RingSize - 1) /\ e.pkt.cc \in Nat
  BY DEF LInv, LaneTypes, Slots, Req, Pkt
<1>2. RingSize \in Nat /\ RingSize > 1
  BY SlotsFact
<1> DEFINE d == Age(a, e)
<1>3. d \in Int /\ d >= 0 /\ d = cc[a] - e.pkt.cc
  BY <1>1 DEF InPlace, Age
<1>4. CASE Put(a) /\ d <= RingSize - 2
  <2>1. slot' = slot /\ cc' = cc /\ Age(a, e)' = d
    BY <1>4 DEF Put, Age
  <2>2. \A s \in Slots : s # slot[a] => mem'[s] = mem[s]
    BY <1>4 DEF Put
  <2>3. ASSUME OwnSlot(a, e) PROVE OwnSlot(a, e)'
    <3>1. slot[a] # e.slot
      BY <1>1, <1>2, <1>3, <1>4, <2>3 DEF OwnSlot, Ahead
    <3>2. mem'[e.slot] = mem[e.slot]
      BY <1>1, <2>2, <3>1 DEF Slots
    <3> QED BY <2>1, <2>3, <3>2 DEF OwnSlot
  <2>4. ASSUME FirstSlot(a, e) PROVE FirstSlot(a, e)'
    <3>1. mem'[0].cc = mem[0].cc
      <4>1. CASE slot[a] = 0
        BY <1>4, <4>1 DEF Put
      <4>2. CASE slot[a] # 0
        BY <1>1, <1>2, <2>2, <4>2 DEF Slots
      <4> QED BY <4>1, <4>2
    <3> QED BY <2>1, <2>4, <3>1 DEF FirstSlot
  <2> QED BY <1>3, <2>1, <2>3, <2>4 DEF InPlace
<1>5. CASE Sent(a) /\ head = Ahead(slot[a], 1) /\ d + 1 <= RingSize - 2
  <2>1. slot'[a] = head /\ cc'[a] = cc[a] + 1
    BY <1>1, <1>5 DEF Sent, Ship
  <2>2. Age(a, e)' = d + 1
    BY <1>1, <1>3, <2>1 DEF Age
  <2>3. \A s \in Slots : s # slot[a] /\ s # head => mem'[s] = mem[s]
    BY <1>5 DEF Sent
  <2>4. head = Ahead(slot[a], 1)
    BY <1>5
  <2>5. ASSUME OwnSlot(a, e) PROVE OwnSlot(a, e)'
    <3>1. slot[a] = Ahead(e.slot, d + 1)
      BY <2>5 DEF OwnSlot
    <3> HIDE DEF d
    <3>2. slot[a] # e.slot /\ head # e.slot
      BY <1>1, <1>2, <1>3, <1>5, <2>4, <3>1 DEF Ahead
    <3>3. mem'[e.slot] = mem[e.slot]
      BY <1>1, <2>3, <3>2 DEF Slots
    <3>4. head = Ahead(e.slot, (d + 1) + 1)
      BY <1>1, <1>2, <1>3, <1>5, <2>4, <3>1 DEF Ahead
    <3> QED BY <2>1, <2>2, <2>5, <3>3, <3>4 DEF OwnSlot
  <2>6. ASSUME FirstSlot(a, e) PROVE FirstSlot(a, e)'
    <3>1. slot[a] = d /\ e.slot = 0 /\ mem[0].cc = IF d = 0 THEN e.pkt.cc ELSE e.pkt.cc + 1
      BY <2>6 DEF FirstSlot
    <3> HIDE DEF d
    <3>2. head = d + 1 /\ head # 0
      BY <1>2, <1>3, <1>5, <2>4, <3>1 DEF Ahead
    <3>3. mem'[0].cc = e.pkt.cc + 1
      <4>1. CASE d = 0
        <5>1. mem'[0].cc = cc[a] + 1
          BY <1>5, <3>1, <4>1 DEF Sent
        <5> QED BY <1>1, <1>3, <4>1, <5>1
      <4>2. CASE d # 0
        <5>1. mem'[0] = mem[0]
          BY <1>1, <1>2, <2>3, <3>1, <3>2, <4>2 DEF Slots
        <5> QED BY <3>1, <4>2, <5>1
      <4> QED BY <4>1, <4>2
    <3>4. d + 1 # 0
      BY <1>3
    <3> QED BY <2>1, <2>2, <3>1, <3>2, <3>3, <3>4 DEF FirstSlot
  <2>7. d + 1 >= 0
    BY <1>3
  <2> QED BY <2>2, <2>5, <2>6, <2>7 DEF InPlace
<1> QED BY <1>4, <1>5 DEF d

\* the packet handed over is in place
LEMMA EntryNew ==
  ASSUME NEW a, Lane = {a}, LInv(a), Sent(a), NEW e, e.slot = slot[a], e.pkt = Shipped(a),
         head = Ahead(slot[a], 1) \/ (head = 0 /\ slot[a] = 0)
  PROVE  InPlace(a, e)' /\ Age(a, e)' = 0
<1>1. /\ cc[a] \in Nat /\ slot[a] \in 0..(RingSize - 1)
      /\ slot \in [Lane -> Slots] /\ cc \in [Lane -> Nat] /\ a \in Lane
  BY DEF LInv, LaneTypes, Slots
<1>2. RingSize \in Nat /\ RingSize > 1 /\ e.pkt.cc = cc[a] + 1
  BY SlotsFact, ShippedIs
<1>3. slot'[a] = head /\ cc'[a] = cc[a] + 1 /\ Age(a, e)' = 0
  BY <1>1, <1>2 DEF Sent, Ship, Age
<1>4. CASE head = Ahead(slot[a], 1)
  <2>1. head # slot[a]
    BY <1>1, <1>2, <1>4 DEF Ahead
  <2>2. mem'[e.slot] = e.pkt
    BY <2>1 DEF Sent
  <2>3. slot'[a] = Ahead(e.slot, 0 + 1)
    BY <1>3, <1>4
  <2>4. OwnSlot(a, e)'
    BY <1>3, <2>2, <2>3 DEF OwnSlot
  <2> QED BY <1>3, <2>4 DEF InPlace
<1>5. CASE head = 0 /\ slot[a] = 0
  <2>1. mem'[0].cc = e.pkt.cc
    BY <1>2, <1>5 DEF Sent
  <2> QED BY <1>3, <1>5, <2>1 DEF InPlace, FirstSlot
<1> QED BY <1>3, <1>4, <1>5

\* what leaves a queue
LEMMA TailIs ==
  ASSUME NEW S, NEW s \in Seq(S), s # <<>>
  PROVE  /\ Head(s) \in S /\ s[1] = Head(s) /\ Tail(s) \in Seq(S) /\ Len(s) \in Nat /\ Len(Tail(s)) = Len(s) - 1
         /\ \A i \in 1..(Len(s) - 1) : Tail(s)[i] = s[i + 1]
<1>1. /\ Head(s) \in S /\ Tail(s) \in Seq(S) /\ Len(Tail(s)) = Len(s) - 1
      /\ \A i \in 1..(Len(s) - 1) : Tail(s)[i] = s[i + 1]
  BY HeadTailProperties
<1>2. s[1] = Head(s) /\ Len(s) \in Nat
  OBVIOUS
<1> QED BY <1>1, <1>2

LEMMA RemovedIs ==
  ASSUME NEW S, NEW s \in Seq(S), NEW i \in 1..Len(s)
  PROVE  /\ RemoveAt(s, i) \in Seq(S) /\ Len(RemoveAt(s, i)) = Len(s) - 1
         /\ \A j \in 1..(Len(s) - 1) : RemoveAt(s, i)[j] = IF j < i THEN s[j] ELSE s[j + 1]
<1> DEFINE f == SubSeq(s, 1, i - 1)
           g == SubSeq(s, i + 1, Len(s))
<1>1. Len(s) \in Nat /\ i \in Nat /\ i >= 1 /\ i <= Len(s)
  OBVIOUS
<1>2. f \in Seq(S) /\ Len(f) = i - 1 /\ \A j \in 1..(i - 1) : f[j] = s[j]
  OBVIOUS
<1>3. g \in Seq(S) /\ Len(g) = Len(s) - i /\ \A j \in 1..(Len(s) - i) : g[j] = s[i + j]
  OBVIOUS
<1>4. RemoveAt(s, i) = f \o g
  BY DEF RemoveAt
<1> HIDE DEF f, g
<1>5. f \o g \in Seq(S) /\ Len(f \o g) = Len(s) - 1
  <2>1. f \o g \in Seq(S) /\ Len(f \o g) = Len(f) + Len(g)
    BY <1>2, <1>3, ConcatProperties
  <2> QED BY <1>1, <1>2, <1>3, <2>1
<1>6. ASSUME NEW j \in 1..(Len(s) - 1) PROVE (f \o g)[j] = IF j < i THEN s[j] ELSE s[j + 1]
  <2>1. CASE j < i
    <3>1. j \in 1..Len(f) /\ j \in 1..(i - 1)
      BY <1>1, <1>2, <2>1
    <3> QED BY <1>2, <1>3, <2>1, <3>1
  <2>2. CASE j >= i
    <3>1. j - (i - 1) \in 1..(Len(s) - i) /\ j > Len(f) /\ j <= Len(f) + Len(g) /\ i + (j - (i - 1)) = j + 1
      BY <1>1, <1>2, <1>3, <2>2
    <3>2. (f \o g)[j] = g[j - Len(f)]
      BY <1>2, <1>3, <3>1
    <3> QED BY <1>1, <1>2, <1>3, <2>2, <3>1, <3>2
  <2>3. j < i \/ j >= i
    BY <1>1
  <2> QED BY <2>1, <2>2, <2>3, Zenon
<1> QED BY <1>4, <1>5, <1>6

\* a packet overtaken is the same packet
LEMMA PassedIs ==
  ASSUME NEW e \in Req
  PROVE  /\ Passed(e) \in Req /\ Passed(e).pkt = e.pkt /\ Passed(e).slot = e.slot
         /\ Passed(e).over = e.over + 1 /\ e.over \in Nat
BY DEF Passed, Req

LEMMA PassedKept ==
  ASSUME NEW a, NEW e \in Req, EntryOK(a, e), UNCHANGED <<mem, slot, cc>>
  PROVE  /\ EntryOK(a, e)' /\ EntryOK(a, Passed(e))'
         /\ Age(a, e)' = Age(a, e) /\ Age(a, Passed(e))' = Age(a, e)
<1>1. /\ Passed(e).pkt = e.pkt /\ Passed(e).slot = e.slot
      /\ Passed(e).over = e.over + 1 /\ e.over \in Nat
  BY PassedIs
<1>2. Within(Passed(e)) => Within(e)
  BY <1>1, RequestsNat, RingAssumption DEF Within
<1>3. Age(a, e)' = Age(a, e) /\ Age(a, Passed(e))' = Age(a, e)
  BY <1>1 DEF Age
<1>4. InPlace(a, e) => InPlace(a, e)' /\ InPlace(a, Passed(e))'
  BY <1>1, <1>3 DEF InPlace, OwnSlot, FirstSlot
<1> QED BY <1>2, <1>3, <1>4 DEF EntryOK

LEMMA AgeInt ==
  ASSUME NEW a, Lane = {a}, LInv(a), NEW e \in Req
  PROVE  Age(a, e) \in Int
<1>1. e.pkt \in Pkt
  BY DEF Req
<1>2. e.pkt.cc \in Nat
  BY <1>1 DEF Pkt
<1>3. cc[a] \in Nat
  BY DEF LInv, LaneTypes
<1> QED BY <1>2, <1>3 DEF Age

LEMMA FlightStays ==
  ASSUME NEW a, FlightInv(a), UNCHANGED <<mem, head, slot, cc, pool, staged, flying>>
  PROVE  FlightInv(a)'
BY DEF FlightInv, QueuesOK, CursorOK, AgesOK, EntriesOK, EntryOK, InPlace, OwnSlot, FirstSlot, Age

LEMMA InitFlight ==
  ASSUME NEW a, Lane = {a}, Init
  PROVE  FlightInv(a)
<1> DEFINE n == Cardinality(Ep)
<1>1. n \in Nat /\ Requests \in Nat /\ IsFiniteSet(Ep)
  BY FS_CardinalityType, RequestsNat, RingAssumption
<1>2. SetToSeq(Ep) \in [1..n -> Ep]
  <2>1. PICK f \in [1..n -> Ep] : IsInjective(f)
    <3>1. ExistsBijection(1..n, Ep)
      BY <1>1, FS_CardinalityType
    <3> QED BY <3>1 DEF ExistsBijection, Bijection, Injection, IsInjective
  <2> QED BY <2>1 DEF SetToSeq
<1>3. pool = [i \in 1..Requests |-> SetToSeq(Ep)[((i - 1) % n) + 1]]
  BY Zenon DEF Init, Requests
<1>4. ASSUME NEW i \in 1..Requests PROVE SetToSeq(Ep)[((i - 1) % n) + 1] \in Ep
  <2>1. n # 0
    BY <1>1, <1>4, RingAssumption DEF Requests
  <2>2. ASSUME NEW x \in Nat, NEW m \in Nat, m # 0 PROVE x % m \in 0..(m - 1)
    BY <2>2
  <2>3. i - 1 \in Nat
    BY <1>1
  <2>4. (i - 1) % n \in 0..(n - 1)
    BY <1>1, <2>1, <2>2, <2>3
  <2>5. ((i - 1) % n) + 1 \in 1..n
    BY <1>1, <2>4
  <2> QED BY <1>2, <2>5
<1> HIDE DEF n
<1>5. pool \in [1..Requests -> Ep]
  BY <1>3, <1>4, Zenon
<1>6. pool \in Seq(Ep)
  BY <1>1, <1>5
<1>7. DOMAIN pool = 1..Requests /\ Len(pool) \in Nat
  BY <1>5, <1>6
<1>8. Len(pool) = Requests
  BY <1>1, <1>6, <1>7, LenProperties
<1>9. staged = <<>> /\ flying = <<>> /\ head = 0 /\ slot[a] = 0
  BY DEF Init
<1>10. QueuesOK
  BY <1>1, <1>6, <1>8, <1>9 DEF QueuesOK
<1> QED BY <1>9, <1>10 DEF FlightInv, CursorOK, AgesOK, EntriesOK

\* the i-th of the packets in flight ends, before those ahead of it
LEMMA FlightDone ==
  ASSUME NEW a, Lane = {a}, LInv(a), FlightInv(a), NEW i \in 1..Len(flying),
         flying' \in Seq(Req), Len(flying') = Len(flying) - 1,
         \A j \in 1..(Len(flying) - 1) : flying'[j] = IF j < i THEN Passed(flying[j]) ELSE flying[j + 1],
         pool' = Append(pool, flying[i].ep), UNCHANGED <<mem, head, slot, cc, staged>>
  PROVE  FlightInv(a)'
<1>1. /\ flying \in Seq(Req) /\ pool \in Seq(Ep) /\ staged \in Seq(Req)
      /\ Len(pool) + Len(staged) + Len(flying) = Requests
  BY DEF FlightInv, QueuesOK
<1>2. \A j \in 1..Len(flying) : flying[j] \in Req
  BY <1>1, ElementOfSeq
<1>3. flying[i].ep \in Ep
  BY <1>2 DEF Req
<1>4. pool' \in Seq(Ep) /\ Len(pool') = Len(pool) + 1
  BY <1>1, <1>3, AppendProperties
<1>5. Len(pool) \in Nat /\ Len(staged) \in Nat /\ Len(flying) \in Nat
  BY <1>1
<1>6. QueuesOK'
  BY <1>1, <1>4, <1>5 DEF QueuesOK
<1>7. CursorOK(a)'
  <2>1. ~(staged = <<>> /\ flying = <<>>)
    BY <1>1, <1>5
  <2> QED BY <2>1 DEF FlightInv, CursorOK
<1>8. ASSUME NEW j \in 1..Len(flying)
      PROVE  /\ Age(a, flying[j]) \in Int /\ EntryOK(a, flying[j])
             /\ Age(a, flying[j]) <= Len(flying) - j + Len(staged) + flying[j].over
             /\ flying[j].over \in Nat
  <2>1. flying[j] \in Req
    BY <1>2
  <2> QED BY <2>1, AgeInt, PassedIs DEF FlightInv, AgesOK, EntriesOK
<1>9. ASSUME NEW j \in 1..(Len(flying) - 1)
      PROVE  /\ Age(a, flying[j])' <= Len(flying) - 1 - j + Len(staged) + flying'[j].over
             /\ EntryOK(a, flying[j])'
  <2>1. CASE j < i
    <3>1. j \in 1..Len(flying) /\ flying'[j] = Passed(flying[j]) /\ flying[j] \in Req
      BY <1>2, <1>5, <2>1
    <3>2. PICK e \in Req : e = flying[j]
      BY <3>1
    <3>3. EntryOK(a, Passed(e))' /\ Age(a, Passed(e))' = Age(a, e) /\ Passed(e).over = e.over + 1
      BY <1>8, <3>1, <3>2, PassedIs, PassedKept
    <3>4. Age(a, e) <= Len(flying) - 1 - j + Len(staged) + (e.over + 1)
      <4>1. /\ Age(a, e) \in Int /\ e.over \in Nat
            /\ Age(a, e) <= Len(flying) - j + Len(staged) + e.over
        BY <1>8, <3>1, <3>2
      <4> QED BY <1>5, <4>1
    <3>5. flying'[j] = Passed(e)
      BY <3>1, <3>2
    <3> QED BY <3>3, <3>4, <3>5 DEF EntryOK, InPlace, OwnSlot, FirstSlot, Age
  <2>2. CASE ~(j < i)
    <3>1. j + 1 \in 1..Len(flying) /\ flying'[j] = flying[j + 1] /\ flying[j + 1] \in Req
      BY <1>2, <1>5, <2>2
    <3>2. PICK e \in Req : e = flying[j + 1]
      BY <3>1
    <3>3. EntryOK(a, e)' /\ Age(a, e)' = Age(a, e)
      BY <1>8, <3>1, <3>2, PassedKept
    <3>4. Age(a, e) <= Len(flying) - 1 - j + Len(staged) + e.over
      <4>1. /\ Age(a, e) \in Int /\ e.over \in Nat
            /\ Age(a, e) <= Len(flying) - (j + 1) + Len(staged) + e.over
        BY <1>8, <3>1, <3>2
      <4> QED BY <1>5, <4>1
    <3>5. flying'[j] = e
      BY <3>1, <3>2
    <3> QED BY <3>3, <3>4, <3>5 DEF EntryOK, InPlace, OwnSlot, FirstSlot, Age
  <2> QED BY <2>1, <2>2
<1>10. AgesOK(a)'
  BY <1>9 DEF FlightInv, AgesOK, Age
<1>11. EntriesOK(a)'
  BY <1>9 DEF FlightInv, EntriesOK, EntryOK, InPlace, OwnSlot, FirstSlot, Age
<1> QED BY <1>6, <1>7, <1>10, <1>11 DEF FlightInv

\* the first packet staged leaves the list: it goes into flight, or is lost
LEMMA FlightArmed ==
  ASSUME NEW a, Lane = {a}, LInv(a), FlightInv(a), staged # <<>>, staged' = Tail(staged),
         UNCHANGED <<mem, head, slot, cc>>,
         \/ flying' = Append(flying, staged[1]) /\ UNCHANGED pool
         \/ /\ pool' = Append(pool, staged[1].ep)
            /\ flying' = [i \in DOMAIN flying |-> Passed(flying[i])]
  PROVE  FlightInv(a)'
<1>1. /\ flying \in Seq(Req) /\ pool \in Seq(Ep) /\ staged \in Seq(Req)
      /\ Len(pool) + Len(staged) + Len(flying) = Requests
  BY DEF FlightInv, QueuesOK
<1>2. /\ staged[1] \in Req /\ staged' \in Seq(Req) /\ Len(staged') = Len(staged) - 1
      /\ \A i \in 1..(Len(staged) - 1) : staged'[i] = staged[i + 1]
  BY <1>1, TailIs
<1>3. staged[1].ep \in Ep
  BY <1>2 DEF Req
<1>5. Len(pool) \in Nat /\ Len(staged) \in Nat /\ Len(flying) \in Nat /\ Len(staged) >= 1
  BY <1>1
<1>7. CursorOK(a)'
  BY DEF FlightInv, CursorOK
<1>4. \A i \in 1..Len(flying) : flying[i] \in Req
  BY <1>1, ElementOfSeq
<1>6. \A i \in 1..Len(staged) : staged[i] \in Req
  BY <1>1, ElementOfSeq
<1>8. ASSUME NEW i \in 1..(Len(staged) - 1)
      PROVE  /\ Age(a, staged[i])' <= Len(staged) - 1 - i + staged'[i].over
             /\ EntryOK(a, staged[i])'
  <2>1. i + 1 \in 1..Len(staged) /\ staged'[i] = staged[i + 1]
    BY <1>2, <1>5
  <2>2. PICK e \in Req : e = staged[i + 1]
    BY <1>6, <2>1
  <2>3. Age(a, e) <= Len(staged) - (i + 1) + e.over /\ EntryOK(a, e)
    BY <2>1, <2>2 DEF FlightInv, AgesOK, EntriesOK
  <2>4. Len(staged) - (i + 1) = Len(staged) - 1 - i
    BY <1>5
  <2>5. EntryOK(a, e)' /\ Age(a, e)' = Age(a, e)
    BY <2>3, PassedKept
  <2>6. staged'[i] = e
    BY <2>1, <2>2
  <2> QED BY <2>3, <2>4, <2>5, <2>6 DEF EntryOK, InPlace, OwnSlot, FirstSlot, Age
<1>9. ASSUME NEW i \in 1..Len(flying)
      PROVE  /\ Age(a, flying[i]) <= Len(flying) - i + Len(staged) + flying[i].over
             /\ EntryOK(a, flying[i])
  BY DEF FlightInv, AgesOK, EntriesOK
<1>10. Age(a, staged[1]) <= Len(staged) - 1 + staged[1].over /\ EntryOK(a, staged[1])
  BY <1>5 DEF FlightInv, AgesOK, EntriesOK
<1>11. CASE flying' = Append(flying, staged[1]) /\ UNCHANGED pool
  <2>1. /\ flying' \in Seq(Req) /\ Len(flying') = Len(flying) + 1
        /\ \A i \in 1..Len(flying) : flying'[i] = flying[i]
        /\ flying'[Len(flying) + 1] = staged[1]
    BY <1>1, <1>2, <1>11, AppendProperties
  <2>2. QueuesOK'
    BY <1>1, <1>2, <1>5, <1>11, <2>1 DEF QueuesOK
  <2>3. ASSUME NEW i \in 1..(Len(flying) + 1)
        PROVE  /\ Age(a, flying[i])' <= Len(flying) + 1 - i + (Len(staged) - 1) + flying'[i].over
               /\ EntryOK(a, flying[i])'
    <3>1. PICK e \in Req : e = flying'[i] /\ EntryOK(a, e)
                           /\ Age(a, e) <= Len(flying) + 1 - i + (Len(staged) - 1) + e.over
      <4>1. CASE i = Len(flying) + 1
        <5>1. PICK e \in Req : e = staged[1]
          BY <1>2
        <5>2. Age(a, e) <= Len(staged) - 1 + e.over /\ EntryOK(a, e) /\ flying'[i] = e
          BY <1>10, <2>1, <4>1, <5>1
        <5>3. Len(flying) + 1 - i + (Len(staged) - 1) = Len(staged) - 1
          BY <1>5, <4>1
        <5> QED BY <5>2, <5>3
      <4>2. CASE i # Len(flying) + 1
        <5>1. i \in 1..Len(flying)
          BY <1>5, <4>2
        <5>2. PICK e \in Req : e = flying[i]
          BY <1>4, <5>1
        <5>3. Age(a, e) <= Len(flying) - i + Len(staged) + e.over /\ EntryOK(a, e) /\ flying'[i] = e
          BY <1>9, <2>1, <5>1, <5>2
        <5>4. Len(flying) + 1 - i + (Len(staged) - 1) = Len(flying) - i + Len(staged)
          BY <1>5
        <5> QED BY <5>3, <5>4
      <4> QED BY <4>1, <4>2
    <3>2. EntryOK(a, e)' /\ Age(a, e)' = Age(a, e)
      BY <3>1, PassedKept
    <3> QED BY <3>1, <3>2 DEF EntryOK, InPlace, OwnSlot, FirstSlot, Age
  <2>4. AgesOK(a)'
    BY <1>2, <1>8, <2>1, <2>3 DEF AgesOK, Age
  <2>5. EntriesOK(a)'
    BY <1>2, <1>8, <2>1, <2>3 DEF EntriesOK, EntryOK, InPlace, OwnSlot, FirstSlot, Age
  <2> QED BY <1>7, <2>2, <2>4, <2>5 DEF FlightInv
<1>12. CASE pool' = Append(pool, staged[1].ep) /\ flying' = [i \in DOMAIN flying |-> Passed(flying[i])]
  <2>1. pool' \in Seq(Ep) /\ Len(pool') = Len(pool) + 1
    BY <1>1, <1>3, <1>12, AppendProperties
  <2>2. flying' \in Seq(Req) /\ Len(flying') = Len(flying) /\ \A i \in 1..Len(flying) : flying'[i] = Passed(flying[i])
    <3>1. DOMAIN flying = 1..Len(flying) /\ \A i \in 1..Len(flying) : Passed(flying[i]) \in Req
      BY <1>1, <1>4, PassedIs
    <3>2. flying' \in [1..Len(flying) -> Req] /\ \A i \in 1..Len(flying) : flying'[i] = Passed(flying[i])
      BY <1>12, <3>1, Zenon
    <3>3. flying' \in Seq(Req) /\ DOMAIN flying' = 1..Len(flying)
      BY <1>5, <3>2
    <3> QED BY <1>5, <3>2, <3>3, LenProperties
  <2>3. QueuesOK'
    BY <1>1, <1>2, <1>5, <2>1, <2>2 DEF QueuesOK
  <2>4. ASSUME NEW i \in 1..Len(flying)
        PROVE  /\ Age(a, flying[i])' <= Len(flying) - i + (Len(staged) - 1) + flying'[i].over
               /\ EntryOK(a, flying[i])'
    <3>1. PICK e \in Req : e = flying[i]
      BY <1>4
    <3>2. EntryOK(a, Passed(e))' /\ Age(a, Passed(e))' = Age(a, e) /\ Passed(e).over = e.over + 1 /\ e.over \in Nat
      BY <1>9, <3>1, PassedIs, PassedKept
    <3>3. Len(flying) - i + (Len(staged) - 1) + (e.over + 1) = Len(flying) - i + Len(staged) + e.over
      BY <1>5, <3>2
    <3>4. Age(a, e) <= Len(flying) - i + Len(staged) + e.over
      BY <1>9, <3>1
    <3>5. flying'[i] = Passed(e)
      BY <2>2, <3>1
    <3> QED BY <3>2, <3>3, <3>4, <3>5 DEF EntryOK, InPlace, OwnSlot, FirstSlot, Age
  <2>5. AgesOK(a)'
    BY <1>2, <1>8, <2>2, <2>4 DEF AgesOK, Age
  <2>6. EntriesOK(a)'
    BY <1>2, <1>8, <2>2, <2>4 DEF EntriesOK, EntryOK, InPlace, OwnSlot, FirstSlot, Age
  <2> QED BY <1>7, <2>3, <2>5, <2>6 DEF FlightInv
<1> QED BY <1>11, <1>12

LEMMA FlightReset ==
  ASSUME NEW a, Lane = {a}, FlightInv(a), Reset
  PROVE  FlightInv(a)'
<1>1. /\ flying \in Seq(Req) /\ pool \in Seq(Ep) /\ staged \in Seq(Req)
      /\ Len(pool) + Len(staged) + Len(flying) = Requests
  BY DEF FlightInv, QueuesOK
<1>2. ASSUME NEW s \in Seq(Req)
      PROVE  [i \in DOMAIN s |-> s[i].ep] \in Seq(Ep) /\ Len([i \in DOMAIN s |-> s[i].ep]) = Len(s)
  <2>1. DOMAIN s = 1..Len(s) /\ Len(s) \in Nat
    OBVIOUS
  <2>2. ASSUME NEW i \in 1..Len(s) PROVE s[i].ep \in Ep
    <3>1. s[i] \in Req
      BY ElementOfSeq
    <3> QED BY <3>1 DEF Req
  <2> QED BY <2>1, <2>2
<1> DEFINE f == [i \in DOMAIN flying |-> flying[i].ep]
           g == [i \in DOMAIN staged |-> staged[i].ep]
<1>3. f \in Seq(Ep) /\ g \in Seq(Ep) /\ Len(f) = Len(flying) /\ Len(g) = Len(staged)
  BY <1>1, <1>2
<1>4. /\ pool' = pool \o f \o g /\ staged' = <<>> /\ flying' = <<>>
      /\ head' = 0 /\ slot'[a] = 0
  BY DEF Reset
<1> HIDE DEF f, g
<1>5. pool \o f \in Seq(Ep) /\ Len(pool \o f) = Len(pool) + Len(f)
  BY <1>1, <1>3, ConcatProperties
<1>6. pool' \in Seq(Ep) /\ Len(pool') = Len(pool) + Len(f) + Len(g)
  <2> DEFINE h == pool \o f
  <2>1. h \in Seq(Ep) /\ pool' = h \o g
    BY <1>4, <1>5
  <2>2. Len(h) = Len(pool) + Len(f)
    BY <1>5
  <2> HIDE DEF h
  <2>3. h \o g \in Seq(Ep) /\ Len(h \o g) = Len(h) + Len(g)
    BY <1>3, <2>1, ConcatProperties
  <2> QED BY <2>1, <2>2, <2>3
<1>7. Len(pool) \in Nat /\ Len(staged) \in Nat /\ Len(flying) \in Nat
  BY <1>1
<1>8. QueuesOK'
  BY <1>1, <1>3, <1>4, <1>6, <1>7 DEF QueuesOK
<1> QED BY <1>4, <1>8 DEF FlightInv, CursorOK, AgesOK, EntriesOK

\* what has not been overtaken too often is not a lap old, nor will be once a
\* request is taken
LEMMA LessThanALap ==
  ASSUME NEW a, Lane = {a}, LInv(a), FlightInv(a),
         NEW e, (\E i \in 1..Len(flying) : e = flying[i]) \/ (\E i \in 1..Len(staged) : e = staged[i])
  PROVE  /\ e \in Req /\ EntryOK(a, e) /\ Age(a, e) \in Int
         /\ Within(e) => /\ Age(a, e) <= RingSize - 2
                         /\ pool # <<>> => Age(a, e) + 1 <= RingSize - 2
         /\ head = Ahead(slot[a], 1)
<1>1. /\ flying \in Seq(Req) /\ pool \in Seq(Ep) /\ staged \in Seq(Req)
      /\ Len(pool) + Len(staged) + Len(flying) = Requests /\ {Requests, RingSize} \subseteq Nat
  BY RingAssumption, RequestsNat DEF FlightInv, QueuesOK
<1>2. Len(pool) \in Nat /\ Len(staged) \in Nat /\ Len(flying) \in Nat /\ (pool # <<>> => Len(pool) >= 1)
  BY <1>1, EmptySeq
<1>3. /\ e \in Req /\ EntryOK(a, e) /\ Len(staged) + Len(flying) >= 1 /\ e.over \in Nat
      /\ Age(a, e) \in Int /\ Age(a, e) <= Len(flying) + Len(staged) - 1 + e.over
  <2>1. ASSUME NEW i \in 1..Len(flying), e = flying[i]
        PROVE  e \in Req /\ EntryOK(a, e) /\ Age(a, e) <= Len(flying) - i + Len(staged) + e.over
    BY <1>1, <2>1, ElementOfSeq DEF FlightInv, AgesOK, EntriesOK
  <2>2. ASSUME NEW i \in 1..Len(staged), e = staged[i]
        PROVE  e \in Req /\ EntryOK(a, e) /\ Age(a, e) <= Len(staged) - i + e.over
    BY <1>1, <2>2, ElementOfSeq DEF FlightInv, AgesOK, EntriesOK
  <2>3. e \in Req /\ EntryOK(a, e)
    BY <2>1, <2>2
  <2>5. Age(a, e) \in Int /\ e.over \in Nat
    BY <2>3, AgeInt, PassedIs
  <2>4. CASE \E i \in 1..Len(flying) : e = flying[i]
    <3>1. PICK i \in 1..Len(flying) : e = flying[i]
      BY <2>4
    <3>2. Age(a, e) <= Len(flying) - i + Len(staged) + e.over
      BY <2>1, <3>1
    <3> QED BY <1>2, <2>3, <2>5, <3>2
  <2>6. CASE \E i \in 1..Len(staged) : e = staged[i]
    <3>1. PICK i \in 1..Len(staged) : e = staged[i]
      BY <2>6
    <3>2. Age(a, e) <= Len(staged) - i + e.over
      BY <2>2, <3>1
    <3> QED BY <1>2, <2>3, <2>5, <3>2
  <2> QED BY <2>4, <2>6
<1>5. ~(staged = <<>> /\ flying = <<>>)
  BY <1>2, <1>3
<1>6. head = Ahead(slot[a], 1)
  BY <1>5 DEF FlightInv, CursorOK
<1>7. /\ Len(flying) + Len(staged) <= Requests
      /\ pool # <<>> => Len(flying) + Len(staged) + 1 <= Requests
  <2>1. Len(pool) + Len(staged) + Len(flying) = Requests
    BY <1>1
  <2> QED BY <1>2, <2>1
<1>8. Requests \in Nat /\ RingSize \in Nat
  BY <1>1
<1>9. ASSUME e.over + Requests < RingSize
      PROVE  Age(a, e) <= RingSize - 2 /\ (pool # <<>> => Age(a, e) + 1 <= RingSize - 2)
  BY <1>2, <1>3, <1>7, <1>8, <1>9
<1> QED BY <1>3, <1>6, <1>9 DEF Within

LEMMA FlightPut ==
  ASSUME NEW a, Lane = {a}, LInv(a), FlightInv(a), Put(a)
  PROVE  FlightInv(a)'
<1>1. UNCHANGED <<pool, staged, flying, slot, head, cc>>
  BY DEF Put
<1>2. ASSUME NEW e, (\E i \in 1..Len(flying) : e = flying[i]) \/ (\E i \in 1..Len(staged) : e = staged[i])
      PROVE  EntryOK(a, e)'
  <2>1. e \in Req /\ EntryOK(a, e) /\ (Within(e) => Age(a, e) <= RingSize - 2)
    BY <1>2, LessThanALap
  <2>2. Within(e) => InPlace(a, e)'
    BY <2>1, EntryKept DEF EntryOK
  <2>3. Age(a, e)' = Age(a, e)
    BY <1>1 DEF Age
  <2> QED BY <2>1, <2>2, <2>3 DEF EntryOK
<1>3. EntriesOK(a)'
  BY <1>1, <1>2 DEF EntriesOK, EntryOK, InPlace, OwnSlot, FirstSlot, Age
<1> QED BY <1>1, <1>3 DEF FlightInv, QueuesOK, CursorOK, AgesOK, Age

LEMMA FlightSent ==
  ASSUME NEW a, Lane = {a}, LInv(a), FlightInv(a), Sent(a)
  PROVE  FlightInv(a)'
<1>r. PICK r : r = [ep |-> Head(pool), slot |-> slot[a], pkt |-> Shipped(a), subs |-> subs[a], over |-> 0]
  OBVIOUS
<1>1. /\ flying \in Seq(Req) /\ pool \in Seq(Ep) /\ staged \in Seq(Req)
      /\ Len(pool) + Len(staged) + Len(flying) = Requests
      /\ pool # <<>> /\ pool' = Tail(pool) /\ staged' = Append(staged, r)
      /\ flying' = flying
  BY <1>r DEF FlightInv, QueuesOK, Sent, Ship
<1>2. cc'[a] = cc[a] + 1 /\ cc[a] \in Nat /\ slot'[a] = head /\ head' = (head + 1) % RingSize
      /\ head \in Slots /\ slot[a] \in Slots /\ subs[a] \in Seq(Part)
  BY DEF Sent, Ship, LInv, LaneTypes
<1>3. r \in Req /\ r.slot = slot[a] /\ r.pkt = Shipped(a) /\ r.over = 0
  <2>1. Head(pool) \in Ep
    BY <1>1, HeadTailProperties
  <2> QED BY <1>r, <1>2, <2>1, ShippedIs DEF Req
<1>4. /\ staged' \in Seq(Req) /\ Len(staged') = Len(staged) + 1
      /\ \A i \in 1..Len(staged) : staged'[i] = staged[i]
      /\ staged'[Len(staged) + 1] = r
  BY <1>1, <1>3, AppendProperties
<1>5. pool' \in Seq(Ep) /\ Len(pool') = Len(pool) - 1
  BY <1>1, HeadTailProperties
<1>6. Len(pool) \in Nat /\ Len(staged) \in Nat /\ Len(flying) \in Nat
  BY <1>1
<1>7. QueuesOK'
  BY <1>1, <1>4, <1>5, <1>6 DEF QueuesOK
<1>8. CursorOK(a)'
  BY <1>2, RingIs DEF CursorOK, Ahead
<1>9. EntryOK(a, r)' /\ Age(a, r)' = 0
  BY <1>3, EntryNew DEF FlightInv, CursorOK, EntryOK, InPlace
<1>10. ASSUME NEW e, NEW k \in Int, Age(a, e) <= k,
              (\E i \in 1..Len(flying) : e = flying[i]) \/ (\E i \in 1..Len(staged) : e = staged[i])
       PROVE  EntryOK(a, e)' /\ Age(a, e)' <= k + 1
  <2>1. /\ e \in Req /\ EntryOK(a, e) /\ head = Ahead(slot[a], 1)
        /\ Within(e) => Age(a, e) + 1 <= RingSize - 2
    BY <1>1, <1>10, LessThanALap
  <2>2. Within(e) => InPlace(a, e)'
    BY <2>1, EntryKept DEF EntryOK
  <2>3. e.pkt.cc \in Nat
    BY <2>1 DEF Req, Pkt
  <2>4. Age(a, e)' = Age(a, e) + 1 /\ Age(a, e) \in Int
    BY <1>2, <2>3 DEF Age
  <2>5. Age(a, e)' >= 0 /\ Age(a, e)' <= k + 1
    BY <1>10, <2>1, <2>4 DEF EntryOK
  <2> QED BY <2>2, <2>5 DEF EntryOK
<1>11. ASSUME NEW i \in 1..Len(flying)
       PROVE  /\ EntryOK(a, flying[i])'
              /\ Age(a, flying[i])' <= Len(flying) - i + (Len(staged) + 1) + flying[i].over
  <2>1. PICK e \in Req : e = flying[i]
    BY <1>1, ElementOfSeq
  <2> DEFINE k == Len(flying) - i + Len(staged) + e.over
  <2>2. k \in Int /\ k + 1 = Len(flying) - i + (Len(staged) + 1) + e.over
    BY <1>6, PassedIs
  <2>3. Age(a, e) <= k
    BY <2>1 DEF FlightInv, AgesOK
  <2> HIDE DEF k
  <2>4. EntryOK(a, e)' /\ Age(a, e)' <= k + 1
    BY <1>10, <2>1, <2>2, <2>3
  <2>5. flying'[i] = e
    BY <1>1, <2>1
  <2> QED BY <2>1, <2>2, <2>4, <2>5 DEF EntryOK, InPlace, OwnSlot, FirstSlot, Age
<1>12. ASSUME NEW i \in 1..(Len(staged) + 1)
       PROVE  EntryOK(a, staged[i])' /\ Age(a, staged[i])' <= Len(staged) + 1 - i + staged'[i].over
  <2>1. CASE i = Len(staged) + 1
    <3>1. 0 <= Len(staged) + 1 - i + 0
      BY <1>6, <2>1
    <3> QED BY <1>3, <1>4, <1>9, <2>1, <3>1 DEF EntryOK, InPlace, OwnSlot, FirstSlot, Age
  <2>2. CASE i # Len(staged) + 1
    <3>1. i \in 1..Len(staged)
      BY <1>6, <2>2
    <3>2. PICK e \in Req : e = staged[i]
      BY <1>1, <3>1, ElementOfSeq
    <3> DEFINE k == Len(staged) - i + e.over
    <3>3. k \in Int /\ k + 1 = Len(staged) + 1 - i + e.over
      BY <1>6, PassedIs
    <3>4. Age(a, e) <= k
      BY <3>1, <3>2 DEF FlightInv, AgesOK
    <3> HIDE DEF k
    <3>5. EntryOK(a, e)' /\ Age(a, e)' <= k + 1
      BY <1>10, <3>1, <3>2, <3>3, <3>4
    <3>6. staged'[i] = e
      BY <1>4, <3>1, <3>2
    <3> QED BY <3>3, <3>5, <3>6 DEF EntryOK, InPlace, OwnSlot, FirstSlot, Age
  <2> QED BY <2>1, <2>2
<1>13. flying' = flying /\ Len(staged') = Len(staged) + 1
  BY <1>1, <1>4
<1>14. AgesOK(a)'
  <2>1. ASSUME NEW i \in 1..Len(flying')
        PROVE  cc'[a] - flying'[i].pkt.cc <= Len(flying') - i + Len(staged') + flying'[i].over
    <3>1. i \in 1..Len(flying) /\ flying'[i] = flying[i]
      BY <1>13
    <3>2. cc'[a] - flying'[i].pkt.cc <= Len(flying) - i + (Len(staged) + 1) + flying[i].over
      BY <1>11, <3>1 DEF Age
    <3> QED BY <1>13, <3>1, <3>2
  <2>2. ASSUME NEW i \in 1..Len(staged')
        PROVE  cc'[a] - staged'[i].pkt.cc <= Len(staged') - i + staged'[i].over
    <3>1. i \in 1..(Len(staged) + 1)
      BY <1>13
    <3>2. cc'[a] - staged'[i].pkt.cc <= Len(staged) + 1 - i + staged'[i].over
      BY <1>12, <3>1 DEF Age
    <3> QED BY <1>13, <3>2
  <2> QED BY <2>1, <2>2 DEF AgesOK, Age
<1>15. EntriesOK(a)'
  BY <1>11, <1>12, <1>13 DEF EntriesOK, EntryOK, InPlace, OwnSlot, FirstSlot, Age
<1> QED BY <1>7, <1>8, <1>14, <1>15 DEF FlightInv

LEMMA FlightKept ==
  ASSUME NEW a, Lane = {a}, LInv(a), FlightInv(a), [Next]_vars
  PROVE  FlightInv(a)'
<1>1. flying \in Seq(Req) /\ staged \in Seq(Req)
  BY DEF FlightInv, QueuesOK
<1>2. CASE Process \/ \E l \in Lane : FlushPartial(l)
  BY <1>2, PutOrSent, FlightPut, FlightSent
<1>3. CASE UNCHANGED vars
  BY <1>3, FlightStays DEF vars
<1>4. CASE (\E l \in Lane, gap \in 0..1 : Produce(l, gap)) \/ NewEpoch
  BY <1>4, FlightStays DEF Produce, NewEpoch
<1>5. CASE PassBegin \/ JumpForward \/ Halt \/ StandDown \/ StandDownPass \/ Resume
  BY <1>5, FlightStays DEF PassBegin, JumpForward, Halt, StandDown, StandDownPass, Resume
<1>6. CASE Arm \/ ArmFail
  <2>1. staged # <<>> /\ staged[1] = Head(staged)
    BY <1>1, <1>6 DEF Arm, ArmFail
  <2> QED BY <1>6, <2>1, FlightArmed DEF Arm, ArmFail
<1>7. CASE Cancel
  <2>1. flying # <<>> /\ flying[1] = Head(flying) /\ 1 \in 1..Len(flying)
    BY <1>1, <1>7 DEF Cancel
  <2>2. /\ Tail(flying) \in Seq(Req) /\ Len(Tail(flying)) = Len(flying) - 1
        /\ \A j \in 1..(Len(flying) - 1) : Tail(flying)[j] = flying[j + 1]
    BY <1>1, <2>1, TailIs
  <2>3. \A j \in 1..(Len(flying) - 1) : ~(j < 1)
    BY <1>1
  <2>4. /\ flying' = Tail(flying) /\ pool' = Append(pool, flying[1].ep)
        /\ UNCHANGED <<mem, head, slot, cc, staged>>
    BY <1>7, <2>1 DEF Cancel
  <2> QED BY <2>1, <2>2, <2>3, <2>4, FlightDone
<1>8. ASSUME NEW i \in DOMAIN flying, Deliver(i) PROVE FlightInv(a)'
  <2> DEFINE s == [j \in DOMAIN flying |-> IF j < i THEN Passed(flying[j]) ELSE flying[j]]
  <2>1. i \in 1..Len(flying) /\ DOMAIN flying = 1..Len(flying) /\ Len(flying) \in Nat
    BY <1>1, <1>8
  <2>2. \A j \in 1..Len(flying) : flying[j] \in Req /\ Passed(flying[j]) \in Req
    BY <1>1, ElementOfSeq, PassedIs
  <2>3. s \in Seq(Req) /\ Len(s) = Len(flying)
    BY <2>1, <2>2
  <2>4. \A j \in 1..Len(flying) : s[j] = IF j < i THEN Passed(flying[j]) ELSE flying[j]
    BY <2>1
  <2>5. /\ flying' = RemoveAt(s, i) /\ pool' = Append(pool, flying[i].ep)
        /\ UNCHANGED <<mem, head, slot, cc, staged>>
    BY <1>8 DEF Deliver
  <2> HIDE DEF s
  <2>6. /\ flying' \in Seq(Req) /\ Len(flying') = Len(flying) - 1
        /\ \A j \in 1..(Len(flying) - 1) : flying'[j] = IF j < i THEN s[j] ELSE s[j + 1]
    BY <2>1, <2>3, <2>5, RemovedIs
  <2>7. ASSUME NEW j \in 1..(Len(flying) - 1)
        PROVE  flying'[j] = IF j < i THEN Passed(flying[j]) ELSE flying[j + 1]
    <3>1. j \in 1..Len(flying) /\ j + 1 \in 1..Len(flying) /\ (~(j < i) => ~(j + 1 < i))
      BY <2>1
    <3> QED BY <2>4, <2>6, <3>1
  <2> QED BY <2>1, <2>5, <2>6, <2>7, FlightDone
<1>9. CASE ConsumerStale \/ GraceExpires
  BY <1>9, FlightStays DEF ConsumerStale, GraceExpires
<1>10. CASE Reset
  BY <1>10, FlightReset
<1>11. CASE Next
  <2>1. CASE Producer
    BY <1>2, <1>5, <2>1 DEF Producer
  <2>2. CASE Transport
    BY <1>6, <1>7, <1>8, <1>9, <2>2 DEF Transport
  <2> QED BY <1>4, <1>10, <1>11, <2>1, <2>2 DEF Next
<1> QED BY <1>3, <1>11

LEMMA OwnedIntact ==
  ASSUME NEW a, Lane = {a}, LInv(a), FlightInv(a)
  PROVE  Intact
<1>1. SUFFICES ASSUME NEW x \in Outstanding, Within(x) PROVE mem[x.slot] = x.pkt \/ SharesSlotZero(x)
  BY DEF Intact, Within
<1>2. flying \in Seq(Req) /\ staged \in Seq(Req)
  BY DEF FlightInv, QueuesOK
<1>3. (\E i \in 1..Len(flying) : x = flying[i]) \/ (\E i \in 1..Len(staged) : x = staged[i])
  BY <1>2 DEF Outstanding, ToSet
<1>4. InPlace(a, x)
  BY <1>1, <1>3, LessThanALap DEF EntryOK
<1> QED BY <1>4 DEF InPlace, OwnSlot, FirstSlot, SharesSlotZero

(***************************************************************************)
(* A request's packet stays what it was when it was handed over, until the *)
(* transfer ends (the overwrite tripwire of rfnm_handler_in), in whatever  *)
(* order the endpoints complete and however many packets cannot be queued: *)
(* the ring has room for as many later packets to leave first as it has    *)
(* slots more than requests, less one (80 slots, 64 requests: 15).         *)
(***************************************************************************)
THEOREM TransfersIntact ==
  ASSUME NEW CONSTANT a, Lane = {a}
  PROVE  Spec => []Intact
<1>1. Init => FlightInv(a)
  BY InitFlight
<1>2. LInv(a) /\ FlightInv(a) /\ [Next]_vars => FlightInv(a)'
  BY FlightKept
<1>3. LInv(a) /\ FlightInv(a) => Intact
  BY OwnedIntact
<1> QED BY <1>1, <1>2, <1>3, LaneInvariant, PTL DEF Spec

=============================================================================
