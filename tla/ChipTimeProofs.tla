--------------------------- MODULE ChipTimeProofs ---------------------------
(***************************************************************************)
(* Proofs about what hangs on the chip's 32-bit timer.  WindowPump, for    *)
(* any wrap of the timer, any queue, ring and margins: the VSPA never      *)
(* holds two open windows, and, while the close mark is younger than half  *)
(* a wrap, no queued window waits for nothing.  PhyTime, for any callers,  *)
(* lap and sampling gap: the extended time is exact, a restart is told     *)
(* from a wrap, and the verbs' gate refuses who it should.                 *)
(***************************************************************************)
EXTENDS WindowPump, PhyTime, SequenceTheorems, WellFoundedInduction, TLAPS

Half == Wrap \div 2

\* A window and its lead fit into half a wrap of the timer: 2^31 ticks are 35 s.
ShortLeads == MaxLead + WinLen + Margin < Half

LEMMA HalfIs == Half \in Nat /\ 2 * Half <= Wrap /\ Wrap \in Nat \ {0}
BY WindowAssumption DEF Half

\* The sign of the difference is the order of two ticks less than half a wrap apart.
LEMMA AfterIs ==
  ASSUME NEW a \in Int, NEW b \in Int
  PROVE  /\ b < a /\ a - b < Half => After(a, b)
         /\ After(a, b) /\ b - a < Half => b < a
<1> DEFINE d == a - b
<1>1. d \in Int /\ 0 <= Half /\ 2 * Half <= Wrap
  BY HalfIs
<1>2. ASSUME d > 0, d < Half PROVE d % Wrap = d
  BY <1>1, <1>2, HalfIs
<1>3. ASSUME d < 0, -d < Half PROVE d % Wrap = d + Wrap
  BY <1>1, <1>3, HalfIs
<1>4. ASSUME d = 0 PROVE d % Wrap = 0
  BY <1>4, HalfIs
<1>5. After(a, b) <=> d % Wrap > 0 /\ d % Wrap < Half
  BY DEF After, Half
<1> HIDE DEF d
<1>6. d > 0 /\ d < Half => After(a, b)
  BY <1>1, <1>2, <1>5
<1>7. ASSUME After(a, b), -d < Half PROVE d > 0
  <2>1. CASE d < 0
    BY <1>1, <1>3, <1>5, <1>7, <2>1, HalfIs
  <2>2. CASE d = 0
    BY <1>4, <1>5, <1>7, <2>2
  <2> QED BY <1>1, <2>1, <2>2
<1> QED BY <1>1, <1>6, <1>7 DEF d

LEMMA Least == ASSUME NEW S \in SUBSET Nat, S # {} PROVE \E v \in S : \A w \in S : v <= w
<1>1. PICK v \in S : \A w \in S : <<w, v>> \notin OpToRel(<, Nat)
  BY NatLessThanWellFounded, WFMin
<1>2. OpToRel(<, Nat) = {ss \in Nat \X Nat : ss[1] < ss[2]}
  BY Zenon DEF OpToRel
<1>3. ASSUME NEW R, R = OpToRel(<, Nat) PROVE \A w \in S : ~ (w < v)
  <2>1. R = {ss \in Nat \X Nat : ss[1] < ss[2]}
    BY <1>2, <1>3, Zenon
  <2>2. \A w \in S : <<w, v>> \notin R
    BY <1>1, <1>3, Zenon
  <2> QED BY <2>1, <2>2
<1>4. \A w \in S : ~ (w < v)
  BY <1>3
<1> QED BY <1>4

(***************************************************************************)
(* What the pump leaves of a queue, and what it posts.                     *)
(***************************************************************************)
\* t has only windows of s
Of(t, s) == \A i \in 1..Len(t) : \E j \in 1..Len(s) : t[i] = s[j]

LEMMA RestIs ==
  ASSUME NEW s \in Seq(Nat)
  PROVE  /\ LateHeads(s) \in 0..Len(s)
         /\ Rest(s) \in Seq(Nat) /\ Len(Rest(s)) = Len(s) - LateHeads(s)
         /\ \A i \in 1..Len(Rest(s)) : Rest(s)[i] = s[i + LateHeads(s)]
         /\ Len(Rest(s)) <= Len(s) /\ Of(Rest(s), s)
         /\ Rest(s) # <<>> => ~Late(Rest(s)[1])
<1> DEFINE K == {k \in 0..Len(s) : k = Len(s) \/ ~Late(s[k + 1])}
           n == LateHeads(s)
<1>1. PICK k \in K : \A j \in K : k <= j
  <2>1. K \in SUBSET Nat /\ Len(s) \in K
    OBVIOUS
  <2> HIDE DEF K
  <2> QED BY <2>1, Least
<1>2. \A i \in 1..k : Late(s[i])
  <2>1. SUFFICES ASSUME NEW i \in 1..k, ~Late(s[i]) PROVE FALSE
    OBVIOUS
  <2>2. i - 1 \in 0..Len(s) /\ (i - 1) + 1 = i /\ i - 1 < k
    OBVIOUS
  <2>3. i - 1 \in K
    BY <2>1, <2>2
  <2>4. k <= i - 1
    <3> HIDE DEF K
    <3> QED BY <1>1, <2>3
  <2>5. k \in Nat /\ i \in Nat
    OBVIOUS
  <2> HIDE DEF K
  <2> QED BY <2>2, <2>4, <2>5
<1>3. /\ n \in 0..Len(s)
      /\ n < Len(s) => ~Late(s[n + 1])
  <2>1. k \in 0..Len(s) /\ (k < Len(s) => ~Late(s[k + 1]))
    OBVIOUS
  <2>2. \E j \in 0..Len(s) : (\A i \in 1..j : Late(s[i])) /\ (j < Len(s) => ~Late(s[j + 1]))
    BY <1>2, <2>1
  <2> QED BY <2>2 DEF LateHeads
<1> HIDE DEF n
<1>4. \A i \in (n + 1)..Len(s) : s[i] \in Nat
  BY <1>3, ElementOfSeq
<1>5. /\ Rest(s) \in Seq(Nat) /\ Len(Rest(s)) = Len(s) - n
      /\ \A i \in 1..(Len(s) - n) : Rest(s)[i] = s[i + n]
  <2>1. Rest(s) = SubSeq(s, n + 1, Len(s))
    BY DEF Rest, n
  <2>2. /\ SubSeq(s, n + 1, Len(s)) \in Seq(Nat)
        /\ Len(SubSeq(s, n + 1, Len(s))) = Len(s) - n
        /\ \A i \in 1..(Len(s) - n) : SubSeq(s, n + 1, Len(s))[i] = s[i + n]
    BY <1>3, <1>4, SubSeqProperties
  <2> QED BY <2>1, <2>2
<1>6. Rest(s) # <<>> => ~Late(Rest(s)[1])
  <2>1. SUFFICES ASSUME Rest(s) # <<>> PROVE ~Late(Rest(s)[1])
    OBVIOUS
  <2>2. Len(s) - n > 0
    BY <1>3, <1>5, <2>1, EmptySeq
  <2>3. Rest(s)[1] = s[n + 1]
    <3>1. 1 \in 1..(Len(s) - n) /\ 1 + n = n + 1
      BY <1>3, <2>2
    <3> QED BY <1>5, <3>1
  <2> QED BY <1>3, <2>2, <2>3
<1>7. Of(Rest(s), s)
  <2>1. SUFFICES ASSUME NEW i \in 1..Len(Rest(s)) PROVE \E j \in 1..Len(s) : Rest(s)[i] = s[j]
    BY DEF Of
  <2>2. i + n \in 1..Len(s) /\ Rest(s)[i] = s[i + n]
    BY <1>3, <1>5, <2>1
  <2> QED BY <2>2
<1> QED BY <1>3, <1>5, <1>6, <1>7 DEF n

Types ==
  /\ now \in Start..MaxNow
  /\ {fence, magic, m4, latched, stalled, stray} \subseteq BOOLEAN
  /\ prod \in Nat /\ cons \in Nat
  /\ q \in Seq(Nat) /\ Len(q) <= QLen
  /\ busy \in Nat \cup {None} /\ next \in Int /\ timer \in Int
  /\ cb \in {"off", "out"} /\ tx \in {"idle", "push", "queue"}
  /\ {mbx, held, cur} \subseteq Nat \cup {None}
  /\ end \in {"idle", "cancel", "drop", "disarm"}
  /\ tx # "idle" => cur # None /\ Len(q) < QLen

Posts(w) == ~Held /\ mbx = None /\ mbx' = w /\ busy' = Close(w) + Margin

LEMMA PumpIs ==
  ASSUME Types, NEW s \in Seq(Nat), Pump(s)
  PROVE  /\ q' \in Seq(Nat) /\ Len(q') <= Len(s) /\ Of(q', s)
         /\ stalled' \in BOOLEAN /\ stray' \in BOOLEAN /\ next' \in Int
         /\ UNCHANGED <<busy, mbx>> \/ \E j \in 1..Len(s) : Posts(s[j])
<1> DEFINE r == Rest(s)
<1>1. r \in Seq(Nat) /\ Len(r) <= Len(s) /\ Of(r, s) /\ Of(s, s)
  BY RestIs DEF Of
<1> HIDE DEF r
<1>2. /\ stalled' \in BOOLEAN /\ stray' \in BOOLEAN
  BY DEF Pump, Post, Types
<1>3. CASE UNCHANGED <<busy, mbx>> /\ (q' = s \/ q' = r) /\ next' \in Int
  BY <1>1, <1>2, <1>3
<1>4. CASE r # <<>> /\ mbx = None /\ ~Held /\ Post(r)
  <2>1. r[1] \in Nat /\ Len(r) > 0 /\ Len(r) \in Nat
    BY <1>1, <1>4, ElementOfSeq, EmptySeq
  <2>2. Tail(r) \in Seq(Nat) /\ Len(Tail(r)) = Len(r) - 1 /\ \A i \in 1..(Len(r) - 1) : Tail(r)[i] = r[i + 1]
    BY <1>1, <1>4, <2>1, HeadTailProperties
  <2>6. \A i \in 1..Len(r) : \E k \in 1..Len(s) : r[i] = s[k]
    BY <1>1, Zenon DEF Of
  <2>3. PICK j \in 1..Len(s) : r[1] = s[j]
    <3>1. 1 \in 1..Len(r)
      BY <2>1
    <3> QED BY <2>6, <3>1, Zenon
  <2>4. Posts(s[j]) /\ next' \in Int /\ q' = Tail(r)
    BY <1>4, <2>1, <2>3, WindowAssumption, SMTT(40) DEF Post, Posts, Close, Types
  <2>5. Of(Tail(r), s)
    <3>1. SUFFICES ASSUME NEW i \in 1..(Len(r) - 1) PROVE \E k \in 1..Len(s) : Tail(r)[i] = s[k]
      BY <2>2 DEF Of
    <3>2. i + 1 \in 1..Len(r)
      BY <2>1
    <3>3. PICK k \in 1..Len(s) : r[i + 1] = s[k]
      BY <2>6, <3>2, Zenon
    <3> QED BY <2>2, <3>3
  <2> QED BY <1>1, <1>2, <2>1, <2>2, <2>4, <2>5
<1>5. Held => (busy - now) % Wrap \in Int
  <2>1. ASSUME NEW d \in Int PROVE d % Wrap \in Int
    BY HalfIs
  <2>2. Held => busy - now \in Int
    <3>1. busy \in Nat \cup {None} /\ now \in Int /\ (Held => busy # None)
      BY WindowAssumption DEF Types, Held
    <3> QED BY <3>1
  <2> QED BY <2>1, <2>2
<1> QED BY <1>3, <1>4, <1>5, WindowAssumption DEF Pump, r

(***************************************************************************)
(* One window at a time.                                                   *)
(***************************************************************************)
Lead == MaxLead + WinLen + Margin

LeadOK ==
  /\ cur # None => cur <= now + MaxLead
  /\ \A i \in 1..Len(q) : q[i] <= now + MaxLead
  /\ busy # None => busy <= now + Lead

SessionOK == end # "idle" => ~latched
MailOK    == latched /\ mbx # None => busy = Close(mbx) + Margin
HeldOK    == latched /\ held # None /\ now < Close(held)
                 => mbx = None /\ busy # None /\ Close(held) <= busy

WInv == Types /\ LeadOK /\ SessionOK /\ MailOK /\ HeldOK

LEMMA TypesStep ==
  ASSUME Types, NEW s \in Seq(Nat), Len(s) <= QLen, q' \in Seq(Nat), Len(q') <= Len(s),
         tx' = tx \/ tx' = "idle", tx' = tx => Len(s) <= Len(q),
         UNCHANGED <<now, fence, ring, held, latched, cur, made, end>>,
         stalled' \in BOOLEAN, stray' \in BOOLEAN, next' \in Int, timer' \in Int,
         cb' \in {"off", "out"}, busy' \in Nat \cup {None}, mbx' \in Nat \cup {None}
  PROVE  Types'
<1>1. QLen \in Nat /\ Len(s) \in Nat /\ Len(q) \in Nat /\ Len(q') \in Nat
  <2>1. q \in Seq(Nat)
    BY DEF Types
  <2>2. QLen \in Nat
    BY WindowAssumption
  <2> QED BY <2>1, <2>2, LenProperties
<1>2. Len(q') <= QLen /\ (tx' # "idle" => cur' # None /\ Len(q') < QLen)
  BY <1>1 DEF Types
<1>3. /\ now' \in Start..MaxNow /\ {fence, magic, m4, latched, stalled, stray}' \subseteq BOOLEAN
      /\ prod' \in Nat /\ cons' \in Nat /\ tx' \in {"idle", "push", "queue"}
      /\ {mbx, held, cur}' \subseteq Nat \cup {None} /\ end' \in {"idle", "cancel", "drop", "disarm"}
  BY DEF Types, ring
<1> HIDE DEF Types
<1> QED BY <1>2, <1>3 DEF Types

LEMMA PumpInv ==
  ASSUME ShortLeads, WInv, NEW s \in Seq(Nat), Len(s) <= QLen, Pump(s),
         \A i \in 1..Len(s) : s[i] <= now + MaxLead,
         UNCHANGED <<now, fence, ring, held, latched, cur, made, end>>,
         timer' \in Int, cb' \in {"off", "out"}, tx' = tx \/ tx' = "idle",
         tx' = tx => Len(s) <= Len(q)
  PROVE  WInv'
<1>1. /\ q' \in Seq(Nat) /\ Len(q') <= Len(s) /\ Of(q', s)
      /\ stalled' \in BOOLEAN /\ stray' \in BOOLEAN /\ next' \in Int
      /\ UNCHANGED <<busy, mbx>> \/ \E j \in 1..Len(s) : Posts(s[j])
  BY PumpIs DEF WInv
<1>2. CASE UNCHANGED <<busy, mbx>>
  <2>1. Types'
    <3>1. Types /\ busy' \in Nat \cup {None} /\ mbx' \in Nat \cup {None}
      BY <1>2 DEF WInv, Types
    <3> QED BY <1>1, <3>1, TypesStep
  <2>2. LeadOK'
    <3>1. \A i \in 1..Len(q') : q'[i] <= now + MaxLead
      BY <1>1 DEF Of
    <3> QED BY <1>2, <3>1 DEF WInv, LeadOK
  <2> QED BY <1>2, <2>1, <2>2 DEF WInv, SessionOK, MailOK, HeldOK
<1>3. CASE \E j \in 1..Len(s) : Posts(s[j])
  <2>1. PICK j \in 1..Len(s) : Posts(s[j])
    BY <1>3
  <2>2. s[j] \in Nat /\ s[j] <= now + MaxLead /\ now \in Nat /\ {WinLen, Margin, MaxLead} \subseteq Nat
    <3>1. s[j] \in Nat
      BY ElementOfSeq
    <3>2. now \in Nat /\ {WinLen, Margin, MaxLead} \subseteq Nat
      <4>1. Start \in Nat /\ MaxNow \in Nat /\ {WinLen, Margin, MaxLead} \subseteq Nat
        BY WindowAssumption
      <4> QED BY <4>1 DEF WInv, Types
    <3> QED BY <3>1, <3>2
  <2>3. busy' = s[j] + WinLen + Margin /\ mbx' = s[j] /\ ~Held
    BY <2>1, <2>2 DEF Posts, Close
  <2>4. Types'
    <3>1. Types /\ busy' \in Nat \cup {None} /\ mbx' \in Nat \cup {None}
      BY <2>2, <2>3, SMTT(40) DEF WInv
    <3> QED BY <1>1, <3>1, TypesStep
  <2>5. LeadOK'
    <3>1. \A i \in 1..Len(q') : q'[i] <= now + MaxLead
      BY <1>1 DEF Of
    <3>2. cur' # None => cur' <= now' + MaxLead
      BY DEF WInv, LeadOK
    <3>3. busy' <= now + Lead
      <4>1. s[j] + WinLen + Margin <= now + (MaxLead + WinLen + Margin)
        BY <2>2, SMTT(40)
      <4> QED BY <2>3, <4>1 DEF Lead
    <3>4. now' = now
      OBVIOUS
    <3> QED BY <3>1, <3>2, <3>3, <3>4, Zenon DEF LeadOK
  <2>6. HeldOK'
    <3>1. SUFFICES ASSUME latched, held # None, now < Close(held) PROVE FALSE
      BY DEF HeldOK
    <3>2. busy # None /\ Close(held) <= busy /\ busy <= now + Lead
      BY <3>1 DEF WInv, HeldOK, LeadOK
    <3>3. busy \in Int /\ Close(held) \in Int
      BY <2>2, <3>1, <3>2 DEF WInv, Types, Close
    <3>4. now < busy /\ busy - now < Half
      BY <2>2, <3>1, <3>2, <3>3, HalfIs, SMTT(40) DEF ShortLeads, Lead
    <3>5. After(busy, now)
      BY <2>2, <3>3, <3>4, AfterIs
    <3> QED BY <2>3, <3>2, <3>5 DEF Held
  <2> QED BY <2>3, <2>4, <2>5, <2>6 DEF WInv, SessionOK, MailOK, Close, None
<1> QED BY <1>1, <1>2, <1>3

LEMMA WindowInv ==
  ASSUME ShortLeads, WInv, [Next]_vars
  PROVE  WInv'
<1> USE DEF WInv
<1>c. {WinLen, Margin, MaxLead, QLen, Start, MaxNow} \subseteq Nat /\ QLen # 0 /\ now \in Nat /\ Lead \in Nat
  <2>1. {WinLen, Margin, MaxLead, QLen, Start, MaxNow} \subseteq Nat /\ QLen # 0
    BY WindowAssumption
  <2>2. now \in Start..MaxNow
    BY DEF Types
  <2> QED BY <2>1, <2>2 DEF Lead
<1>1. CASE ArmVerb
  BY <1>1 DEF ArmVerb, RtcArm, pump, vspa, txth, hist, Types, LeadOK, SessionOK, MailOK, HeldOK
<1>2. CASE ApplyWindowed
  BY <1>2 DEF ApplyWindowed, ring, pump, txth, hist, Types, LeadOK, SessionOK, MailOK, HeldOK
<1>3. ASSUME NEW open \in Opens, TxWindow(open) PROVE WInv'
  <2>1. open \in Nat /\ open <= now + MaxLead
    BY <1>c DEF Opens
  <2>2. Types' /\ LeadOK'
    BY <1>3, <1>c, <2>1, SMTT(40) DEF TxWindow, ring, pump, vspa, hist, Types, LeadOK, None
  <2> QED BY <1>3, <2>2 DEF TxWindow, ring, pump, vspa, hist, SessionOK, MailOK, HeldOK
<1>4. CASE TxPush
  BY <1>4 DEF TxPush, RtcPush, ring, pump, vspa, hist, Types, LeadOK, SessionOK, MailOK, HeldOK
<1>5. CASE TxQueue
  <2> DEFINE s == Append(q, cur)
  <2>1. cur \in Nat /\ q \in Seq(Nat) /\ Len(q) < QLen
    BY <1>5 DEF TxQueue, Types
  <2>2. s \in Seq(Nat) /\ Len(s) = Len(q) + 1 /\ \A i \in 1..Len(s) : s[i] = IF i = Len(s) THEN cur ELSE q[i]
    BY <2>1, AppendProperties
  <2>3. \A i \in 1..Len(s) : s[i] <= now + MaxLead
    BY <2>1, <2>2 DEF LeadOK, None
  <2>4. Pump(s) /\ tx = "queue" /\ tx' = "idle"
    BY <1>5 DEF TxQueue
  <2>5. Len(s) <= QLen
    BY <2>1, <2>2, <1>c
  <2> HIDE DEF s
  <2>6. next' \in Int
    BY <2>2, <2>4, PumpIs
  <2>7. timer' \in Int /\ cb' \in {"off", "out"}
    BY <1>5, <1>c, <2>6 DEF TxQueue, Types
  <2>8. UNCHANGED <<now, fence, ring, held, latched, cur, made, end>>
    BY <1>5 DEF TxQueue
  <2> QED BY <2>2, <2>3, <2>4, <2>5, <2>7, <2>8, PumpInv
<1>6. CASE TimerFires
  <2>1. q \in Seq(Nat) /\ Len(q) <= QLen /\ \A i \in 1..Len(q) : q[i] <= now + MaxLead
    BY DEF Types, LeadOK
  <2>2. Pump(q) /\ timer' \in Int /\ cb' \in {"off", "out"} /\ tx' = tx
    BY <1>6 DEF TimerFires, txth, None
  <2>3. UNCHANGED <<now, fence, ring, held, latched, cur, made, end>>
    BY <1>6 DEF TimerFires, txth
  <2> QED BY <2>1, <2>2, <2>3, PumpInv
<1>7. CASE TimerReturns
  BY <1>7, <1>c DEF TimerReturns, ring, vspa, txth, hist, Types, LeadOK, SessionOK, MailOK, HeldOK
<1>8. CASE EndSession
  <2>1. Types'
    <3>1. q \in Seq(Nat) /\ <<>> \in Seq(Nat) /\ Len(<<>>) = 0
      BY DEF Types
    <3>6. Len(q) \in Nat
      BY <3>1, LenProperties
    <3>7. /\ q' = q \/ q' = <<>>
          /\ busy' = busy \/ busy' = None
          /\ next' = next \/ next' = 0
          /\ timer' = timer \/ timer' = None
          /\ cb' = cb /\ (latched' = latched \/ latched' = FALSE)
          /\ end' \in {"idle", "cancel", "drop", "disarm"}
      BY <1>8 DEF EndSession, Teardown, pump
    <3>2. q' \in Seq(Nat) /\ Len(q') <= Len(q) /\ Len(q) \in Nat /\ Len(q') \in Nat
      <4>1. CASE q' = q
        BY <3>1, <3>6, <4>1
      <4>2. CASE q' = <<>>
        <5>1. Len(q') = 0 /\ q' \in Seq(Nat)
          BY <3>1, <4>2, Zenon
        <5> QED BY <3>6, <5>1
      <4> QED BY <3>7, <4>1, <4>2
    <3>3. /\ busy' \in Nat \cup {None} /\ next' \in Int /\ timer' \in Int /\ cb' = cb
          /\ latched' \in BOOLEAN /\ end' \in {"idle", "cancel", "drop", "disarm"}
      <4>1. busy \in Nat \cup {None} /\ next \in Int /\ timer \in Int /\ latched \in BOOLEAN
        BY DEF Types
      <4>2. latched' \in BOOLEAN
        BY <3>7, <4>1, Zenon
      <4>3. busy' \in Nat \cup {None} /\ next' \in Int /\ timer' \in Int
        BY <3>7, <4>1 DEF None
      <4> QED BY <3>7, <4>2, <4>3
    <3>4. prod' = prod /\ cons' = cons /\ m4' = m4 /\ magic' \in BOOLEAN
      BY <1>8 DEF EndSession, Teardown, RtcDisarm, ring, Types
    <3>5. UNCHANGED <<now, fence, mbx, held, txth, tx, cur, hist, stalled, stray>>
      BY <1>8 DEF EndSession, txth, hist
    <3> QED BY <3>2, <3>3, <3>4, <3>5, <1>c DEF Types
  <2>2. LeadOK'
    BY <1>8 DEF EndSession, Teardown, ring, pump, txth, LeadOK
  <2> QED BY <1>8, <2>1, <2>2
    DEF EndSession, Teardown, ring, pump, txth, hist, Types, SessionOK, MailOK, HeldOK
<1>9. CASE M4Serves
  BY <1>9 DEF M4Serves, pump, vspa, txth, hist, Types, LeadOK, SessionOK, MailOK, HeldOK
<1>10. CASE VspaTakes
  <2>1. mbx \in Nat /\ mbx # None
    BY <1>10 DEF VspaTakes, Types
  <2>2. HeldOK'
    BY <1>10, <1>c, <2>1 DEF VspaTakes, pump, MailOK, HeldOK, Close, None
  <2> QED BY <1>10, <2>1, <2>2
    DEF VspaTakes, ring, pump, txth, hist, Types, LeadOK, SessionOK, MailOK
<1>11. CASE Tick
  <2>1. now' = now + 1 /\ now < MaxNow
    BY <1>11 DEF Tick
  <2>2. Types'
    BY <1>11, <1>c, <2>1 DEF Tick, ring, pump, txth, hist, Types
  <2>3. LeadOK'
    <3>1. \A i \in 1..Len(q) : q[i] \in Nat
      BY ElementOfSeq DEF Types
    <3>2. cur \in Int /\ busy \in Int
      BY DEF Types, None
    <3> QED BY <1>11, <1>c, <2>1, <3>1, <3>2, SMTT(40) DEF Tick, pump, txth, LeadOK
  <2>4. HeldOK'
    <3>1. held' = held \/ held' = None
      BY <1>11 DEF Tick
    <3>2. held \in Int /\ Close(held) \in Int
      BY <1>c DEF Types, None, Close
    <3> QED BY <1>11, <1>c, <2>1, <3>1, <3>2 DEF Tick, pump, HeldOK, Close
  <2> QED BY <1>11, <2>2, <2>3, <2>4 DEF Tick, pump, txth, SessionOK, MailOK
<1>12. CASE FenceMoves
  BY <1>12 DEF FenceMoves, ring, pump, vspa, txth, hist, Types, LeadOK, SessionOK, MailOK, HeldOK
<1>13. CASE UNCHANGED vars
  BY <1>13 DEF vars, ring, pump, vspa, txth, hist, Types, LeadOK, SessionOK, MailOK, HeldOK
<1> QED BY <1>1, <1>2, <1>3, <1>4, <1>5, <1>6, <1>7, <1>8, <1>9, <1>10, <1>11, <1>12, <1>13 DEF Next

LEMMA WindowInit == Init => WInv
<1> SUFFICES ASSUME Init PROVE WInv
  OBVIOUS
<1>1. Types
  <2>1. q \in Seq(Nat) /\ Len(q) = 0 /\ QLen \in Nat \ {0}
    BY WindowAssumption DEF Init
  <2>2. Start \in Start..MaxNow
    BY WindowAssumption
  <2>3. None \in Int /\ Len(q) <= QLen
    BY <2>1 DEF None
  <2>4. tx = "idle" /\ {mbx, held, cur} \subseteq Nat \cup {None} /\ busy \in Nat \cup {None} /\ timer \in Int /\ next \in Int
    BY <2>3 DEF Init
  <2>5. {fence, magic, m4, latched, stalled, stray} \subseteq BOOLEAN /\ prod \in Nat /\ cons \in Nat
    BY DEF Init
  <2> QED BY <2>1, <2>2, <2>3, <2>4, <2>5 DEF Init, Types
<1> QED BY <1>1 DEF Init, WInv, LeadOK, SessionOK, MailOK, HeldOK

(***************************************************************************)
(* The VSPA never holds two open windows (OneWindow): the mailbox brings no*)
(* window while an earlier one has not closed, whichever of the transmit   *)
(* thread and the timer ran the pump, for windows and leads that fit into  *)
(* half a wrap of the timer.                                               *)
(***************************************************************************)
THEOREM WindowsOneByOne ==
  ASSUME ShortLeads
  PROVE  Spec => []OneWindow
<1>1. WInv => OneWindow
  <2> SUFFICES ASSUME WInv, mbx # None, held # None, latched PROVE now >= Close(held)
    BY DEF OneWindow
  <2>1. ~ (now < Close(held))
    BY DEF WInv, HeldOK
  <2>2. now \in Int /\ Close(held) \in Int
    BY WindowAssumption, SMTT(40) DEF WInv, Types, None, Close
  <2> QED BY <2>1, <2>2
<1>2. WInv /\ [Next]_vars => WInv'
  BY WindowInv
<1> QED BY <1>1, <1>2, WindowInit, PTL DEF Spec

(***************************************************************************)
(* No window waits for nothing.                                            *)
(***************************************************************************)
\* Nothing the pump compares with the timer lies half a wrap (35 s) behind it.
FreshQueue(s) == \A i \in 1..Len(s) : now + Setup - s[i] < Half

Fresh ==
  /\ busy # None => now - busy < Half
  /\ FreshQueue(q)
  /\ tx = "queue" => now + Setup - cur < Half

Waiting == q # <<>> /\ ~stalled

WakeOK ==
  /\ next \in Nat /\ timer \in Nat \cup {None}
  /\ Waiting => next # 0
  /\ Waiting /\ end # "drop" => timer # None \/ cb = "out"

LEMMA PumpWakes ==
  ASSUME Types, NEW s \in Seq(Nat), FreshQueue(s), Pump(s)
  PROVE  next' \in Nat /\ (Waiting' => next' # 0)
<1> DEFINE r == Rest(s)
<1>1. r \in Seq(Nat) /\ Of(r, s) /\ (r # <<>> => ~Late(r[1]))
  BY RestIs
<1> HIDE DEF r
<1>2. now \in Nat /\ {Setup, WinLen, Margin, Defer} \subseteq Nat /\ WinLen > 0 /\ Defer > 0
  <2>1. Start \in Nat /\ MaxNow \in Nat /\ {Setup, WinLen, Margin, Defer} \subseteq Nat /\ WinLen > 0 /\ Defer > 0
    BY WindowAssumption
  <2> QED BY <2>1 DEF Types
<1>3. CASE (s = <<>> \/ fence) /\ q' = s /\ next' = 0 /\ stalled' = fence
  <2>1. ~Waiting'
    BY <1>3 DEF Waiting
  <2> QED BY <1>3, <2>1
<1>4. CASE Held /\ next' = (busy - now) % Wrap
  <2>1. busy - now \in Int /\ (busy - now) % Wrap > 0
    <3>1. busy \in Int
      BY DEF Types, None
    <3> QED BY <1>2, <1>4, <3>1 DEF Held, After
  <2>2. (busy - now) % Wrap \in Int
    <3>1. ASSUME NEW d \in Int PROVE d % Wrap \in Int
      BY HalfIs
    <3> QED BY <2>1, <3>1
  <2> QED BY <1>4, <2>1, <2>2
<1>5. CASE r # <<>> /\ Post(r)
  <2>1. Len(r) > 0 /\ Len(r) \in Nat /\ r[1] \in Nat /\ 1 \in 1..Len(r)
    BY <1>1, <1>5, ElementOfSeq, EmptySeq
  <2>2. now + Setup - r[1] < Half
    <3>1. PICK j \in 1..Len(s) : r[1] = s[j]
      BY <1>1, <2>1 DEF Of
    <3> QED BY <3>1 DEF FreshQueue
  <2>3. r[1] >= now
    <3>1. ~After(now, r[1] - Setup)
      BY <1>1, <1>5 DEF Late
    <3>2. r[1] - Setup \in Int /\ now \in Int
      BY <1>2, <2>1
    <3>3. ~ (r[1] - Setup < now /\ now - (r[1] - Setup) < Half)
      BY <3>1, <3>2, AfterIs
    <3> QED BY <1>2, <2>1, <2>2, <3>3, HalfIs
  <2>4. next' = (IF Len(r) > 1 THEN r[1] + WinLen + Margin - now ELSE 0) /\ q' = Tail(r)
    BY <1>5 DEF Post, Close
  <2>5. q' # <<>> => Len(r) > 1
    <3>1. Tail(r) \in Seq(Nat) /\ Len(Tail(r)) = Len(r) - 1
      BY <1>1, <1>5, HeadTailProperties
    <3>2. Tail(r) # <<>> => Len(Tail(r)) # 0
      BY <3>1, EmptySeq
    <3> QED BY <2>1, <2>4, <3>1, <3>2
  <2> QED BY <1>2, <2>1, <2>3, <2>4, <2>5, SMTT(40) DEF Waiting
<1>6. CASE q' = r /\ next' = IF r = <<>> THEN 0 ELSE Defer
  BY <1>2, <1>6 DEF Waiting
<1> QED BY <1>3, <1>4, <1>5, <1>6 DEF Pump, r

LEMMA WakeInv ==
  ASSUME WInv, Fresh, WakeOK, [Next]_vars
  PROVE  WakeOK'
<1>t. Types /\ now \in Nat /\ q \in Seq(Nat)
  BY WindowAssumption, SMTT(40) DEF WInv, Types
<1> USE DEF WakeOK
<1>1. CASE TxQueue
  <2> DEFINE s == Append(q, cur)
  <2>1. cur \in Nat /\ Len(q) \in Nat
    BY <1>1, <1>t DEF TxQueue, Types
  <2>2. s \in Seq(Nat) /\ Len(s) = Len(q) + 1 /\ \A i \in 1..Len(s) : s[i] = IF i = Len(s) THEN cur ELSE q[i]
    BY <1>t, <2>1, AppendProperties
  <2>3. FreshQueue(s)
    BY <1>1, <2>1, <2>2 DEF TxQueue, Fresh, FreshQueue
  <2>4. Pump(s) /\ end' = end
    BY <1>1 DEF TxQueue
  <2> HIDE DEF s
  <2>5. next' \in Nat /\ (Waiting' => next' # 0)
    BY <1>t, <2>2, <2>3, <2>4, PumpWakes
  <2>6. timer' = IF next' # 0 THEN now + next' ELSE timer
    BY <1>1 DEF TxQueue
  <2>7. now \in Nat /\ timer' \in Nat \cup {None} /\ (next' # 0 => timer' # None)
    <3>1. now \in Nat /\ timer \in Nat \cup {None} /\ next' \in Nat
      BY <1>t, <2>5
    <3>2. CASE next' # 0
      <4>1. timer' = now + next'
        BY <2>6, <3>2
      <4>2. now + next' \in Nat /\ now + next' # None
        <5>1. \A a, b \in Nat : a + b \in Nat /\ a + b # None
          BY DEF None
        <5> HIDE DEF WakeOK
        <5> QED BY <3>1, <5>1, Zenon
      <4> QED BY <3>1, <4>1, <4>2, Zenon
    <3>3. CASE next' = 0
      <4>1. timer' = timer
        BY <2>6, <3>3
      <4> QED BY <3>1, <3>3, <4>1
    <3> QED BY <3>2, <3>3
  <2> QED BY <2>5, <2>7
<1>2. CASE TimerFires
  <2>1. Pump(q) /\ cb' = "out" /\ timer' = None
    BY <1>2 DEF TimerFires
  <2>2. next' \in Nat /\ (Waiting' => next' # 0)
    BY <1>t, <2>1, PumpWakes DEF Fresh
  <2> QED BY <2>1, <2>2
<1>3. CASE TimerReturns
  <2>1. timer' = (IF timer = None /\ next # 0 THEN now + next ELSE timer) /\ next' = next /\ end' = end
    BY <1>3 DEF TimerReturns
  <2>2. Waiting' <=> Waiting
    BY <1>3 DEF TimerReturns, Waiting, hist
  <2> QED BY <1>t, <2>1, <2>2 DEF None
<1>4. CASE EndSession
  <2>1. stalled' = stalled
    BY <1>4 DEF EndSession, hist
  <2>2. CASE end = "idle" /\ end' = "cancel" /\ UNCHANGED pump
    BY <2>1, <2>2 DEF Waiting, pump
  <2>3. CASE timer' = None /\ end' = "drop" /\ UNCHANGED <<q, next>>
    BY <2>1, <2>3 DEF Waiting
  <2>4. CASE q' = <<>> /\ next' = 0 /\ UNCHANGED timer
    BY <2>1, <2>4 DEF Waiting
  <2>5. CASE end = "disarm" /\ end' = "idle" /\ UNCHANGED pump
    BY <2>1, <2>5 DEF Waiting, pump
  <2> QED BY <1>4, <2>2, <2>3, <2>4, <2>5 DEF EndSession, Teardown
<1>5. CASE UNCHANGED <<pump, end, stalled>>
  <2>1. UNCHANGED <<next, timer, cb, end>> /\ (Waiting' <=> Waiting)
    BY <1>5 DEF Waiting, pump
  <2> QED BY <2>1
<1>6. ArmVerb \/ ApplyWindowed \/ TxPush \/ M4Serves \/ VspaTakes \/ Tick \/ FenceMoves
        => UNCHANGED <<pump, end, stalled>>
  BY DEF ArmVerb, ApplyWindowed, TxPush, M4Serves, VspaTakes, Tick, FenceMoves, hist
<1>7. \A open \in Opens : TxWindow(open) => UNCHANGED <<pump, end, stalled>>
  BY DEF TxWindow, hist
<1>8. UNCHANGED vars => UNCHANGED <<pump, end, stalled>>
  BY DEF vars, hist
<1> QED BY <1>1, <1>2, <1>3, <1>4, <1>5, <1>6, <1>7, <1>8 DEF Next

(***************************************************************************)
(* No queued window waits for nothing (Woken): somebody will look at the   *)
(* queue, and a window is held back only while the one before it is open,  *)
(* for as long as the close mark and the queued windows are younger than   *)
(* half a wrap of the timer: PacedTruth says what happens later.           *)
(***************************************************************************)
THEOREM QueueWatched ==
  ASSUME ShortLeads
  PROVE  Spec /\ []Fresh => []Woken
<1>1. WInv /\ Fresh /\ WakeOK => Woken
  <2> SUFFICES ASSUME WInv, Fresh, WakeOK PROVE Woken
    OBVIOUS
  <2>1. ASSUME q # <<>>, Held PROVE now < busy
    <3>1. busy \in Int /\ now \in Int /\ busy # None
      BY <2>1, WindowAssumption DEF WInv, Types, None, Held
    <3>2. After(busy, now) /\ now - busy < Half
      BY <2>1, <3>1 DEF Held, Fresh
    <3> QED BY <3>1, <3>2, AfterIs
  <2> QED BY <2>1 DEF Woken, PacedTruth, WakeOK, Waiting
<1>2. Init => WInv /\ WakeOK
  <2>1. Init => WakeOK
    BY DEF Init, WakeOK, Waiting, None
  <2> QED BY <2>1, WindowInit
<1>3. WInv /\ WakeOK /\ Fresh /\ [Next]_vars => WInv' /\ WakeOK'
  BY WindowInv, WakeInv
<1> QED BY <1>1, <1>2, <1>3, PTL DEF Spec

-----------------------------------------------------------------------------
(***************************************************************************)
(* PhyTime.  The sampler comes often enough (Gap: 1 s, MaxStep: 8 s), and  *)
(* no commanded reset overtakes a sample.                                  *)
(***************************************************************************)
Sampled == Gap <= MaxStep /\ Prompt

\* the extension in place is of the chip run that is running
Live == lost \in {"no", "void"}

\* Which steps of the two writers can stand beside what.
StageOK ==
  /\ pc["sampler"] \in {"idle", "write", "void", "load", "store"}
  /\ pc["reset"] \in {"idle", "down", "up", "void", "load", "store", "latch"}
  /\ pc["reset"] \in {"down", "up"} => fenced
  /\ pc["reset"] \in {"void", "load", "store", "latch"} => ~fenced
  /\ fenced => ~Live /\ blind
  /\ pc["reset"] \in {"load", "store"} => lost = "void"
  /\ pc["reset"] = "latch" => lost = "no"
  /\ pc["sampler"] \in {"void", "load", "store"} =>
       lost # "no" /\ pc["reset"] \notin {"load", "store", "latch"}
  /\ \A w \in Writer : pc[w] = "store" => tmp[w] = gen

\* A sample in hand that is not stale is what the counter read.
SampleOK ==
  /\ at <= clock /\ clock - at <= Gap /\ boot <= clock
  /\ pc["sampler"] = "write" =>
       /\ at <= sat /\ sat <= clock
       /\ Live => ~stale
       /\ ~stale => boot <= sat /\ slo = (sat - boot) % Lap

\* The extension of a live run counts every wrap.
TimeOK ==
  /\ ~valid => wraps = 0
  /\ pc["sampler"] \in {"load", "store"} => ~valid
  /\ Live /\ valid => last = (at - boot) % Lap /\ wraps * Lap + last = at - zero

\* What a call has read is what stands there, until somebody writes.
CallOK == \A r \in Caller :
  /\ rpc[r] = "read" /\ r \notin torn => rw[r] = wraps /\ rs[r] = last
  /\ rpc[r] = "idle" => mark[r] # "good"
  /\ rpc[r] # "idle" => from[r] <= clock
  /\ mark[r] = "good" /\ rpc[r] \in {"snap", "read", "test"} =>
       lost = "no" /\ (r \in firm => valid)

\* A restart that a sample can show has left the last sample far above
\* what the counter reads now, and far below its wrap.
InHand == last <= slo /\ slo < Lap - MaxStep /\ sat <= boot
SightOK ==
  /\ lost = "missed" => blind
  /\ lost = "fresh" /\ ~blind =>
       /\ valid /\ pc["sampler"] \in {"idle", "write", "void"}
       /\ pc["sampler"] # "void" => at <= boot /\ Gap < last /\ last < Lap - MaxStep
       /\ pc["sampler"] = "write" /\ stale => InHand \/ slo <= Gap

\* A session is behind the generation exactly when the chip restarted since.
LatchOK ==
  /\ sess <= gen
  /\ joined /\ pc["reset"] \notin {"load", "store", "latch"} => sess = gen /\ lost = "no"
  /\ ~joined /\ lost = "no" => sess < gen

ExactInv == PTypeOK /\ StageOK /\ SampleOK /\ TimeOK /\ CallOK /\ Exact
PhyInv == ExactInv /\ SightOK /\ LatchOK

LEMMA PhyConstants ==
  /\ {Lap, MaxStep, Gap} \subseteq Nat \ {0} /\ MaxStep < Lap /\ Gap < Lap
  /\ Phase \subseteq 0..(Lap - 1) /\ Prompt \in BOOLEAN
BY PhyAssumption

LEMMA Remainder ==
  ASSUME NEW m \in Nat \ {0}, NEW n \in Int, NEW r \in Int, 0 <= r, r < m
  PROVE  (n * m + r) % m = r
OBVIOUS

LEMMA CounterRange ==
  ASSUME NEW a \in Int
  PROVE  a % Lap \in 0..(Lap - 1) /\ (a \in 0..(Lap - 1) => a % Lap = a)
BY PhyConstants

\* The counter a moment later, less than a lap: on, or once over its wrap.
LEMMA Onward ==
  ASSUME NEW a \in Int, NEW d \in 0..(Lap - 1)
  PROVE  /\ (a + d) % Lap \in 0..(Lap - 1)
         /\ (a + d) % Lap < a % Lap => (a + d) % Lap = (a % Lap) + d - Lap
         /\ (a + d) % Lap >= a % Lap => (a + d) % Lap = (a % Lap) + d
<1>1. PICK n \in Int, r \in 0..(Lap - 1) : a = n * Lap + r /\ r = a % Lap
  <2>1. a \div Lap \in Int /\ a % Lap \in 0..(Lap - 1) /\ a = (a \div Lap) * Lap + (a % Lap)
    BY PhyConstants
  <2> QED BY <2>1
<1>2. CASE r + d < Lap
  <2>1. a + d = n * Lap + (r + d) /\ r + d \in 0..(Lap - 1)
    BY <1>1, <1>2, PhyConstants
  <2>2. (n * Lap + (r + d)) % Lap = r + d
    BY <1>1, <2>1, Remainder, PhyConstants
  <2> QED BY <1>1, <2>1, <2>2
<1>3. CASE r + d >= Lap
  <2>1. PICK k \in Int, s \in 0..(Lap - 1) : k = n + 1 /\ s = r + d - Lap
    BY <1>1, <1>3, PhyConstants
  <2>2. k * Lap = n * Lap + Lap
    BY <2>1, PhyConstants
  <2>3. a + d = k * Lap + s
    BY <1>1, <2>1, <2>2, PhyConstants
  <2>4. (k * Lap + s) % Lap = s
    BY Remainder, PhyConstants
  <2> QED BY <1>1, <2>1, <2>3, <2>4, PhyConstants
<1> QED BY <1>1, <1>2, <1>3, PhyConstants

\* A step backwards of r - Lap + d, seen modulo Lap, is d.
LEMMA Backwards ==
  ASSUME NEW a \in 0..(Lap - 1), NEW b \in 0..(Lap - 1), a < b
  PROVE  (a - b) % Lap = a - b + Lap
BY PhyConstants

\* What a reading of the counter says beside the last sample, which is not
\* older than Gap: less by a lap when there was a wrap between.
LEMMA ReadingIs ==
  ASSUME PTypeOK, TimeOK, Live, valid, Sampled,
         NEW t \in Int, NEW lo \in Int, at <= t, t - at <= Gap, lo = (t - boot) % Lap
  PROVE  /\ lo < last => lo = last + (t - at) - Lap /\ (lo - last) % Lap = t - at
         /\ lo >= last => lo = last + (t - at)
         /\ (IF lo < last THEN wraps + 1 ELSE wraps) * Lap + lo = t - zero
<1> DEFINE d == t - at
<1>1. /\ at \in Nat /\ boot \in Int /\ zero \in Int /\ wraps \in Nat /\ last \in 0..(Lap - 1)
      /\ last = (at - boot) % Lap /\ wraps * Lap + last = at - zero
  BY DEF PTypeOK, TimeOK
<1>2. d \in 0..(Lap - 1) /\ t = at + d
  BY <1>1, PhyConstants
<1>3. /\ lo \in 0..(Lap - 1)
      /\ lo < last => lo = last + d - Lap
      /\ lo >= last => lo = last + d
  <2>1. at - boot \in Int /\ t - boot = (at - boot) + d
    BY <1>1, <1>2
  <2> HIDE DEF d
  <2>2. /\ ((at - boot) + d) % Lap \in 0..(Lap - 1)
        /\ ((at - boot) + d) % Lap < (at - boot) % Lap =>
             ((at - boot) + d) % Lap = ((at - boot) % Lap) + d - Lap
        /\ ((at - boot) + d) % Lap >= (at - boot) % Lap =>
             ((at - boot) + d) % Lap = ((at - boot) % Lap) + d
    BY <1>2, <2>1, Onward
  <2> QED BY <1>1, <2>1, <2>2
<1>4. lo < last => (lo - last) % Lap = d
  BY <1>1, <1>2, <1>3, Backwards, PhyConstants
<1>5. (wraps + 1) * Lap = wraps * Lap + Lap
  BY <1>1, PhyConstants
<1>6. (IF lo < last THEN wraps + 1 ELSE wraps) * Lap + lo = t - zero
  <2>1. PICK p \in Int : p = wraps * Lap
    BY <1>1, PhyConstants
  <2>2. CASE lo < last
    <3>1. (wraps + 1) * Lap + lo = t - zero
      BY <1>1, <1>2, <1>3, <1>5, <2>1, <2>2, PhyConstants
    <3> QED BY <2>2, <3>1
  <2>3. CASE ~(lo < last)
    <3>1. lo = last + d
      BY <1>1, <1>3, <2>3
    <3>2. wraps * Lap + lo = t - zero
      BY <1>1, <1>2, <2>1, <3>1
    <3> QED BY <2>3, <3>2
  <2> QED BY <2>2, <2>3
<1> QED BY <1>2, <1>3, <1>4, <1>6

\* A sample of a live run is no restart, and counts the wraps.
LEMMA SampleIs ==
  ASSUME PTypeOK, SampleOK, TimeOK, Sampled, Live, pc["sampler"] = "write"
  PROVE  /\ ~Restarted(slo) /\ ~stale /\ slo = (sat - boot) % Lap
         /\ valid => (IF slo < last THEN wraps + 1 ELSE wraps) * Lap + slo = sat - zero
<1>1. /\ ~stale /\ slo = (sat - boot) % Lap /\ at <= sat /\ sat - at <= Gap
      /\ sat \in Int /\ slo \in Int /\ at \in Int
  BY PhyConstants DEF SampleOK, PTypeOK
<1>2. ASSUME valid
      PROVE  /\ slo < last => (slo - last) % Lap = sat - at
             /\ (IF slo < last THEN wraps + 1 ELSE wraps) * Lap + slo = sat - zero
  BY <1>1, <1>2, ReadingIs
<1>3. ~Restarted(slo)
  BY <1>1, <1>2, PhyConstants DEF Restarted, Sampled
<1> QED BY <1>1, <1>2, <1>3

-----------------------------------------------------------------------------
\* What a call leaves alone.
LEMMA CallFrame ==
  ASSUME NEW r \in Caller, Calls(r)
  PROVE  UNCHANGED <<clock, boot, fenced, seq, gen, sess, pc, tmp, smp, past>>
BY DEF Calls, CallStarts, Snap, Read, Test, Tag, chip, call, Now

LEMMA MarkTypes ==
  ASSUME PTypeOK
  PROVE  /\ Disturbed \in [Caller -> {"over", "good", "bad", "late"}]
         /\ Overtaken \in [Caller -> {"over", "good", "bad", "late"}]
BY DEF PTypeOK, Disturbed, Overtaken

LEMMA PhyTypeStep ==
  ASSUME PTypeOK, [PNext]_pvars
  PROVE  PTypeOK'
<1>1. ASSUME NEW r \in Caller, CallStarts(r) PROVE PTypeOK'
  BY <1>1, PhyConstants, CounterRange, MarkTypes
    DEF CallStarts, PTypeOK, Writer, chip, seq, smp, call, past
<1>2. ASSUME NEW r \in Caller, Snap(r) PROVE PTypeOK'
  BY <1>2, PhyConstants, CounterRange, MarkTypes
    DEF Snap, PTypeOK, Writer, chip, seq, smp, call, past
<1>3. ASSUME NEW r \in Caller, Read(r) PROVE PTypeOK'
  BY <1>3, PhyConstants, CounterRange, MarkTypes
    DEF Read, Now, PTypeOK, Writer, chip, seq, smp, call, past
<1>4. ASSUME NEW r \in Caller, Test(r) PROVE PTypeOK'
  BY <1>4, PhyConstants, CounterRange, MarkTypes
    DEF Test, PTypeOK, Writer, chip, seq, smp, call, past
<1>5. ASSUME NEW r \in Caller, Tag(r) PROVE PTypeOK'
  BY <1>5, PhyConstants, CounterRange, MarkTypes
    DEF Tag, PTypeOK, Writer, chip, seq, smp, call, past
<1>6. CASE Sample
  BY <1>6, PhyConstants, CounterRange, MarkTypes
    DEF Sample, Now, PTypeOK, Writer, chip, seq, smp, call, past
<1>7. CASE Land
  <2>1. /\ pc' \in [Writer -> {"idle", "write", "down", "up", "void", "load", "store", "latch"}]
        /\ torn' \subseteq Caller /\ valid' \in BOOLEAN /\ stale' \in BOOLEAN
    BY <1>7 DEF Land, Written, PTypeOK, Writer
  <2>2. /\ wraps' \in Nat /\ last' \in 0..(Lap - 1) /\ at' \in Nat /\ sat' \in Nat
        /\ slo' \in 0..(Lap - 1) /\ zero' \in Int
    BY <1>7, PhyConstants DEF Land, PTypeOK
  <2>3. lost' \in {"no", "fresh", "missed", "void"}
    BY <1>7 DEF Land, PTypeOK
  <2> QED BY <1>7, <2>1, <2>2, <2>3 DEF Land, PTypeOK, chip
<1>8. ASSUME NEW w \in Writer, Voids(w) PROVE PTypeOK'
  <2>1. /\ pc' \in [Writer -> {"idle", "write", "down", "up", "void", "load", "store", "latch"}]
        /\ torn' \subseteq Caller /\ wraps' \in Nat /\ valid' \in BOOLEAN
        /\ lost' \in {"no", "fresh", "missed", "void"}
    BY <1>8 DEF Voids, Written, PTypeOK
  <2>2. zero' \in Int
    BY <1>8, CounterRange DEF Voids, PTypeOK, Counter
  <2>3. mark' \in [Caller -> {"over", "good", "bad", "late"}]
    BY <1>8, MarkTypes DEF Voids
  <2> QED BY <1>8, <2>1, <2>2, <2>3 DEF Voids, PTypeOK, chip, smp
<1>9. ASSUME NEW w \in Writer, Loads(w) PROVE PTypeOK'
  BY <1>9, PhyConstants, CounterRange, MarkTypes
    DEF Loads, PTypeOK, Writer, chip, seq, smp, call, past
<1>10. ASSUME NEW w \in Writer, Stores(w) PROVE PTypeOK'
  BY <1>10, PhyConstants, CounterRange, MarkTypes
    DEF Stores, Overtaken, PTypeOK, Writer, chip, seq, smp, call, past
<1>11. CASE ResetBegins
  <2>1. mark' \in [Caller -> {"over", "good", "bad", "late"}]
    BY <1>11, MarkTypes DEF ResetBegins
  <2>2. pc' \in [Writer -> {"idle", "write", "down", "up", "void", "load", "store", "latch"}] /\ trouble' \in Nat
    BY <1>11 DEF ResetBegins, Troubled, PTypeOK, Writer
  <2> QED BY <1>11, <2>1, <2>2 DEF ResetBegins, PTypeOK, seq, smp
<1>12. CASE BoardReset
  BY <1>12, PhyConstants, CounterRange, MarkTypes
    DEF BoardReset, PTypeOK, Writer, chip, seq, smp, call, past
<1>13. CASE LinkUp
  BY <1>13, PhyConstants, CounterRange, MarkTypes
    DEF LinkUp, PTypeOK, Writer, chip, seq, smp, call, past
<1>14. CASE ResetFails
  BY <1>14, PhyConstants, CounterRange, MarkTypes
    DEF ResetFails, PTypeOK, Writer, chip, seq, smp, call, past
<1>15. CASE Latches
  BY <1>15, PhyConstants, CounterRange, MarkTypes
    DEF Latches, PTypeOK, Writer, chip, seq, smp, call, past
<1>16. CASE Reopen
  BY <1>16, PhyConstants, CounterRange, MarkTypes
    DEF Reopen, PTypeOK, Writer, chip, seq, smp, call, past
<1>17. CASE Passes
  BY <1>17, PhyConstants, CounterRange, MarkTypes
    DEF Passes, PTypeOK, Writer, chip, seq, smp, call, past
<1>18. CASE ChipRestarts
  <2>1. mark' \in [Caller -> {"over", "good", "bad", "late"}]
    BY <1>18, MarkTypes DEF ChipRestarts
  <2>2. lost' \in {"no", "fresh", "missed", "void"} /\ trouble' \in Nat /\ boot' \in Int
    BY <1>18 DEF ChipRestarts, Troubled, PTypeOK, Writer
  <2>3. blind' \in BOOLEAN
    <3>1. InSight \in BOOLEAN
      BY DEF InSight, PTypeOK
    <3> QED BY <1>18, <3>1 DEF ChipRestarts, PTypeOK
  <2> QED BY <1>18, <2>1, <2>2, <2>3 DEF ChipRestarts, PTypeOK, seq, smp
<1>19. CASE UNCHANGED pvars
  BY <1>19 DEF pvars, chip, seq, smp, call, past, PTypeOK, Writer
<1> QED BY <1>1, <1>2, <1>3, <1>4, <1>5, <1>6, <1>7, <1>8, <1>9, <1>10, <1>11, <1>12, <1>13, <1>14, <1>15, <1>16, <1>17, <1>18, <1>19
  DEF PNext, Calls, Writes

LEMMA StageStep ==
  ASSUME PTypeOK, StageOK, SampleOK, TimeOK, Sampled, [PNext]_pvars
  PROVE  StageOK'
<1>1. ASSUME NEW r \in Caller, Calls(r) PROVE StageOK'
  BY <1>1, CallFrame DEF StageOK, Live, PTypeOK, Writer, chip, seq, smp, call, past
<1>2. CASE Sample
  BY <1>2 DEF Sample, Now, StageOK, Live, PTypeOK, Writer, chip, seq, smp, call, past
<1>3. CASE Land
  <2>1. Live => ~Restarted(slo)
    BY <1>3, SampleIs DEF Land
  <2> QED BY <1>3, <2>1 DEF Land, StageOK, Live, PTypeOK, Writer, chip
<1>4. ASSUME NEW w \in Writer, Voids(w) PROVE StageOK'
  <2>1. CASE w = "sampler"
    BY <1>4, <2>1 DEF Voids, StageOK, Live, PTypeOK, Writer, chip
  <2>2. CASE w = "reset"
    BY <1>4, <2>2 DEF Voids, Overtakes, StageOK, Live, PTypeOK, Writer, chip, Sampled
  <2> QED BY <2>1, <2>2 DEF Writer
<1>5. ASSUME NEW w \in Writer, Loads(w) PROVE StageOK'
  BY <1>5 DEF Loads, StageOK, Live, PTypeOK, Writer, chip, seq, smp, call, past
<1>6. ASSUME NEW w \in Writer, Stores(w) PROVE StageOK'
  BY <1>6 DEF Stores, Overtaken, StageOK, Live, PTypeOK, Writer, chip, seq, smp, call, past
<1>7. CASE ResetBegins
  BY <1>7
    DEF ResetBegins, Troubled, Disturbed, StageOK, Live, PTypeOK, Writer, chip, seq, smp, call, past
<1>8. CASE BoardReset
  BY <1>8 DEF BoardReset, StageOK, Live, PTypeOK, Writer, chip, seq, smp, call, past
<1>9. CASE LinkUp
  BY <1>9 DEF LinkUp, StageOK, Live, PTypeOK, Writer, chip, seq, smp, call, past
<1>10. CASE ResetFails
  BY <1>10 DEF ResetFails, StageOK, Live, PTypeOK, Writer, chip, seq, smp, call, past
<1>11. CASE Latches
  BY <1>11 DEF Latches, StageOK, Live, PTypeOK, Writer, chip, seq, smp, call, past
<1>12. CASE Reopen
  BY <1>12 DEF Reopen, StageOK, Live, PTypeOK, Writer, chip, seq, smp, call, past
<1>13. CASE Passes
  BY <1>13 DEF Passes, StageOK, Live, PTypeOK, Writer, chip, seq, smp, call, past
<1>14. CASE ChipRestarts
  BY <1>14
    DEF ChipRestarts, Troubled, Disturbed, InSight, StageOK, Live, PTypeOK, Writer, chip, seq, smp, call, past
<1>15. CASE UNCHANGED pvars
  BY <1>15 DEF pvars, chip, seq, smp, call, past, StageOK, Live, PTypeOK, Writer
<1> QED BY <1>1, <1>2, <1>3, <1>4, <1>5, <1>6, <1>7, <1>8, <1>9, <1>10, <1>11, <1>12, <1>13, <1>14, <1>15
  DEF PNext, Writes

LEMMA SampleStep ==
  ASSUME PTypeOK, StageOK, SampleOK, TimeOK, Sampled, [PNext]_pvars
  PROVE  SampleOK'
<1>1. ASSUME NEW r \in Caller, Calls(r) PROVE SampleOK'
  BY <1>1, CallFrame DEF SampleOK, Live, PTypeOK, Writer, chip, seq, smp, call, past
<1>2. CASE Sample
  <2>1. fenced <=> stale'
    BY <1>2 DEF Sample, PTypeOK
  <2>2. ~fenced => slo' = (clock - boot) % Lap
    BY <1>2 DEF Sample, Now, Counter
  <2>3. Live => ~fenced
    BY DEF StageOK
  <2> QED BY <1>2, <2>1, <2>2, <2>3 DEF Sample, SampleOK, Live, PTypeOK, Writer, past
<1>3. CASE Land
  <2>1. at' = sat /\ clock' = clock /\ boot' = boot /\ pc'["sampler"] # "write"
    BY <1>3 DEF Land, PTypeOK, Writer, chip
  <2>2. at <= sat /\ sat <= clock /\ clock - at <= Gap /\ boot <= clock
    BY <1>3 DEF Land, SampleOK
  <2> QED BY <2>1, <2>2, PhyConstants DEF SampleOK, PTypeOK
<1>4. ASSUME NEW w \in Writer, Voids(w) PROVE SampleOK'
  BY <1>4 DEF Voids, Overtakes, SampleOK, StageOK, Live, PTypeOK, Writer, chip, smp, Sampled
<1>5. ASSUME NEW w \in Writer, Loads(w) PROVE SampleOK'
  BY <1>5 DEF Loads, SampleOK, Live, PTypeOK, Writer, chip, seq, smp, call, past
<1>6. ASSUME NEW w \in Writer, Stores(w) PROVE SampleOK'
  BY <1>6 DEF Stores, Overtaken, SampleOK, Live, PTypeOK, Writer, chip, seq, smp, call, past
<1>7. CASE ResetBegins
  BY <1>7
    DEF ResetBegins, Troubled, Disturbed, SampleOK, Live, PTypeOK, Writer, chip, seq, smp, call, past
<1>8. CASE BoardReset
  <2>1. ~Live /\ Live' = Live
    BY <1>8 DEF BoardReset, StageOK, Live, past
  <2>2. pc'["sampler"] = "write" => pc["sampler"] = "write" /\ stale'
    BY <1>8 DEF BoardReset, PTypeOK, Writer
  <2> QED BY <1>8, <2>1, <2>2 DEF BoardReset, SampleOK, PTypeOK
<1>9. CASE LinkUp
  BY <1>9 DEF LinkUp, SampleOK, Live, PTypeOK, Writer, chip, seq, smp, call, past
<1>10. CASE ResetFails
  BY <1>10 DEF ResetFails, SampleOK, Live, PTypeOK, Writer, chip, seq, smp, call, past
<1>11. CASE Latches
  BY <1>11 DEF Latches, SampleOK, Live, PTypeOK, Writer, chip, seq, smp, call, past
<1>12. CASE Reopen
  BY <1>12 DEF Reopen, SampleOK, Live, PTypeOK, Writer, chip, seq, smp, call, past
<1>13. CASE Passes
  BY <1>13, PhyConstants DEF Passes, SampleOK, Live, PTypeOK, chip, smp, past
<1>14. CASE ChipRestarts
  <2>1. Live' = FALSE
    BY <1>14 DEF ChipRestarts, Live
  <2>2. pc'["sampler"] = "write" => pc["sampler"] = "write" /\ stale'
    BY <1>14 DEF ChipRestarts, PTypeOK, Writer
  <2> QED BY <1>14, <2>1, <2>2 DEF ChipRestarts, SampleOK, PTypeOK
<1>15. CASE UNCHANGED pvars
  BY <1>15 DEF pvars, chip, seq, smp, call, past, SampleOK, Live, PTypeOK, Writer
<1> QED BY <1>1, <1>2, <1>3, <1>4, <1>5, <1>6, <1>7, <1>8, <1>9, <1>10, <1>11, <1>12, <1>13, <1>14, <1>15
  DEF PNext, Writes

LEMMA TimeStep ==
  ASSUME PTypeOK, StageOK, SampleOK, TimeOK, Sampled, [PNext]_pvars
  PROVE  TimeOK'
<1>1. ASSUME NEW r \in Caller, Calls(r) PROVE TimeOK'
  BY <1>1, CallFrame DEF TimeOK, Live, PTypeOK, Writer, chip, seq, smp, call, past
<1>2. CASE Sample
  BY <1>2 DEF Sample, Now, TimeOK, Live, PTypeOK, Writer, chip, seq, smp, call, past
<1>3. CASE Land
  <2>1. CASE Live
    <3>1. /\ ~Restarted(slo) /\ ~stale /\ slo = (sat - boot) % Lap
          /\ valid => (IF slo < last THEN wraps + 1 ELSE wraps) * Lap + slo = sat - zero
      BY <1>3, <2>1, SampleIs DEF Land
    <3>2. ~valid => wraps' * Lap + slo = sat - zero'
      BY <1>3, <3>1, PhyConstants DEF Land, TimeOK, PTypeOK
    <3>3. valid => wraps' * Lap + slo = sat - zero'
      BY <1>3, <3>1 DEF Land
    <3> QED BY <1>3, <3>1, <3>2, <3>3 DEF Land, TimeOK, PTypeOK, Writer, chip
  <2>2. CASE ~Live
    <3>1. Live' = FALSE
      BY <1>3, <2>2 DEF Land, Live
    <3> QED BY <1>3, <3>1 DEF Land, TimeOK, PTypeOK, Writer
  <2> QED BY <2>1, <2>2
<1>4. ASSUME NEW w \in Writer, Voids(w) PROVE TimeOK'
  BY <1>4
    DEF Voids, Written, Disturbed, Overtakes, TimeOK, Live, PTypeOK, Writer, chip, seq, smp, call, past
<1>5. ASSUME NEW w \in Writer, Loads(w) PROVE TimeOK'
  BY <1>5 DEF Loads, TimeOK, Live, PTypeOK, Writer, chip, seq, smp, call, past
<1>6. ASSUME NEW w \in Writer, Stores(w) PROVE TimeOK'
  BY <1>6 DEF Stores, Overtaken, TimeOK, Live, PTypeOK, Writer, chip, seq, smp, call, past
<1>7. CASE ResetBegins
  BY <1>7
    DEF ResetBegins, Troubled, Disturbed, TimeOK, Live, PTypeOK, Writer, chip, seq, smp, call, past
<1>8. CASE BoardReset
  <2>1. ~Live /\ Live' = Live
    BY <1>8 DEF BoardReset, StageOK, Live, past
  <2> QED BY <1>8, <2>1 DEF BoardReset, TimeOK, PTypeOK, Writer, seq
<1>9. CASE LinkUp
  BY <1>9 DEF LinkUp, TimeOK, Live, PTypeOK, Writer, chip, seq, smp, call, past
<1>10. CASE ResetFails
  BY <1>10 DEF ResetFails, TimeOK, Live, PTypeOK, Writer, chip, seq, smp, call, past
<1>11. CASE Latches
  BY <1>11 DEF Latches, TimeOK, Live, PTypeOK, Writer, chip, seq, smp, call, past
<1>12. CASE Reopen
  BY <1>12 DEF Reopen, TimeOK, Live, PTypeOK, Writer, chip, seq, smp, call, past
<1>13. CASE Passes
  BY <1>13 DEF Passes, TimeOK, Live, PTypeOK, Writer, chip, seq, smp, call, past
<1>14. CASE ChipRestarts
  BY <1>14
    DEF ChipRestarts, Troubled, Disturbed, InSight, TimeOK, Live, PTypeOK, Writer, chip, seq, smp, call, past
<1>15. CASE UNCHANGED pvars
  BY <1>15 DEF pvars, chip, seq, smp, call, past, TimeOK, Live, PTypeOK, Writer
<1> QED BY <1>1, <1>2, <1>3, <1>4, <1>5, <1>6, <1>7, <1>8, <1>9, <1>10, <1>11, <1>12, <1>13, <1>14, <1>15
  DEF PNext, Writes

-----------------------------------------------------------------------------
\* What a call has computed stays true while its variables, the extension's
\* validity and origin stand still and time goes on.
LEMMA TimelyStays ==
  ASSUME PTypeOK, PTypeOK', NEW r \in Caller, Timely(r),
         rw'[r] = rw[r], rs'[r] = rs[r], rl'[r] = rl[r], from'[r] = from[r],
         valid' = valid, zero' = zero, clock <= clock'
  PROVE  Timely(r)'
<1>1. Now64(r)' = Now64(r)
  BY DEF Now64
<1>2. Now64(r) \in Int
  <2>1. rw[r] * Lap \in Int /\ (rw[r] + 1) * Lap \in Int /\ rl[r] \in Int
    BY PhyConstants DEF PTypeOK
  <2> QED BY <2>1 DEF Now64
<1> QED BY <1>1, <1>2 DEF Timely, PTypeOK

\* Steps of the others: a caller keeps its step and what it has read.
LEMMA OtherSteps ==
  ASSUME PTypeOK, PTypeOK', CallOK, Exact,
         UNCHANGED <<rpc, rw, rs, rl, from, firm>>, clock <= clock',
         \/ UNCHANGED <<wraps, last, torn>>
         \/ torn' = {r \in Caller : rpc[r] # "idle"},
         \A r \in Caller :
           mark'[r] = "good" =>
             \/ rpc[r] = "tag" /\ mark[r] = "good"
             \/ mark[r] = "good" /\ (lost = "no" => lost' = "no")
                  /\ (valid => valid' /\ zero' = zero)
  PROVE  CallOK' /\ Exact'
<1>1. ASSUME NEW r \in Caller
      PROVE  /\ rpc'[r] = "read" /\ r \notin torn' => rw'[r] = wraps' /\ rs'[r] = last'
             /\ rpc'[r] = "idle" => mark'[r] # "good"
             /\ rpc'[r] # "idle" => from'[r] <= clock'
             /\ mark'[r] = "good" /\ rpc'[r] \in {"snap", "read", "test"} =>
                  lost' = "no" /\ (r \in firm' => valid')
  BY <1>1 DEF CallOK, PTypeOK
<1>2. ASSUME NEW r \in Caller, rpc'[r] = "test", mark'[r] = "good", r \in firm'
      PROVE  Timely(r)'
  <2>1. mark[r] = "good" /\ rpc[r] = "test" /\ r \in firm /\ valid /\ valid' /\ zero' = zero
    BY <1>2 DEF CallOK
  <2>2. Timely(r)
    BY <2>1 DEF Exact
  <2>3. valid' = valid
    BY <2>1 DEF PTypeOK
  <2> QED BY <2>1, <2>2, <2>3, TimelyStays
<1>3. CallOK'
  BY <1>1 DEF CallOK
<1> QED BY <1>2, <1>3 DEF Exact

\* A step of one caller's call.
LEMMA CallSteps ==
  ASSUME PTypeOK, PTypeOK', StageOK, SampleOK, TimeOK, CallOK, Exact, Sampled,
         NEW c \in Caller, Calls(c)
  PROVE  CallOK' /\ Exact'
<1>1. /\ clock' = clock /\ boot' = boot /\ wraps' = wraps /\ last' = last /\ valid' = valid
      /\ lost' = lost /\ zero' = zero /\ fenced' = fenced
  BY CallFrame DEF seq, past
<1>2. ASSUME NEW r \in Caller, r # c
      PROVE  /\ rpc'[r] = rpc[r] /\ rw'[r] = rw[r] /\ rs'[r] = rs[r] /\ rl'[r] = rl[r]
             /\ from'[r] = from[r] /\ mark'[r] = mark[r] /\ (r \in torn' <=> r \in torn)
             /\ (r \in firm' <=> r \in firm)
  BY <1>2 DEF Calls, CallStarts, Snap, Read, Test, Tag, PTypeOK
<1>3. /\ rpc'[c] = "read" /\ c \notin torn' => rw'[c] = wraps' /\ rs'[c] = last'
      /\ rpc'[c] = "idle" => mark'[c] # "good"
      /\ rpc'[c] # "idle" => from'[c] <= clock'
      /\ mark'[c] = "good" /\ rpc'[c] \in {"snap", "read", "test"} =>
           lost' = "no" /\ (c \in firm' => valid')
  <2>1. CASE CallStarts(c)
    BY <1>1, <2>1 DEF CallStarts, PTypeOK
  <2>2. CASE Snap(c)
    BY <1>1, <2>2 DEF Snap, CallOK, PTypeOK
  <2>3. CASE Read(c)
    BY <1>1, <2>3 DEF Read, CallOK, PTypeOK
  <2>4. CASE Test(c)
    BY <1>1, <2>4 DEF Test, CallOK, PTypeOK
  <2>5. CASE Tag(c)
    BY <1>1, <2>5 DEF Tag, CallOK, PTypeOK
  <2> QED BY <2>1, <2>2, <2>3, <2>4, <2>5 DEF Calls
<1>4. CallOK'
  BY <1>1, <1>2, <1>3 DEF CallOK
<1>5. ASSUME NEW r \in Caller, rpc'[r] = "test", mark'[r] = "good", r \in firm'
      PROVE  Timely(r)'
  <2>1. CASE r # c
    <3>1. Timely(r)
      BY <1>2, <1>5, <2>1 DEF Exact
    <3>2. clock <= clock'
      BY <1>1 DEF PTypeOK
    <3> QED BY <1>1, <1>2, <2>1, <3>1, <3>2, TimelyStays
  <2>2. CASE r = c
    <3>1. /\ Read(c) /\ c \notin torn /\ mark[c] = "good" /\ c \in firm /\ rpc[c] = "read"
      BY <1>5, <2>2 DEF Calls, CallStarts, Snap, Read, Test, Tag, PTypeOK
    <3>2. lost = "no" /\ valid /\ rw[c] = wraps /\ rs[c] = last /\ from[c] <= clock
      BY <3>1 DEF CallOK
    <3>3. Live /\ ~fenced
      BY <3>2 DEF Live, StageOK
    <3>4. PICK lo \in 0..(Lap - 1) : lo = (clock - boot) % Lap /\ rl'[c] = lo
      BY <3>1, <3>3 DEF Read, Now, Counter, PTypeOK
    <3>5. rw'[c] = wraps /\ rs'[c] = last /\ from'[c] = from[c]
      BY <3>1, <3>2 DEF Read
    <3>6. Now64(c)' = (IF lo < last THEN wraps + 1 ELSE wraps) * Lap + lo
      BY <1>1, <3>2, <3>4, <3>5 DEF Now64
    <3>7. (IF lo < last THEN wraps + 1 ELSE wraps) * Lap + lo = clock - zero
      <4>1. clock \in Int /\ at \in Int /\ lo \in Int /\ at <= clock /\ clock - at <= Gap
        BY PhyConstants DEF SampleOK, PTypeOK
      <4> QED BY <3>2, <3>3, <3>4, <4>1, ReadingIs
    <3> QED BY <1>1, <2>2, <3>2, <3>5, <3>6, <3>7 DEF Timely, PTypeOK
  <2> QED BY <2>1, <2>2
<1> QED BY <1>4, <1>5 DEF Exact

-----------------------------------------------------------------------------
LEMMA CallsStep ==
  ASSUME PTypeOK, PTypeOK', StageOK, SampleOK, TimeOK, CallOK, Exact, Sampled, [PNext]_pvars
  PROVE  CallOK' /\ Exact'
<1> DEFINE Others ==
      /\ UNCHANGED <<rpc, rw, rs, rl, from, firm>> /\ clock <= clock'
      /\ \/ UNCHANGED <<wraps, last, torn>>
         \/ torn' = {r \in Caller : rpc[r] # "idle"}
      /\ \A r \in Caller :
           mark'[r] = "good" =>
             \/ rpc[r] = "tag" /\ mark[r] = "good"
             \/ mark[r] = "good" /\ (lost = "no" => lost' = "no")
                  /\ (valid => valid' /\ zero' = zero)
<1>1. Others => CallOK' /\ Exact'
  BY OtherSteps
<1>2. ASSUME NEW r \in Caller, Calls(r) PROVE CallOK' /\ Exact'
  BY <1>2, CallSteps
<1>3. ASSUME Sample PROVE Others
  BY <1>3 DEF Sample, PTypeOK, chip, seq, call, past
<1>4. ASSUME Land PROVE Others
  BY <1>4 DEF Land, PTypeOK, chip, seq, call, past, Written
<1>5. ASSUME NEW w \in Writer, Voids(w) PROVE Others
  BY <1>5 DEF Voids, PTypeOK, chip, seq, call, past, Written, Disturbed
<1>6. ASSUME NEW w \in Writer, Loads(w) PROVE Others
  BY <1>6 DEF Loads, PTypeOK, chip, seq, call, past
<1>7. ASSUME NEW w \in Writer, Stores(w) PROVE Others
  BY <1>7 DEF Stores, PTypeOK, chip, seq, call, past, Overtaken
<1>8. ASSUME ResetBegins PROVE Others
  BY <1>8 DEF ResetBegins, PTypeOK, chip, seq, call, past, Disturbed
<1>9. ASSUME BoardReset PROVE Others
  BY <1>9 DEF BoardReset, PTypeOK, chip, seq, call, past
<1>10. ASSUME LinkUp PROVE Others
  BY <1>10 DEF LinkUp, PTypeOK, chip, seq, call, past
<1>11. ASSUME ResetFails PROVE Others
  BY <1>11 DEF ResetFails, PTypeOK, chip, seq, call, past
<1>12. ASSUME Latches PROVE Others
  BY <1>12 DEF Latches, PTypeOK, chip, seq, call, past
<1>13. ASSUME Reopen PROVE Others
  BY <1>13 DEF Reopen, PTypeOK, chip, seq, call, past
<1>14. ASSUME Passes PROVE Others
  BY <1>14 DEF Passes, PTypeOK, chip, seq, call, past
<1>15. ASSUME ChipRestarts PROVE Others
  BY <1>15 DEF ChipRestarts, PTypeOK, chip, seq, call, past, Disturbed
<1>16. ASSUME UNCHANGED pvars PROVE Others
  BY <1>16 DEF pvars, PTypeOK, seq, call, past
<1> QED BY <1>1, <1>2, <1>3, <1>4, <1>5, <1>6, <1>7, <1>8, <1>9, <1>10, <1>11, <1>12, <1>13, <1>14, <1>15, <1>16
  DEF PNext, Writes

LEMMA ExactInit == PInit => ExactInv
<1> SUFFICES ASSUME PInit PROVE ExactInv
  OBVIOUS
<1>1. PICK p \in Phase : boot = -p /\ seen = p /\ zero = -p
  BY DEF PInit
<1>2. p \in 0..(Lap - 1)
  BY PhyConstants
<1>3. PTypeOK
  <2>1. boot \in Int /\ seen \in 0..(Lap - 1) /\ zero \in Int /\ 0 \in 0..(Lap - 1)
    BY <1>1, <1>2, PhyConstants
  <2> QED BY <2>1 DEF PInit, PTypeOK
<1>4. StageOK /\ TimeOK /\ CallOK /\ Exact
  BY DEF PInit, StageOK, TimeOK, CallOK, Exact, Live, Writer
<1>5. SampleOK
  BY <1>1, <1>2, PhyConstants DEF PInit, SampleOK, Writer
<1> QED BY <1>3, <1>4, <1>5 DEF ExactInv

LEMMA ExactStep == ASSUME Sampled, ExactInv, [PNext]_pvars PROVE ExactInv'
<1>1. PTypeOK'
  BY PhyTypeStep DEF ExactInv
<1>2. StageOK'
  BY StageStep DEF ExactInv
<1>3. SampleOK'
  BY SampleStep DEF ExactInv
<1>4. TimeOK'
  BY TimeStep DEF ExactInv
<1>5. CallOK' /\ Exact'
  BY <1>1, CallsStep DEF ExactInv
<1> QED BY <1>1, <1>2, <1>3, <1>4, <1>5 DEF ExactInv

LEMMA ExactInvariant == ASSUME Sampled PROVE PSpec => []ExactInv
<1>1. PInit => ExactInv
  BY ExactInit
<1>2. ExactInv /\ [PNext]_pvars => ExactInv'
  BY ExactStep
<1> QED BY <1>1, <1>2, PTL DEF PSpec

\* The type invariant of the time base, in every behaviour.
THEOREM TimeTypes == PSpec => []PTypeOK
<1>1. PInit => PTypeOK
  BY ExactInit DEF ExactInv
<1>2. PTypeOK /\ [PNext]_pvars => PTypeOK'
  BY PhyTypeStep
<1> QED BY <1>1, <1>2, PTL DEF PSpec

\* What rfnm_phytimer_now64 returns to a call that began with a sample in place
\* was the time at some moment of the call.
THEOREM TimeExact == ASSUME Sampled PROVE PSpec => []Exact
<1>1. PSpec => []ExactInv
  BY ExactInvariant
<1>2. ExactInv => Exact
  BY DEF ExactInv
<1> QED BY <1>1, <1>2, PTL

LEMMA AlarmStep == 
  ASSUME Sampled, ExactInv, [PNext]_pvars, pc["sampler"] = "write", pc'["sampler"] = "void"
  PROVE  lost # "no"
<1>1. CASE Land
  <2>1. Restarted(slo)
    BY <1>1 DEF Land, ExactInv, PTypeOK, Writer
  <2> QED BY <2>1, SampleIs DEF ExactInv, Live
<1>2. ASSUME NEW r \in Caller, Calls(r) PROVE FALSE
  BY <1>2, CallFrame
<1>3. ASSUME NEW w \in Writer, Writes(w) PROVE FALSE
  BY <1>3 DEF Writes, Voids, Loads, Stores, ExactInv, PTypeOK, Writer
<1>4. ASSUME \/ Sample \/ ResetBegins \/ BoardReset \/ LinkUp \/ ResetFails \/ Latches
             \/ Reopen \/ Passes \/ ChipRestarts \/ UNCHANGED pvars
      PROVE  FALSE
  BY <1>4 DEF Sample, ResetBegins, BoardReset, LinkUp, ResetFails, Latches, Reopen, Passes,
     ChipRestarts, pvars, ExactInv, PTypeOK, Writer
<1> QED BY <1>1, <1>2, <1>3, <1>4 DEF PNext

\* rfnm_phy64_timer_fn calls a restart only what is one.
THEOREM AlarmsTrue == ASSUME Sampled PROVE PSpec => NoFalseAlarm
<1>1. PSpec => []ExactInv
  BY ExactInvariant
<1>2. ExactInv /\ [PNext]_pvars =>
        [pc["sampler"] = "write" /\ pc'["sampler"] = "void" => lost # "no"]_pvars
  BY AlarmStep
<1> QED BY <1>1, <1>2, PTL DEF PSpec, NoFalseAlarm

-----------------------------------------------------------------------------
\* After a restart that a sample can show, the next sample of the new run shows it.
LEMMA SightIs ==
  ASSUME ExactInv, SightOK, Sampled, lost = "fresh", ~blind, pc["sampler"] = "write"
  PROVE  /\ Restarted(slo) \/ (stale /\ ~Restarted(slo) /\ InHand)
         /\ ~stale => slo <= Gap
<1>1. /\ valid /\ at <= boot /\ Gap < last /\ last < Lap - MaxStep
      /\ stale => InHand \/ slo <= Gap
  BY DEF SightOK
<1>2. /\ at \in Nat /\ sat \in Nat /\ clock \in Nat /\ boot \in Int
      /\ slo \in 0..(Lap - 1) /\ last \in 0..(Lap - 1)
  BY DEF ExactInv, PTypeOK
<1>3. ASSUME ~stale PROVE slo <= Gap
  <2>1. boot <= sat /\ slo = (sat - boot) % Lap /\ sat <= clock /\ clock - at <= Gap
    BY <1>3 DEF ExactInv, SampleOK
  <2>2. sat - boot \in 0..(Lap - 1) /\ sat - boot <= Gap
    BY <1>1, <1>2, <2>1, PhyConstants
  <2>3. (sat - boot) % Lap = sat - boot
    <3>1. sat - boot \in Int
      BY <1>2
    <3> QED BY <2>2, <3>1, CounterRange
  <2> QED BY <2>1, <2>2, <2>3
<1>4. ASSUME slo <= Gap PROVE Restarted(slo)
  <2>1. slo < last
    BY <1>1, <1>2, <1>4, PhyConstants
  <2>2. (slo - last) % Lap = slo - last + Lap
    BY <1>2, <2>1, Backwards
  <2> QED BY <1>1, <1>2, <2>1, <2>2, PhyConstants DEF Restarted
<1>5. ASSUME InHand PROVE ~Restarted(slo)
  BY <1>2, <1>5 DEF InHand, Restarted
<1> QED BY <1>1, <1>3, <1>4, <1>5

\* Where a restart can be seen: the counter has not wrapped since the last sample.
LEMMA InSightIs ==
  ASSUME ExactInv, Sampled, lost = "no", InSight
  PROVE  /\ valid /\ pc["sampler"] \in {"idle", "write"} /\ Gap < last /\ last < Lap - MaxStep
         /\ pc["sampler"] = "write" => last <= slo /\ slo < Lap - MaxStep /\ sat <= clock
<1>1. /\ valid /\ Live /\ pc["sampler"] \in {"idle", "write"}
      /\ 2 * Gap < Counter /\ Counter < Lap - MaxStep
  BY DEF InSight, Live, ExactInv, StageOK
<1>2. /\ at \in Nat /\ sat \in Nat /\ clock \in Nat /\ boot \in Int
      /\ slo \in 0..(Lap - 1) /\ last \in 0..(Lap - 1)
      /\ at <= clock /\ clock - at <= Gap /\ Gap \in Nat
  BY PhyConstants DEF ExactInv, PTypeOK, SampleOK
<1>3. Counter \in Int
  BY <1>1, <1>2, CounterRange DEF Counter
<1>4. /\ Counter < last => Counter = last + (clock - at) - Lap
      /\ Counter >= last => Counter = last + (clock - at)
  <2>1. Counter = (clock - boot) % Lap /\ clock \in Int
    BY <1>2 DEF Counter
  <2> HIDE DEF Counter
  <2> QED BY <1>1, <1>2, <1>3, <2>1, ReadingIs DEF ExactInv
<1>5. Counter = last + (clock - at)
  BY <1>1, <1>2, <1>3, <1>4, PhyConstants
<1>6. Gap < last /\ last < Lap - MaxStep
  BY <1>1, <1>2, <1>3, <1>5, PhyConstants
<1>7. ASSUME pc["sampler"] = "write"
      PROVE  last <= slo /\ slo < Lap - MaxStep /\ sat <= clock
  <2>1. slo = (sat - boot) % Lap /\ at <= sat /\ sat <= clock
    BY <1>7, SampleIs, <1>1 DEF ExactInv, SampleOK
  <2>2. sat - at <= Gap
    BY <1>2, <2>1
  <2>3. /\ slo < last => slo = last + (sat - at) - Lap
        /\ slo >= last => slo = last + (sat - at)
    <3>1. sat \in Int /\ slo \in Int
      BY <1>2
    <3> QED BY <1>1, <2>1, <2>2, <3>1, ReadingIs DEF ExactInv
  <2> QED BY <1>1, <1>2, <1>3, <1>5, <2>1, <2>3, PhyConstants
<1> QED BY <1>1, <1>6, <1>7

LEMMA SightStep ==
  ASSUME ExactInv, SightOK, Sampled, [PNext]_pvars
  PROVE  SightOK'
<1>1. ASSUME NEW r \in Caller, Calls(r) PROVE SightOK'
  BY <1>1, CallFrame DEF SightOK, InHand, ExactInv, PTypeOK, Writer, chip, seq, smp, call, past
<1>2. CASE Sample
  <2>1. /\ blind' = blind /\ lost' = lost /\ valid' = valid /\ last' = last /\ at' = at /\ boot' = boot
        /\ pc["sampler"] = "idle" /\ pc'["sampler"] = "write"
        /\ stale' = fenced
    BY <1>2 DEF Sample, seq, past, ExactInv, PTypeOK, Writer
  <2>2. fenced => blind
    BY DEF ExactInv, StageOK
  <2> QED BY <2>1, <2>2 DEF SightOK
<1>3. CASE Land
  <2>1. CASE lost = "fresh" /\ ~blind
    <3>1. pc["sampler"] = "write" /\ lost' \in {"fresh", "missed"} /\ blind' = blind /\ valid' = TRUE /\ boot' = boot
      BY <1>3, <2>1 DEF Land, chip
    <3>2. CASE Restarted(slo)
      BY <1>3, <2>1, <3>1, <3>2 DEF Land, SightOK, ExactInv, PTypeOK, Writer
    <3>3. CASE stale /\ ~Restarted(slo) /\ InHand
      <4>1. lost' = "fresh" /\ last' = slo /\ at' = sat /\ pc'["sampler"] = "idle"
        BY <1>3, <2>1, <3>3 DEF Land, ExactInv, PTypeOK, Writer
      <4>2. Gap < last
        BY <2>1, <3>1 DEF SightOK
      <4>3. Gap < slo
        BY <3>3, <4>2, PhyConstants DEF InHand, ExactInv, PTypeOK
      <4> QED BY <3>1, <3>3, <4>1, <4>3 DEF SightOK, InHand
    <3> QED BY <2>1, <3>1, <3>2, <3>3, SightIs
  <2>2. CASE ~(lost = "fresh" /\ ~blind)
    <3>1. blind' = blind /\ (lost' = "missed" => lost = "missed" \/ lost = "fresh") /\ (lost' = "fresh" => lost = "fresh")
      BY <1>3 DEF Land
    <3> QED BY <2>2, <3>1 DEF SightOK, ExactInv, PTypeOK
  <2> QED BY <2>1, <2>2
<1>4. ASSUME NEW w \in Writer, Voids(w) PROVE SightOK'
  <2>1. lost' \in {"fresh", "void"} /\ blind' = blind /\ (lost' = "fresh" => blind)
    BY <1>4 DEF Voids, ExactInv, StageOK
  <2> QED BY <1>4, <2>1 DEF SightOK, ExactInv, PTypeOK
<1>5. ASSUME NEW w \in Writer, Loads(w) PROVE SightOK'
  BY <1>5 DEF Loads, SightOK, InHand, ExactInv, PTypeOK, Writer, chip, seq, smp, call, past
<1>6. ASSUME NEW w \in Writer, Stores(w) PROVE SightOK'
  <2>1. CASE w = "sampler"
    <3>1. ~(lost = "fresh" /\ ~blind)
      BY <1>6, <2>1 DEF Stores, SightOK
    <3>2. blind' = blind /\ (lost' = "missed" => lost = "missed") /\ (lost' = "fresh" => lost = "fresh")
      BY <1>6 DEF Stores
    <3> QED BY <3>1, <3>2 DEF SightOK, ExactInv, PTypeOK
  <2>2. CASE w = "reset"
    <3>1. lost = "void"
      BY <1>6, <2>2 DEF Stores, ExactInv, StageOK
    <3>2. lost' = "no"
      BY <1>6, <3>1 DEF Stores
    <3> QED BY <3>2 DEF SightOK
  <2> QED BY <2>1, <2>2 DEF Writer
<1>7. CASE ResetBegins
  BY <1>7 DEF ResetBegins, SightOK
<1>8. CASE BoardReset
  <2>1. fenced /\ blind /\ blind' = blind
    BY <1>8 DEF BoardReset, ExactInv, StageOK, past
  <2> QED BY <2>1 DEF SightOK
<1>9. CASE LinkUp
  BY <1>9 DEF LinkUp, SightOK, InHand, ExactInv, PTypeOK, Writer, chip, seq, smp, call, past
<1>10. CASE ResetFails
  BY <1>10 DEF ResetFails, SightOK, InHand, ExactInv, PTypeOK, Writer, chip, seq, smp, call, past
<1>11. CASE Latches
  BY <1>11 DEF Latches, SightOK, InHand, ExactInv, PTypeOK, Writer, chip, seq, smp, call, past
<1>12. CASE Reopen
  BY <1>12 DEF Reopen, SightOK, InHand, ExactInv, PTypeOK, Writer, chip, seq, smp, call, past
<1>13. CASE Passes
  BY <1>13 DEF Passes, SightOK, InHand, chip, seq, smp, past
<1>14. CASE ChipRestarts
  <2>1. /\ boot' = clock /\ at' = at /\ last' = last /\ valid' = valid /\ slo' = slo /\ sat' = sat /\ pc' = pc
        /\ stale' = (pc["sampler"] = "write")
    BY <1>14 DEF ChipRestarts, seq
  <2>2. at <= clock
    BY DEF ExactInv, SampleOK
  <2>3. CASE lost = "no"
    <3>1. lost' = "fresh" /\ (~blind' => InSight)
      BY <1>14, <2>3 DEF ChipRestarts
    <3>2. ASSUME InSight
          PROVE  /\ valid /\ pc["sampler"] \in {"idle", "write"} /\ Gap < last /\ last < Lap - MaxStep
                 /\ pc["sampler"] = "write" => last <= slo /\ slo < Lap - MaxStep /\ sat <= clock
      BY <2>3, <3>2, InSightIs
    <3> QED BY <2>1, <2>2, <3>1, <3>2 DEF SightOK, InHand
  <2>4. CASE lost = "fresh"
    <3>1. lost' = "fresh" /\ blind' = blind
      BY <1>14, <2>4 DEF ChipRestarts
    <3>2. pc["sampler"] = "write" /\ ~stale /\ ~blind => slo <= Gap
      BY <2>4, SightIs
    <3>3. InHand => InHand'
      <4>1. sat <= boot /\ boot <= clock => sat <= clock
        BY DEF ExactInv, PTypeOK
      <4>2. boot <= clock
        BY DEF ExactInv, SampleOK
      <4> QED BY <2>1, <4>1, <4>2 DEF InHand
    <3>4. pc["sampler"] = "write" /\ ~blind => InHand' \/ slo <= Gap
      <4>1. pc["sampler"] = "write" /\ ~blind /\ stale => InHand \/ slo <= Gap
        BY <2>4 DEF SightOK
      <4> QED BY <3>2, <3>3, <4>1
    <3>5. ~blind => /\ valid /\ pc["sampler"] \in {"idle", "write", "void"}
                    /\ pc["sampler"] # "void" => Gap < last /\ last < Lap - MaxStep
      BY <2>4 DEF SightOK
    <3> QED BY <2>1, <2>2, <3>1, <3>4, <3>5 DEF SightOK
  <2>5. CASE lost \in {"missed", "void"}
    <3>1. blind' = TRUE
      BY <1>14, <2>5 DEF ChipRestarts
    <3> QED BY <3>1 DEF SightOK
  <2> QED BY <2>3, <2>4, <2>5 DEF ExactInv, PTypeOK
<1>15. CASE UNCHANGED pvars
  BY <1>15 DEF pvars, chip, seq, smp, call, past, SightOK, InHand, ExactInv, PTypeOK, Writer
<1> QED BY <1>1, <1>2, <1>3, <1>4, <1>5, <1>6, <1>7, <1>8, <1>9, <1>10, <1>11, <1>12, <1>13, <1>14, <1>15
  DEF PNext, Writes

LEMMA LatchStep ==
  ASSUME ExactInv, LatchOK, Sampled, [PNext]_pvars
  PROVE  LatchOK'
<1>1. ASSUME NEW r \in Caller, Calls(r) PROVE LatchOK'
  BY <1>1, CallFrame DEF LatchOK, ExactInv, PTypeOK, Writer, chip, seq, smp, call, past
<1>2. CASE Sample
  BY <1>2 DEF Sample, Now, LatchOK, ExactInv, PTypeOK, Writer, chip, seq, smp, call, past
<1>3. CASE Land
  <2>1. /\ joined' = joined /\ sess' = sess /\ gen' = gen /\ pc'["reset"] = pc["reset"]
        /\ (lost' = "no" <=> lost = "no")
    BY <1>3 DEF Land, ExactInv, PTypeOK, Writer
  <2> QED BY <2>1 DEF LatchOK
<1>4. ASSUME NEW w \in Writer, Voids(w) PROVE LatchOK'
  <2>1. /\ joined' = joined /\ sess' = sess /\ gen' = gen /\ lost' # "no"
        /\ w = "sampler" => pc'["reset"] = pc["reset"]
        /\ w = "reset" => pc'["reset"] = "load"
    BY <1>4 DEF Voids, ExactInv, PTypeOK, Writer
  <2>2. w = "sampler" => lost # "no" /\ pc["reset"] \notin {"load", "store", "latch"}
    BY <1>4 DEF Voids, ExactInv, StageOK
  <2> QED BY <2>1, <2>2 DEF LatchOK, Writer
<1>5. ASSUME NEW w \in Writer, Loads(w) PROVE LatchOK'
  BY <1>5 DEF Loads, LatchOK, ExactInv, PTypeOK, Writer, chip, seq, smp, call, past
<1>6. ASSUME NEW w \in Writer, Stores(w) PROVE LatchOK'
  <2>1. gen' = gen + 1 /\ sess' = sess /\ joined' = joined
    BY <1>6 DEF Stores, ExactInv, StageOK
  <2>2. joined => w = "reset"
    <3>1. ASSUME w = "sampler", joined PROVE FALSE
      BY <1>6, <3>1 DEF Stores, LatchOK, ExactInv, StageOK
    <3> QED BY <3>1 DEF Writer
  <2>3. w = "reset" => pc'["reset"] = "latch"
    BY <1>6 DEF Stores, ExactInv, PTypeOK
  <2> QED BY <2>1, <2>2, <2>3 DEF LatchOK, ExactInv, PTypeOK
<1>7. CASE ResetBegins
  <2>1. joined' = FALSE /\ sess' = sess /\ gen' = gen /\ lost' # "no"
    BY <1>7 DEF ResetBegins
  <2> QED BY <2>1 DEF LatchOK
<1>8. CASE BoardReset
  BY <1>8 DEF BoardReset, LatchOK, ExactInv, PTypeOK, Writer, chip, seq, smp, call, past
<1>9. CASE LinkUp
  BY <1>9 DEF LinkUp, LatchOK, ExactInv, PTypeOK, Writer, chip, seq, smp, call, past
<1>10. CASE ResetFails
  BY <1>10 DEF ResetFails, LatchOK, ExactInv, PTypeOK, Writer, chip, seq, smp, call, past
<1>11. CASE Latches
  <2>1. sess' = gen /\ gen' = gen /\ (joined' <=> lost = "no") /\ lost' = lost
    BY <1>11 DEF Latches
  <2> QED BY <2>1 DEF LatchOK, ExactInv, PTypeOK
<1>12. CASE Reopen
  <2>1. sess' = gen /\ gen' = gen /\ (joined' <=> lost = "no") /\ lost' = lost
    BY <1>12 DEF Reopen
  <2> QED BY <2>1 DEF LatchOK, ExactInv, PTypeOK
<1>13. CASE Passes
  BY <1>13 DEF Passes, LatchOK, ExactInv, PTypeOK, Writer, chip, seq, smp, call, past
<1>14. CASE ChipRestarts
  <2>1. joined' = FALSE /\ sess' = sess /\ gen' = gen /\ lost' # "no"
    BY <1>14 DEF ChipRestarts
  <2> QED BY <2>1 DEF LatchOK
<1>15. CASE UNCHANGED pvars
  BY <1>15 DEF pvars, chip, seq, smp, call, past, LatchOK, ExactInv, PTypeOK, Writer
<1> QED BY <1>1, <1>2, <1>3, <1>4, <1>5, <1>6, <1>7, <1>8, <1>9, <1>10, <1>11, <1>12, <1>13, <1>14, <1>15
  DEF PNext, Writes

LEMMA PhyInvariant == ASSUME Sampled PROVE PSpec => []PhyInv
<1>1. PInit => PhyInv
  <2>1. SUFFICES ASSUME PInit PROVE PhyInv
    OBVIOUS
  <2>2. ExactInv
    BY <2>1, ExactInit
  <2>3. SightOK /\ LatchOK
    BY <2>1 DEF PInit, SightOK, LatchOK
  <2> QED BY <2>2, <2>3 DEF PhyInv
<1>2. PhyInv /\ [PNext]_pvars => PhyInv'
  BY ExactStep, SightStep, LatchStep DEF PhyInv
<1> QED BY <1>1, <1>2, PTL DEF PSpec

\* A restart nobody commanded is noticed by the first sample behind it, where a
\* sample can show it.
THEOREM RestartsSeen == ASSUME Sampled PROVE PSpec => []RestartSeen
<1>1. PhyInv => RestartSeen
  BY DEF PhyInv, SightOK, RestartSeen
<1> QED BY <1>1, PhyInvariant, PTL

\* The verbs' gate refuses a session exactly when the chip restarted under it.
THEOREM GateHonest == ASSUME Sampled PROVE PSpec => []GateTruth
<1>1. ASSUME PhyInv, lost = "no", \A w \in Writer : pc[w] \in {"idle", "write"}
      PROVE  sess = gen <=> joined
  <2>1. pc["reset"] \in {"idle", "write"}
    BY <1>1 DEF Writer
  <2>2. joined => sess = gen
    BY <1>1, <2>1 DEF PhyInv, LatchOK
  <2>3. ~joined => sess < gen
    BY <1>1 DEF PhyInv, LatchOK
  <2>4. sess \in Nat /\ gen \in Nat /\ joined \in BOOLEAN
    BY <1>1 DEF PhyInv, ExactInv, PTypeOK
  <2> QED BY <2>2, <2>3, <2>4
<1>2. PhyInv => GateTruth
  BY <1>1 DEF GateTruth, Told, PhyInv, SightOK
<1> QED BY <1>2, PhyInvariant, PTL
=============================================================================
