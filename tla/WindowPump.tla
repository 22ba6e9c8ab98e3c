----------------------------- MODULE WindowPump -----------------------------
(***************************************************************************)
(* The windowed transmit path of rfnm_lalib.c: the RT command ring whose   *)
(* entries the M4 turns into gate edges, the queue of windows and the pump *)
(* that posts them one at a time to the VSPA, its hrtimer, and the word    *)
(* that ends the session while the transmit thread is inside a call.       *)
(*                                                                         *)
(* Time is the true tick; the code sees it modulo Wrap (2^32) and compares *)
(* by the sign of the difference.                                          *)
(***************************************************************************)
EXTENDS Integers, Sequences

CONSTANTS
    Wrap,       \* the phy timer counts modulo Wrap
    Start,      \* first tick of a behaviour
    MaxNow,     \* bound on time
    QLen,       \* RFNM_VWIN_QLEN
    Entries,    \* RFNM_RTC_RING_ENTRIES
    Setup,      \* RFNM_VWIN_SETUP_MARGIN_TICKS
    Margin,     \* RFNM_VWIN_CLOSE_MARGIN_TICKS
    Defer,      \* the 20 us retry on a full mailbox
    WinLen,     \* length of a window
    MaxLead,    \* how far ahead a window may open
    MaxWindows  \* bound on the windows of a behaviour

ASSUME WindowAssumption ==
    /\ {Start, MaxNow, Setup, Margin} \subseteq Nat /\ Start =< MaxNow
    /\ {Wrap, QLen, Entries, Defer, WinLen, MaxLead, MaxWindows}
           \subseteq Nat \ {0}

VARIABLES
    now, fence,
    magic, prod, cons, \* RT ring header: armed, producer and consumer count
    m4,        \* the M4 has seen the ring armed
    latched,   \* tx_state bit 5: the firmware runs a windowed session
    q,         \* rfnm_vwin_q from cons to prod: open ticks
    busy,      \* rfnm_vwin_busy_until, or None when not valid
    next,      \* rfnm_vwin_next_ns, as a delay in ticks (0: none)
    timer,     \* expiry of rfnm_vwin_timer, or None
    cb,        \* timer callback: "off", or "out" of the lock, before return
    mbx, held, \* VSPA: window in the mailbox, window it holds (or None)
    tx, cur,   \* transmit thread inside rfnm_la9310_tx_window; its window
    end,       \* where the teardown word stands
    made,      \* windows handed to the pump so far
    stalled,   \* history: the last pump met the fence
    stray      \* history: a window was posted with no session latched

ring  == <<magic, prod, cons, m4>>
pump  == <<q, busy, next, timer, cb>>
vspa  == <<mbx, held, latched>>
txth  == <<tx, cur, made>>
hist  == <<stalled, stray>>
vars  == <<now, fence, ring, pump, vspa, txth, end, hist>>

None     == -1
Close(w) == w + WinLen

(* (int32_t)(a - b) > 0                                                    *)
After(a, b) == LET d == (a - b) % Wrap IN d > 0 /\ d < Wrap \div 2

Held    == busy # None /\ After(busy, now)
Late(w) == After(now, w - Setup)

-----------------------------------------------------------------------------
(* rfnm_vwin_pump on a queue: late heads are dropped, the first one in time*)
(* is posted, what is left waits for its close.                            *)
LateHeads(s) ==
    CHOOSE k \in 0..Len(s) :
        /\ \A i \in 1..k : Late(s[i])
        /\ k < Len(s) => ~Late(s[k + 1])

Rest(s) == SubSeq(s, LateHeads(s) + 1, Len(s))

\* mutant: the mark is the window's opening, not its close
PostOpen(s) ==
    /\ mbx' = s[1] /\ busy' = s[1] + Margin
    /\ q' = Tail(s)
    /\ next' = IF Len(s) > 1 THEN s[1] + Margin - now ELSE 0
    /\ stray' = (stray \/ ~latched)

Post(s) ==
    /\ mbx' = s[1] /\ busy' = Close(s[1]) + Margin
    /\ q' = Tail(s)
    /\ next' = IF Len(s) > 1 THEN Close(s[1]) + Margin - now ELSE 0
    /\ stray' = (stray \/ ~latched)

Pump(s) ==
    \/ /\ s = <<>> \/ fence
       /\ q' = s /\ next' = 0 /\ stalled' = fence
       /\ UNCHANGED <<busy, mbx, stray>>
    \/ /\ s # <<>> /\ ~fence /\ Held
       /\ q' = s /\ next' = (busy - now) % Wrap /\ stalled' = FALSE
       /\ UNCHANGED <<busy, mbx, stray>>
    \/ /\ s # <<>> /\ ~fence /\ ~Held /\ stalled' = FALSE
       /\ \/ Rest(s) # <<>> /\ mbx = None /\ Post(Rest(s))
          \/ /\ Rest(s) = <<>> \/ mbx # None
             /\ q' = Rest(s)
             /\ next' = IF Rest(s) = <<>> THEN 0 ELSE Defer
             /\ UNCHANGED <<busy, mbx, stray>>

-----------------------------------------------------------------------------
(* The RT command ring. Arming resets the producer's count; the M4 resets  *)
(* its own when it sees the ring armed.                                    *)
Full == (prod - cons) % Wrap >= Entries

RtcArm ==
    /\ ~fence /\ ~magic
    /\ magic' = TRUE /\ prod' = 0
    /\ UNCHANGED <<cons, m4>>

RtcDisarm == magic' = (magic /\ fence) /\ UNCHANGED <<prod, cons, m4>>

RtcPush == ~fence /\ magic /\ ~Full /\ prod' = prod + 1 /\ UNCHANGED <<magic, cons, m4>>

(* The arm verb of the client, before its apply.                           *)
ArmVerb ==
    /\ end = "idle"
    /\ RtcArm
    /\ UNCHANGED <<now, fence, pump, vspa, txth, end, hist>>

(* The apply of a TX word with the ring armed: the firmware starts over in *)
(* windowed mode.                                                          *)
ApplyWindowed ==
    /\ end = "idle" /\ ~latched /\ magic /\ latched' = TRUE
    /\ mbx' = None /\ held' = None
    /\ UNCHANGED <<now, fence, ring, pump, txth, end, hist>>

-----------------------------------------------------------------------------
(* rfnm_la9310_tx_window: fence, latch and queue room; the gate entry; then*)
(* the queue, the pump and the timer in one hold of the lock.              *)
TxWindow(open) ==
    /\ tx = "idle" /\ made < MaxWindows
    /\ made' = made + 1
    /\ \/ /\ ~fence /\ latched /\ Len(q) < QLen
          /\ tx' = "push" /\ cur' = open
       \/ /\ fence \/ ~latched \/ Len(q) >= QLen
          /\ UNCHANGED <<tx, cur>>
    /\ UNCHANGED <<now, fence, ring, pump, vspa, end, hist>>

TxPush ==
    /\ tx = "push"
    /\ \/ RtcPush /\ tx' = "queue"
       \/ /\ fence \/ ~magic \/ Full
          /\ tx' = "idle" /\ UNCHANGED ring
    /\ UNCHANGED <<now, fence, pump, vspa, cur, made, end, hist>>

\* mutant: the timer is left to the callback
TxQueueNoTimer ==
    /\ tx = "queue" /\ tx' = "idle"
    /\ Pump(Append(q, cur))
    /\ UNCHANGED <<now, fence, ring, held, latched, cb, timer, cur, made, end>>

TxQueue ==
    /\ tx = "queue" /\ tx' = "idle"
    /\ Pump(Append(q, cur))
    /\ timer' = IF next' # 0 THEN now + next' ELSE timer
    /\ UNCHANGED <<now, fence, ring, held, latched, cb, cur, made, end>>

(* rfnm_vwin_timer_fn: the delay is read again after the lock is dropped; a*)
(* timer started meanwhile keeps its expiry.                               *)
TimerFires ==
    /\ timer # None /\ now >= timer /\ cb = "off"
    /\ cb' = "out" /\ timer' = None
    /\ Pump(q)
    /\ UNCHANGED <<now, fence, ring, held, latched, txth, end>>

TimerReturns ==
    /\ cb = "out" /\ cb' = "off"
    /\ timer' = IF timer = None /\ next # 0 THEN now + next ELSE timer
    /\ UNCHANGED <<now, fence, ring, q, busy, next, vspa, txth, end, hist>>

(* The word that ends a windowed session: the firmware unlatches the mode, *)
(* then rfnm_vwin_reset cancels the timer (waiting for its callback) and   *)
(* drops the queue, then the ring is disarmed.                             *)
Teardown ==
    \/ /\ end = "idle" /\ latched
       /\ latched' = FALSE /\ end' = "cancel"
       /\ UNCHANGED <<ring, pump>>
    \/ /\ end = "cancel" /\ cb = "off"
       /\ timer' = None /\ end' = "drop"
       /\ UNCHANGED <<ring, q, busy, next, cb, latched>>
    \/ /\ end = "drop" /\ end' = "disarm"
       /\ q' = <<>> /\ busy' = None /\ next' = 0
       /\ UNCHANGED <<ring, timer, cb, latched>>
    \/ /\ end = "disarm" /\ end' = "idle"
       /\ RtcDisarm
       /\ UNCHANGED <<pump, latched>>

EndSession ==
    /\ Teardown
    /\ UNCHANGED <<now, fence, mbx, held, txth, hist>>

-----------------------------------------------------------------------------
(* The chip: the M4 follows the ring, the VSPA takes a window from the     *)
(* mailbox and is done with it at its close.                               *)
M4Serves ==
    /\ \/ magic # m4 /\ m4' = magic /\ cons' = IF magic THEN 0 ELSE cons
       \/ m4 /\ magic /\ cons < prod /\ cons' = cons + 1 /\ UNCHANGED m4
    /\ UNCHANGED <<now, fence, magic, prod, pump, vspa, txth, end, hist>>

VspaTakes ==
    /\ mbx # None /\ held' = mbx /\ mbx' = None
    /\ UNCHANGED <<now, fence, ring, pump, latched, txth, end, hist>>

Tick ==
    /\ now < MaxNow /\ now' = now + 1
    /\ held' = IF held # None /\ now' >= Close(held) THEN None ELSE held
    /\ UNCHANGED <<fence, ring, pump, mbx, latched, txth, end, hist>>

FenceMoves ==
    /\ fence' = ~fence
    /\ UNCHANGED <<now, ring, pump, vspa, txth, end, hist>>

Init ==
    /\ now = Start /\ fence = FALSE
    /\ magic = FALSE /\ prod = 0 /\ cons = 0 /\ m4 = FALSE
    /\ latched = FALSE /\ q = <<>> /\ busy = None /\ next = 0
    /\ timer = None /\ cb = "off" /\ mbx = None /\ held = None
    /\ tx = "idle" /\ cur = None /\ end = "idle" /\ made = 0
    /\ stalled = FALSE /\ stray = FALSE

(* Windows come in the order of their ticks, one after another.            *)
Opens == {w \in now..(now + MaxLead) : cur = None \/ w >= Close(cur)}

Next ==
    \/ ArmVerb \/ ApplyWindowed
    \/ \E open \in Opens : TxWindow(open)
    \/ TxPush \/ TxQueue
    \/ TimerFires \/ TimerReturns
    \/ EndSession
    \/ M4Serves \/ VspaTakes \/ Tick \/ FenceMoves

Spec == Init /\ [][Next]_vars

-----------------------------------------------------------------------------
TypeOK ==
    /\ now \in Start..MaxNow
    /\ {fence, magic, m4, latched, stalled, stray} \subseteq BOOLEAN
    /\ prod \in Nat /\ cons \in Nat
    /\ q \in Seq(Nat) /\ Len(q) =< QLen
    /\ busy \in Nat \cup {None} /\ next \in Nat /\ timer \in Nat \cup {None}
    /\ cb \in {"off", "out"} /\ tx \in {"idle", "push", "queue"}
    /\ {mbx, held, cur} \subseteq Nat \cup {None}
    /\ end \in {"idle", "cancel", "drop", "disarm"}

(* The VSPA holds one window at a time: the mailbox never brings one while *)
(* an earlier one has not closed, whoever ran the pump and in what order.  *)
OneWindow == (mbx # None /\ held # None /\ latched) => now >= Close(held)

(* The pump holds a window back only while the one before it is open.      *)
PacedTruth == (q # <<>> /\ Held) => now < busy

(* No queued window waits for nothing. Somebody will look at it: the timer *)
(* is armed, or its callback is on its way to arm it (a pump that met the  *)
(* fence is the code's exception, until the next window); and it is held   *)
(* back only while the one before it is open.                              *)
Woken ==
    /\ (q # <<>> /\ ~stalled /\ end # "drop")
           => timer # None \/ (cb = "out" /\ next # 0)
    /\ PacedTruth

(* A window is posted only to a firmware that has latched the windowed     *)
(* session.                                                                *)
NoStray == ~stray
=============================================================================
