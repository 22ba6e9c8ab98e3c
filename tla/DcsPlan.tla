------------------------------ MODULE DcsPlan ------------------------------
(***************************************************************************)
(* The clock planner of rfnm_lalib.c: from a sample rate and the streaming *)
(* directions to one DCS frequency and the decimation and interpolation    *)
(* rungs that reach it.  Frequencies are in units of 125 Hz, so that every *)
(* product below 200 MHz * 2^9 stays an integer TLC can hold; the driver's *)
(* own uint64_t arithmetic cannot overflow on these values either.         *)
(***************************************************************************)
EXTENDS Naturals

MHz(f) == f * 8000

DcsMax == MHz(200)
DcsMin == MHz(100)

\* hwinfo's sample-rate limits: 195375 Hz and 160 MHz.
RateMin == 1563
RateMax == MHz(160)

NoPlan == [dcs |-> 0, rx |-> <<0, 0>>, tx |-> <<0, 0>>, fdx |-> FALSE]
InWindow(f) == DcsMin <= f /\ f <= DcsMax

\* An RX rung decimates by 2^k behind a divide-by-2 (d = 1) or not (d = 0).
\* The first pass holds deep rungs to a 100 MHz clock.
RxRung(r, pass, k, d) ==
  LET f == r * 2^(k + d)
  IN  /\ InWindow(f)
      /\ IF d = 1 THEN k >= 3 /\ (k >= 6 /\ pass = 0 => f <= MHz(100))
                  ELSE k <= 3

RxRungs(r, pass) == {x \in (0..8) \X {0, 1} : RxRung(r, pass, x[1], x[2])}

\* Deepest first, the divided variant before the plain one.
Deepest(S) == CHOOSE x \in S : \A y \in S : 2 * x[1] + x[2] >= 2 * y[1] + y[2]

PlanRx(r) ==
  LET S == IF RxRungs(r, 0) # {} THEN RxRungs(r, 0) ELSE RxRungs(r, 1)
  IN  IF S = {} THEN NoPlan
      ELSE LET x == Deepest(S)
           IN  [NoPlan EXCEPT !.dcs = r * 2^(x[1] + x[2]), !.rx = <<x[2], x[1]>>]

\* TX alone: the shallowest interpolation that lands in the window, or the
\* undivided clock.
TxRungs(r) == {u \in 0..8 : InWindow(r * 2^(u + 1))}

PlanTx(r) ==
  IF TxRungs(r) # {}
  THEN LET u == CHOOSE v \in TxRungs(r) : \A w \in TxRungs(r) : v <= w
       IN  [NoPlan EXCEPT !.dcs = r * 2^(u + 1), !.tx = <<1, u>>]
  ELSE IF InWindow(r) THEN [NoPlan EXCEPT !.dcs = r] ELSE NoPlan

\* Both at once: the matched rung on a blessed clock if a kernel can do it,
\* else divide-by-2 each way.
PlanBoth(r, fdx) ==
  IF fdx /\ r * 4 \in {MHz(100), 983040}
  THEN [dcs |-> r * 4, rx |-> <<1, 1>>, tx |-> <<1, 1>>, fdx |-> TRUE]
  ELSE IF InWindow(r * 2)
  THEN [dcs |-> r * 2, rx |-> <<1, 0>>, tx |-> <<1, 0>>, fdx |-> FALSE]
  ELSE NoPlan

\* rfnm_la9310_plan; nothing enabled is planned like RX.
Plan(r, dirs, fdx) ==
  IF dirs = {"rx", "tx"} THEN PlanBoth(r, fdx)
  ELSE IF dirs = {"tx"} THEN PlanTx(r)
  ELSE PlanRx(r)

\* The si5510 driver (kernel tree) synthesises whole kilohertz.
Synthesizable(f) == f % 8 = 0

\* Mutant: the synthesizer is not asked.
RateOkInRange(r) == RateMin <= r /\ r <= RateMax /\ PlanRx(r) # NoPlan

\* rfnm_la9310_samp_rate_ok, behind rfnm_set_samp_rate_user's range check.
RateOk(r) ==
  /\ RateMin <= r /\ r <= RateMax
  /\ PlanRx(r) # NoPlan /\ Synthesizable(PlanRx(r).dcs)

=============================================================================
