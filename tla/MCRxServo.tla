----------------------------- MODULE MCRxServo -----------------------------
(***************************************************************************)
(* The settings the client of RxServo_loops.cfg asks for: a receiver at    *)
(* low gain, one with AGC that watches the loopback on another frequency   *)
(* and filter, one half of TDD; a transmitter on the port, one half of TDD *)
(* and one into the loopback.                                              *)
(***************************************************************************)
EXTENDS RxServo

Rx(e, f, l, g, p, a) ==
  [enable |-> e, freq |-> f, lpf |-> l, gain |-> g, dc |-> FALSE, path |-> p, agc |-> a]

MCRxConf == {Rx("on", 1, 1, Low, "sma", FALSE), Rx("on", 2, 0, High, "loop", TRUE),
             Rx("tdd", 1, 1, Low, "sma", FALSE)}

MCTxConf == {[enable |-> "on", freq |-> 1, path |-> "sma"],
             [enable |-> "tdd", freq |-> 1, path |-> "sma"],
             [enable |-> "on", freq |-> 1, path |-> "loop"]}

=============================================================================
