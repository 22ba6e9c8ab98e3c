----------------------------- MODULE MCChipTime -----------------------------
(***************************************************************************)
(* What lives on the chip's counter, checked in one run: the transmit      *)
(* windows and the absolute time.  They share no state, so a behaviour is  *)
(* one of either and not an interleaving; of the time, one with calls and  *)
(* a single trouble, or a longer one of the chip's lives without calls.    *)
(***************************************************************************)
EXTENDS WindowPump, PhyTime

CONSTANT CallClock \* bound: how long callers call

VARIABLE side

MCInit == Init /\ PInit /\ side \in {"window", "calls", "lives"}

Windows == side = "window" /\ Next /\ UNCHANGED <<pvars, side>>

CallsToTime ==
  /\ side = "calls" /\ PNext /\ clock' <= CallClock /\ trouble' <= 1 /\ opens' = 0
  /\ UNCHANGED <<vars, side>>

Lives ==
  /\ side = "lives" /\ PNext /\ \A r \in Caller : rpc'[r] = "idle"
  /\ UNCHANGED <<vars, side>>

MCNext == Windows \/ CallsToTime \/ Lives

MCSpec == MCInit /\ [][MCNext]_<<vars, pvars, side>>
=============================================================================
