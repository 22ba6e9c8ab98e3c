--------------------------- MODULE FlaggedStream ---------------------------
(***************************************************************************)
(* What an RX lane promises its client: packets are numbered without gaps, *)
(* and a packet either continues its predecessor's samples, or says that   *)
(* it does not - by its DISCONT flag or by a new stream epoch.  A restart  *)
(* of the stream keeps the numbers, and only the first packet behind it    *)
(* may change the time unannounced.                                        *)
(***************************************************************************)
EXTENDS Integers

CONSTANTS Lane, NoPkt

VARIABLES
  last,   \* per lane: header of the last packet handed to the transport
  anew    \* lanes that have handed over none since the stream restarted

Continues(p, q) == q.pt = p.pt + p.elems
Announced(p, q) == q.flag \/ q.epoch # p.epoch \/ Continues(p, q)
Follows(l, p, q) == q.cc = p.cc + 1 /\ (l \in anew \/ Announced(p, q))

Init == last = [l \in Lane |-> NoPkt] /\ anew = {}

Emit(l) ==
  /\ \A k \in Lane \ {l} : last'[k] = last[k]
  /\ last'[l] # NoPkt
  /\ last[l] # NoPkt => Follows(l, last[l], last'[l])
  /\ anew' = anew \ {l}

Restart == anew' = Lane /\ UNCHANGED last

Next == Restart \/ \E l \in Lane : Emit(l)

Spec == Init /\ [][Next]_<<last, anew>>
=============================================================================
