-------------------------- MODULE SessionService ---------------------------
(***************************************************************************)
(* What the session layer promises the control plane, without its locks,   *)
(* workers and chip: a request is asked for, commits (a restart by         *)
(* resetting the boards, a reset by bringing the chip back), and is done   *)
(* with a result.  A restart that fails never reset anything.  A session   *)
(* may lapse at any time; only a restart that committed, or a commanded    *)
(* chip reset, makes verbs acceptable again.  Module Session implements    *)
(* this specification and module Control is written against it.            *)
(***************************************************************************)

VARIABLES job,   \* each job is "idle", "asked", "committed" or "done"
          res0,  \* its result is 0 (TRUE while it has none)
          ok     \* rfnm_phy_gen_session_ok answers 1

ssvars == <<job, res0, ok>>

Restarts == {"work", "call"}
Resets   == {"hard", "apply"}
Jobs     == Restarts \cup Resets

SSTypeOK ==
  /\ job \in [Jobs -> {"idle", "asked", "committed", "done"}]
  /\ res0 \in [Jobs -> BOOLEAN]
  /\ ok \in BOOLEAN

SSInit ==
  /\ job = [j \in Jobs |-> "idle"]
  /\ res0 = [j \in Jobs |-> TRUE]
  /\ ok = TRUE

Becomes(j, s, r) == job' = [job EXCEPT ![j] = s] /\ res0' = [res0 EXCEPT ![j] = r]

Ask(j) ==
  /\ job[j] = "idle"
  /\ Becomes(j, "asked", TRUE)
  /\ UNCHANGED ok

Commit(j) ==
  /\ job[j] = "asked"
  /\ Becomes(j, "committed", TRUE)
  /\ UNCHANGED ok

\* A kernel swap that failed commits too: the workers start either way.
CommitBadly ==
  /\ job["apply"] = "asked"
  /\ Becomes("apply", "committed", FALSE)
  /\ UNCHANGED ok

\* The job ends without having done anything.
Abort(j) ==
  /\ job[j] = "asked"
  /\ Becomes(j, "done", FALSE)
  /\ UNCHANGED ok

\* A restart ends with the session accepted, a reset leaves it as it is.
Done(j) ==
  /\ job[j] = "committed"
  /\ Becomes(j, "done", res0[j])
  /\ ok' = (ok \/ j \in Restarts)

\* The session that commanded the reset is carried over.
CarryOver(j) ==
  /\ j \in Resets /\ job[j] = "committed"
  /\ ok' = TRUE
  /\ UNCHANGED <<job, res0>>

Take(j) ==
  /\ job[j] = "done"
  /\ Becomes(j, "idle", TRUE)
  /\ UNCHANGED ok

Lapse == ok /\ ok' = FALSE /\ UNCHANGED <<job, res0>>

SSNext ==
  \/ \E j \in Jobs : Ask(j) \/ Commit(j) \/ Abort(j) \/ Done(j) \/ CarryOver(j) \/ Take(j)
  \/ CommitBadly \/ Lapse

SSSpec == SSInit /\ [][SSNext]_ssvars
=============================================================================
