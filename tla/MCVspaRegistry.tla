---------------------------- MODULE MCVspaRegistry ----------------------------
(* Three image files for VspaRegistry: the base image, an update of it     *)
(* under the same name, and one with an extra capability.                  *)
EXTENDS VspaRegistry

MCFiles ==
    {[name |-> "base", caps |-> {"rx"}, rank |-> 1, secs |-> <<"pram">>],
     [name |-> "base", caps |-> {"rx", "tx"}, rank |-> 1, secs |-> <<"pram">>],
     [name |-> "deep", caps |-> {"rx", "tx"}, rank |-> 2,
      secs |-> <<"cmdbuff", "pram">>]}
MCBaseCaps == {"rx"}

\* One image whose update no longer is a base image: a chip reset then leaves
\* the core to the legacy file.
MCUpdate ==
    {[name |-> "base", caps |-> {"rx"}, rank |-> 1, secs |-> <<"pram">>],
     [name |-> "base", caps |-> {"tx"}, rank |-> 1, secs |-> <<"pram">>]}
=============================================================================
