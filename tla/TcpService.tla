----------------------------- MODULE TcpService -----------------------------
(***************************************************************************)
(* One TCP service of rfnm_eth.c: its accept thread, its workers and the   *)
(* life of the connection sockets they share.  The control service has one *)
(* worker; the data service has two, one per direction, on the same        *)
(* socket.  Nobody may free a socket another thread is inside recvmsg or   *)
(* sendmsg on, so a replaced connection is retired (dead_sock) and freed   *)
(* by its workers: by the control worker between commands, by the second   *)
(* of the data workers to notice (dead_users).                             *)
(*                                                                         *)
(* Sections under conn_lock are one step.  Bytes are abstracted to the     *)
(* connection a half-received header or frame began on; the pool slot it   *)
(* is received into is module TxPool's.                                    *)
(***************************************************************************)
EXTENDS Naturals, FiniteSets

CONSTANTS Sock,    \* the connections clients make
          No       \* NULL

ASSUME NoAssumption == No \notin Sock /\ IsFiniteSet(Sock)

VARIABLES
  kind,      \* "ctrl" or "data", as the service was created
  running,   \* svc->running
  st,        \* each socket: "new" (nobody accepted it), "open", "shut" by
             \* either end, "freed"
  conn,      \* svc->conn_sock
  dead,      \* svc->dead_sock
  users,     \* svc->dead_users
  wstep,     \* where each worker is
  held,      \* its sock
  part,      \* the connection its half-received header or frame is from
  cstep,     \* where the accept thread and the unload are
  old,       \* old_sock of their close_connection_safe
  hand       \* the accept thread's newsock

svcvars == <<kind, running, st, conn, dead, users, wstep, held, part, cstep, old, hand>>
service == <<conn, dead, users>>
worker  == <<wstep, held, part>>
closer  == <<cstep, old, hand>>

Worker  == {"ctrl", "ingest", "sender"}
Closer  == {"accept", "unload"}
Serving == IF kind = "ctrl" THEN {"ctrl"} ELSE {"ingest", "sender"}

SvcTypeOK ==
  /\ kind \in {"ctrl", "data"} /\ running \in BOOLEAN
  /\ st \in [Sock -> {"new", "open", "shut", "freed"}]
  /\ conn \in Sock \cup {No} /\ dead \in Sock \cup {No} /\ users \in 0..2
  /\ wstep \in [Worker -> {"top", "take", "io", "drop", "free", "exit", "gone"}]
  /\ held \in [Worker -> Sock \cup {No}]
  /\ part \in Sock \cup {No} /\ hand \in Sock \cup {No}
  /\ cstep \in [Closer -> {"loop", "close", "wait", "wire", "accept", "workers", "gone"}]
  /\ old \in [Closer -> Sock \cup {No}]

SvcInit ==
  /\ kind \in {"ctrl", "data"} /\ running = TRUE
  /\ st = [s \in Sock |-> "new"]
  /\ conn = No /\ dead = No /\ users = 0
  /\ wstep = [w \in Worker |-> "top"]
  /\ held = [w \in Worker |-> No] /\ part = No
  /\ cstep = [c \in Closer |-> "loop"] /\ old = [c \in Closer |-> No] /\ hand = No

At(w, p) == w \in Serving /\ wstep[w] = p
To(w, p) == wstep' = [wstep EXCEPT ![w] = p]
Holds(w, s) == held' = [held EXCEPT ![w] = s]
Mark(S, m) == st' = [s \in Sock |-> IF s \in S THEN m ELSE st[s]]

(***************************************************************************)
(* close_connection_safe, by the accept thread and by the unload.          *)
(***************************************************************************)

Closed(c) == IF c = "accept" THEN "wire" ELSE "accept"

\* The connection is detached and shut down, which wakes its workers.
Detach(c) ==
  /\ cstep[c] = "close"
  /\ IF conn = No
     THEN cstep' = [cstep EXCEPT ![c] = Closed(c)] /\ UNCHANGED <<old, conn, st>>
     ELSE /\ cstep' = [cstep EXCEPT ![c] = "wait"]
          /\ old' = [old EXCEPT ![c] = conn] /\ conn' = No
          /\ Mark({conn} \ {s \in Sock : st[s] = "freed"}, "shut")
  /\ UNCHANGED <<kind, running, dead, users, worker, hand>>

\* 500 ms: longer than a worker takes between two instructions, not longer
\* than it may be blocked or busy with a command.
Patience == \A w \in Serving : wstep[w] \notin {"drop", "free"}

\* Mutant: waits until the workers have reaped the previous connection.
RetireForever(c) ==
  /\ cstep[c] = "wait"
  /\ dead = No
  /\ dead' = old[c] /\ users' = IF kind = "data" THEN 2 ELSE 0
  /\ cstep' = [cstep EXCEPT ![c] = Closed(c)] /\ old' = [old EXCEPT ![c] = No]
  /\ UNCHANGED <<kind, running, st, conn, worker, hand>>

\* It becomes the dead socket once the previous one is reaped, or in its
\* place: then the previous one is leaked.
Retire(c) ==
  /\ cstep[c] = "wait"
  /\ dead = No \/ Patience
  /\ dead' = old[c] /\ users' = IF kind = "data" THEN 2 ELSE 0
  /\ cstep' = [cstep EXCEPT ![c] = Closed(c)] /\ old' = [old EXCEPT ![c] = No]
  /\ UNCHANGED <<kind, running, st, conn, worker, hand>>

(***************************************************************************)
(* The accept thread.                                                      *)
(***************************************************************************)

Accept(s) ==
  /\ cstep["accept"] = "loop" /\ running /\ st[s] = "new"
  /\ hand' = s /\ Mark({s}, "open")
  /\ cstep' = [cstep EXCEPT !["accept"] = "close"]
  /\ UNCHANGED <<kind, running, service, worker, old>>

\* A new data connection also flushes the TX staging (module TxPool).
Wire ==
  /\ cstep["accept"] = "wire"
  /\ conn' = hand /\ hand' = No
  /\ cstep' = [cstep EXCEPT !["accept"] = "loop"]
  /\ UNCHANGED <<kind, running, st, dead, users, worker, old>>

\* The service stops, or accept fails: the thread returns.
AcceptEnds ==
  /\ cstep["accept"] = "loop"
  /\ cstep' = [cstep EXCEPT !["accept"] = "gone"]
  /\ UNCHANGED <<kind, running, st, service, worker, old, hand>>

\* The client closes, or the connection breaks.
PeerCloses(s) ==
  /\ st[s] = "open"
  /\ Mark({s}, "shut")
  /\ UNCHANGED <<kind, running, service, worker, closer>>

(***************************************************************************)
(* The workers.                                                            *)
(***************************************************************************)

Loop(w) ==
  /\ At(w, "top")
  /\ To(w, IF running THEN "take" ELSE "exit")
  /\ UNCHANGED <<kind, running, st, service, held, part, closer>>

\* The control worker frees the retired connection and takes the current one.
CtrlTake ==
  /\ At("ctrl", "take")
  /\ Mark({dead} \cap Sock, "freed") /\ dead' = No
  /\ Holds("ctrl", conn)
  /\ To("ctrl", IF conn = No THEN "top" ELSE "io")
  /\ UNCHANGED <<kind, running, conn, users, part, closer>>

\* A command comes in and is answered, or a bad one is ignored.
CtrlCommand ==
  /\ At("ctrl", "io") /\ st[held["ctrl"]] = "open"
  /\ To("ctrl", "top") /\ Holds("ctrl", No)
  /\ UNCHANGED <<kind, running, st, service, part, closer>>

\* Mutant: frees its socket without asking whether it is still the current one.
CtrlLostFrees ==
  /\ At("ctrl", "io") /\ st[held["ctrl"]] # "open"
  /\ conn' = IF conn = held["ctrl"] THEN No ELSE conn
  /\ Mark({held["ctrl"]}, "freed")
  /\ To("ctrl", "top") /\ Holds("ctrl", No)
  /\ UNCHANGED <<kind, running, dead, users, part, closer>>

\* The header does not come: the worker frees the connection unless it has
\* been retired meanwhile.
CtrlLost ==
  /\ At("ctrl", "io") /\ st[held["ctrl"]] # "open"
  /\ IF conn = held["ctrl"]
     THEN conn' = No /\ Mark({conn}, "freed")
     ELSE UNCHANGED <<conn, st>>
  /\ To("ctrl", "top") /\ Holds("ctrl", No)
  /\ UNCHANGED <<kind, running, dead, users, part, closer>>

\* One of the two data workers lets go of dead; the second frees it.
LetGo(w) ==
  IF held[w] # No /\ held[w] # conn /\ held[w] = dead
  THEN /\ users' = users - 1
       /\ IF users = 1 THEN Mark({dead}, "freed") /\ dead' = No
                       ELSE UNCHANGED <<st, dead>>
  ELSE UNCHANGED <<users, st, dead>>

\* Mutant: a worker with a frame half received stays to finish it.
TrackAtFrameEnd(w) ==
  /\ At(w, "take") /\ w # "ctrl"
  /\ IF w = "ingest" /\ part # No /\ held[w] # conn
     THEN UNCHANGED <<users, st, dead, held>> /\ To(w, "io")
     ELSE LetGo(w) /\ Holds(w, conn) /\ To(w, IF conn = No THEN "top" ELSE "io")
  /\ UNCHANGED <<kind, running, conn, part, closer>>

\* tcp_worker_track_sock; the ingest worker drops a half-received frame with
\* the connection it came from.
Track(w) ==
  /\ At(w, "take") /\ w # "ctrl"
  /\ LetGo(w)
  /\ Holds(w, conn)
  /\ part' = IF w = "ingest" /\ held[w] # conn THEN No ELSE part
  /\ To(w, IF conn = No THEN "top" ELSE "io")
  /\ UNCHANGED <<kind, running, conn, closer>>

\* A batch of RX packets is sent, wholly or not; its buffers are given back.
SendBatch ==
  /\ At("sender", "io") /\ To("sender", "top")
  /\ UNCHANGED <<kind, running, st, service, held, part, closer>>

\* Whatever has arrived is received; the last header or frame may be partial.
Ingest ==
  /\ At("ingest", "io")
  /\ part' \in {No, held["ingest"], part}
  /\ To("ingest", "top")
  /\ UNCHANGED <<kind, running, st, service, held, closer>>

\* The peer has closed: the ingest worker retires the connection itself, if
\* no other is being retired, ...
IngestEnd ==
  /\ At("ingest", "io") /\ st[held["ingest"]] # "open"
  /\ part' = No
  /\ IF conn = held["ingest"]
     THEN /\ conn' = No
          /\ IF dead = No THEN dead' = conn /\ users' = 2
                          ELSE UNCHANGED <<dead, users>>
     ELSE UNCHANGED service
  /\ To("ingest", "drop")
  /\ UNCHANGED <<kind, running, st, held, closer>>

\* ... and lets go of it outside the lock, ...
IngestDrop ==
  /\ At("ingest", "drop")
  /\ IF dead = held["ingest"]
     THEN users' = users - 1 /\ To("ingest", IF users = 1 THEN "free" ELSE "top")
     ELSE UNCHANGED users /\ To("ingest", "top")
  /\ Holds("ingest", No)
  /\ UNCHANGED <<kind, running, st, conn, dead, part, closer>>

\* ... freeing whatever is dead if it was the last.
IngestFree ==
  /\ At("ingest", "free")
  /\ Mark({dead} \cap Sock, "freed") /\ dead' = No
  /\ To("ingest", "top")
  /\ UNCHANGED <<kind, running, conn, users, held, part, closer>>

Exit(w) ==
  /\ At(w, "exit")
  /\ Holds(w, No) /\ To(w, "gone")
  /\ part' = IF w = "ingest" THEN No ELSE part
  /\ UNCHANGED <<kind, running, st, service, closer>>

(***************************************************************************)
(* destroy_tcp_service: stop, close, wait for the threads, free the rest.  *)
(***************************************************************************)
Destroy ==
  /\ cstep["unload"] = "loop"
  /\ running' = FALSE
  /\ cstep' = [cstep EXCEPT !["unload"] = "close"]
  /\ UNCHANGED <<kind, st, service, worker, old, hand>>

StopAccept ==
  /\ cstep["unload"] = "accept" /\ cstep["accept"] = "gone"
  /\ cstep' = [cstep EXCEPT !["unload"] = "workers"]
  /\ UNCHANGED <<kind, running, st, service, worker, old, hand>>

StopWorkers ==
  /\ cstep["unload"] = "workers" /\ \A w \in Serving : wstep[w] = "gone"
  /\ Mark({dead, conn} \cap Sock, "freed") /\ dead' = No /\ conn' = No
  /\ cstep' = [cstep EXCEPT !["unload"] = "gone"]
  /\ UNCHANGED <<kind, running, users, worker, old, hand>>

WorkerNext(w) ==
  \/ Loop(w) \/ Track(w) \/ Exit(w)
  \/ w = "ctrl" /\ (CtrlTake \/ CtrlLost)
  \/ w = "sender" /\ SendBatch
  \/ w = "ingest" /\ (Ingest \/ IngestEnd \/ IngestDrop \/ IngestFree)

CloserNext(c) == Detach(c) \/ Retire(c) \/ (c = "accept" /\ Wire)

SvcNext ==
  \/ \E s \in Sock : Accept(s) \/ PeerCloses(s)
  \/ \E w \in Worker : WorkerNext(w)
  \/ \E c \in Closer : CloserNext(c)
  \/ CtrlCommand \/ AcceptEnds
  \/ Destroy \/ StopAccept \/ StopWorkers

\* Threads run, a timed wait ends, a send ends.  Nothing is assumed of the
\* clients: the control worker may wait for a command for ever.
Fairness ==
  /\ \A w \in Worker : WF_svcvars(WorkerNext(w))
  /\ \A c \in Closer : WF_svcvars(CloserNext(c))

SvcSpec == SvcInit /\ [][SvcNext]_svcvars /\ Fairness

(***************************************************************************)
(* Properties.                                                             *)
(***************************************************************************)

\* NothingFreed: no socket is freed while the service, a closer or a worker
\* can still reach it, so none is used after it is freed or freed twice,
\* although two threads retire connections, three free them, and the retired
\* one can be replaced before its workers have let go (rfnm_eth.c:269, :500).
NothingFreed ==
  \A s \in Sock : st[s] = "freed" =>
    /\ s \notin {conn, dead, hand}
    /\ \A w \in Serving : held[w] # s
    /\ \A c \in Closer : old[c] # s

\* Rewired: the accept thread gets back to accepting, although the race of a
\* retirement with workers that have already let go leaves a dead socket
\* nobody will reap (rfnm_eth.c:277).
Rewired == cstep["accept"] = "close" ~> cstep["accept"] = "loop"

\* Adopted: a client that was let in is served by every worker, or is
\* replaced, or the service stops (rfnm_eth.c:507).
Adopted ==
  \A s \in Sock : conn = s ~> ~running \/ conn # s \/ \A w \in Serving : held[w] = s

=============================================================================
