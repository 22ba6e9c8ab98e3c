----------------------------- MODULE ShivaProofs -----------------------------
(***************************************************************************)
(* Proofs about the two parts of la9310shiva, which share no state. Of     *)
(* Endpoint, for any number of rescans: no outage without the fence, no    *)
(* teardown under a running handler, and no failed probe that keeps the    *)
(* next one from succeeding. Of VspaRegistry, for any image files, registry*)
(* size and number of boots: the loader has the DMA channel to itself, the *)
(* running mark names the image in the core, and an apply that succeeds    *)
(* leaves the capabilities its plan asked for.                             *)
(***************************************************************************)
EXTENDS Endpoint, VspaRegistry, FiniteSetTheorems, SequenceTheorems,
        WellFoundedInduction, TLAPS

(***************************************************************************)
(* The inductive invariant of Endpoint.                                    *)
(***************************************************************************)
Begun   == {"none", "p_enable"}
SysfsPc == {"p_stats", "p_rtos", "p_booting", "p_irq", "p_mux", "p_hsirq", "p_handshake",
            "p_waiting", "p_ipc", "p_vspa", "bound", "d_vspa", "d_ipc", "d_irq", "d_hs", "d_sysfs",
            "r_scratch", "r_ipc", "r_vspa", "r_irq", "r_mux", "r_hs", "r_sysfs"}
MuxPc   == {"p_hsirq", "p_handshake", "p_waiting", "p_ipc", "p_vspa", "bound", "d_vspa",
            "d_ipc", "d_irq", "d_hs", "r_scratch", "r_ipc", "r_vspa", "r_irq", "r_mux"}

\* what every stage has for certain, ...
HasOK ==
  /\ pc \in Begun => held = {}
  /\ pc \notin Begun => "enabled" \in held
  /\ pc \notin Begun \cup {"p_bar0", "p_regions"} => "regions" \in held
  /\ pc \notin Begun \cup {"p_bar0", "p_regions", "p_priv"} => "priv" \in held
  /\ pc \notin Begun \cup {"p_bar0", "p_regions", "p_priv", "p_map"} => "bars" \in held
  /\ pc \notin Begun \cup {"p_bar0", "p_regions", "p_priv", "p_map", "p_msi"} => "vectors" \in held
  /\ pc \in SysfsPc => "sysfs" \in held
  /\ pc \in (SysfsPc \ {"p_stats", "d_sysfs"}) \cup {"r_stats"} => "stats" \in held
  /\ pc \in (MuxPc \ {"d_hs", "r_mux"}) \cup {"p_mux"} => MuxState \subseteq held
  /\ pc \in MuxPc => "muxirq" \in held
  /\ pc \in {"bound", "r_scratch", "r_ipc", "r_vspa"} => {"vspadev", "vspairq"} \subseteq held

\* ... and what only some stages can have: what a later probe needs is gone
\* by the time its owner is freed
MayOK ==
  /\ "class" \notin held
  /\ "regions" \in held => pc \notin {"p_bar0", "p_regions"}
  /\ "priv" \in held => pc \notin {"p_bar0", "p_regions", "p_priv"}
  /\ "sysfs" \in held => pc \in SysfsPc
  /\ "muxirq" \in held => pc \in MuxPc
  /\ "hsirq" \in held => pc \in (MuxPc \ {"p_hsirq"}) \cup {"r_hs"}
  /\ "ipcdev" \in held => pc \in {"p_vspa", "bound", "d_vspa", "d_ipc", "r_scratch", "r_ipc"}
  /\ "vspairq" \in held => pc \in {"bound", "d_vspa", "r_scratch", "r_ipc", "r_vspa"}
                           /\ "vspadev" \in held
  /\ "scratch" \in held => pc \in (SysfsPc \ {"r_ipc", "r_vspa", "r_irq", "r_mux", "r_hs",
                                              "r_sysfs"}) \cup {"p_sysfs", "d_scratch"}

\* where probe and remove can be at each stage of a reprobe
WhereOK ==
  /\ mod = "out" => pc = "none"
  /\ rp # "idle" => mod = "in"
  /\ rp \in {"quiesce", "remove"} => pc \in Ended
  /\ rp = "removing" => pc \in RemovePc \cup {"none"}
  /\ rp \in {"rcoff", "reset", "rcon", "recover", "retry", "lift", "lift_err", "rescan",
             "lastscan"} => pc = "none"
  /\ rp \in {"rcoff", "reset", "rcon", "recover", "retry", "lift", "lift_err"} => bus = "empty"

\* the fence and the link at each stage
FenceOK ==
  /\ ~link => (fence \/ lost) /\ pc = "none" /\ bus = "empty"
  /\ lost => ~link /\ ~fence /\ rp = "idle"
  /\ rp \in {"quiesce", "remove", "removing", "rcoff", "lift", "lift_err"} => link /\ fence
  /\ rp \in {"reset", "rcon", "recover", "retry"} => ~link
  /\ rp \in {"idle", "rescan", "verify", "lastscan", "lastwait"} => (fence <=> ~link /\ ~lost)

\* who may be in the window
InsideOK ==
  /\ fence => acc # "in"
  /\ handler = "in" => "muxirq" \in held
  /\ reader = "in" => "sysfs" \in held
  /\ fd = "live" => "ipcdev" \in held
  /\ mod = "out" => acc = "out"
  /\ rp \in {"remove", "removing"} => handler = "out"

EInv == TypeOK /\ Retryable /\ HasOK /\ MayOK /\ WhereOK /\ FenceOK /\ InsideOK

LEMMA EndpointInitInv == Init => EInv
<1> SUFFICES ASSUME Init PROVE EInv
  OBVIOUS
<1> USE MaxTriesAssumption DEF Init
<1>1. TypeOK
  <2>1. tries \in 0..MaxTries
    OBVIOUS
  <2> QED BY <2>1 DEF TypeOK, Ended
<1>2. Retryable
  BY DEF Retryable
<1>3. HasOK /\ MayOK
  BY DEF HasOK, MayOK, Begun, SysfsPc, MuxPc
<1>4. WhereOK /\ FenceOK /\ InsideOK
  BY DEF WhereOK, FenceOK, InsideOK, Ended
<1> QED BY <1>1, <1>2, <1>3, <1>4 DEF EInv

(***************************************************************************)
(* The probe, and its ways out of the first stages.                        *)
(***************************************************************************)
LEMMA FirstStagesInv ==
  ASSUME EInv, EnableDevice \/ FixBar0Window \/ RequestRegions \/ PrivInit
               \/ MapMemRegions \/ SetInterruptCapability
  PROVE  EInv'
<1> USE DEF EInv, EnableDevice, FixBar0Window, RequestRegions, PrivInit, MapMemRegions,
        SetInterruptCapability, Take, Finish, Silent, Quiet, pci, ipc, who, chip
<1>1. TypeOK'
  <2>1. pc' \in Ended \cup ProbePc
    BY DEF TypeOK, Ended, ProbePc
  <2>2. held' \subseteq Resources /\ left' \subseteq Resources
    BY DEF TypeOK, Resources
  <2>3. wrong' \subseteq Resources
    BY DEF TypeOK, HasOK, Resources, Begun
  <2> QED BY <2>1, <2>2, <2>3 DEF TypeOK
<1>2. Retryable'
  <2>1. left' \cap Exclusive = {}
    <3>1. left \cap Exclusive = {}
      BY DEF Retryable, WhereOK
    <3>2. held \cap Exclusive \subseteq {"enabled", "regions", "priv"}
      BY DEF MayOK, SysfsPc, MuxPc, Exclusive
    <3>3. \/ left' = left \/ left' = {} \/ left' = {"vectors"}
          \/ (left' \subseteq held /\ "enabled" \notin left' /\ "regions" \notin left' /\ "priv" \notin left')
      BY DEF MayOK
    <3> QED BY <3>1, <3>2, <3>3 DEF Exclusive
  <2>2. wrong' \subseteq {"scratch", "hsirq", "vspairq"}
    BY DEF Retryable, HasOK, Begun
  <2> QED BY <2>1, <2>2 DEF Retryable
<1>3. HasOK'
  BY DEF HasOK, Begun, SysfsPc, MuxPc
<1>4. MayOK'
  BY DEF MayOK, HasOK, SysfsPc, MuxPc, Begun
<1>5. WhereOK' /\ FenceOK'
  BY DEF WhereOK, FenceOK, Ended, RemovePc
<1>6. InsideOK'
  BY DEF InsideOK, MayOK, SysfsPc, MuxPc, HasOK, Begun
<1> QED BY <1>1, <1>2, <1>3, <1>4, <1>5, <1>6

LEMMA BaseProbeInv ==
  ASSUME EInv, ScratchDmaBuf \/ InitSysfs \/ RegisterEpStats \/ LoadRtosImg
               \/ WaitForBootScratch \/ ProbeIrqMux \/ RequestIrq
               \/ RequestHandshakeIrq \/ ResetHandshake \/ IpcProbe \/ VspaProbe
  PROVE  EInv'
<1> USE DEF EInv, ScratchDmaBuf, InitSysfs, RegisterEpStats, LoadRtosImg, WaitForBootScratch,
        ProbeIrqMux, RequestIrq, RequestHandshakeIrq, ResetHandshake, IpcProbe, VspaProbe,
        Take, Drop, Silent, Quiet, pci, ipc, who, chip
<1>1. TypeOK'
  <2>1. pc' \in ProbePc \cup DeinitPc \cup Ended
    BY DEF Ended, ProbePc, DeinitPc
  <2>2. held' \subseteq Resources /\ left' \subseteq Resources /\ wrong' \subseteq Resources
    BY DEF TypeOK, Resources, MuxState
  <2>3. atu' \subseteq Windows /\ boot' \in {"rom", "loading", "clock", "host", "init"}
        /\ masked' \in BOOLEAN
    BY DEF TypeOK, Windows
  <2> QED BY <2>1, <2>2, <2>3 DEF TypeOK
<1>2. Retryable'
  BY DEF Retryable, HasOK, MuxPc, SysfsPc, MuxState
<1>3. HasOK'
  <2>1. CASE ScratchDmaBuf \/ InitSysfs \/ RegisterEpStats \/ LoadRtosImg \/ WaitForBootScratch
    BY <2>1 DEF HasOK, Begun, SysfsPc, MuxPc
  <2>2. CASE ProbeIrqMux
    BY <2>2 DEF HasOK, Begun, SysfsPc, MuxPc, MuxState
  <2>3. CASE RequestIrq
    BY <2>3 DEF HasOK, Begun, SysfsPc, MuxPc, MuxState
  <2>4. CASE RequestHandshakeIrq \/ ResetHandshake \/ IpcProbe \/ VspaProbe
    BY <2>4 DEF HasOK, Begun, SysfsPc, MuxPc
  <2> QED BY <2>1, <2>2, <2>3, <2>4
<1>4. MayOK'
  BY DEF MayOK, SysfsPc, MuxPc, MuxState
<1>5. WhereOK' /\ FenceOK'
  BY DEF WhereOK, FenceOK, Ended, RemovePc
<1>6. InsideOK'
  BY DEF InsideOK, MuxState
<1> QED BY <1>1, <1>2, <1>3, <1>4, <1>5, <1>6

(***************************************************************************)
(* The teardowns.                                                          *)
(***************************************************************************)
LEMMA DeinitInv == ASSUME EInv, Deinit PROVE EInv'
<1> USE DEF EInv, Deinit, DeinitSubdrv, Subdrv, CutClient, DeinitIrq, DeinitSysfs, DeinitScratch, ProbeFailed,
        Drop, Finish, VspaRel, IpcRel, Silent, Quiet, pci, ipc, who, chip
<1>1. TypeOK'
  <2>1. pc' \in DeinitPc \cup Ended
    BY DEF DeinitPc, Ended
  <2>2. held' \subseteq Resources /\ left' \subseteq Resources /\ wrong' \subseteq Resources
    BY DEF TypeOK, Resources, MuxState
  <2> QED BY <2>1, <2>2 DEF TypeOK
<1>2. Retryable'
  <2>1. left' \cap Exclusive = {}
    <3>1. left \cap Exclusive = {}
      BY DEF Retryable, WhereOK
    <3>2. CASE left' = left
      BY <3>1, <3>2
    <3>3. CASE left' # left
      <4>1. ProbeFailed
        BY <3>3
      <4>2. held \cap Exclusive \subseteq {"enabled", "regions", "priv"}
        BY <4>1 DEF MayOK, SysfsPc, MuxPc, Exclusive
      <4> QED BY <4>1, <4>2
    <3> QED BY <3>2, <3>3
  <2>2. wrong' \subseteq {"scratch", "hsirq", "vspairq"}
    BY DEF Retryable, HasOK, Begun, SysfsPc, MuxPc, MuxState
  <2> QED BY <2>1, <2>2 DEF Retryable
<1>3. HasOK'
  BY DEF HasOK, Begun, SysfsPc, MuxPc, MuxState
<1>4. MayOK'
  BY DEF MayOK, SysfsPc, MuxPc, MuxState
<1>5. WhereOK' /\ FenceOK'
  BY DEF WhereOK, FenceOK, Ended, RemovePc
<1>6. InsideOK'
  BY DEF InsideOK, MayOK, SysfsPc, MuxPc, MuxState
<1> QED BY <1>1, <1>2, <1>3, <1>4, <1>5, <1>6

LEMMA RemoveInv == ASSUME EInv, Remove PROVE EInv'
<1> USE DEF EInv, Remove, BaseRemoveSubdrv, Subdrv, CutClient, BaseRemoveIrq, BaseRemoveSysfs, PcidevRemove,
        Drop, Finish, VspaRel, IpcRel, Silent, Quiet, pci, ipc, who, chip
<1>1. TypeOK'
  <2>1. pc' \in RemovePc \cup Ended
    BY DEF RemovePc, Ended
  <2>2. held' \subseteq Resources /\ left' \subseteq Resources /\ wrong' \subseteq Resources
    BY DEF TypeOK, Resources, MuxState
  <2> QED BY <2>1, <2>2 DEF TypeOK
<1>2. Retryable'
  <2>1. left' \cap Exclusive = {}
    <3>1. left \cap Exclusive = {}
      BY DEF Retryable, WhereOK, RemovePc
    <3>2. CASE left' = left
      BY <3>1, <3>2
    <3>3. CASE left' # left
      <4>1. PcidevRemove
        BY <3>3
      <4>2. held \cap Exclusive \subseteq {"enabled", "regions", "priv"}
        BY <4>1 DEF MayOK, SysfsPc, MuxPc, Exclusive
      <4> QED BY <4>1, <4>2
    <3> QED BY <3>2, <3>3
  <2>2. wrong' \subseteq {"scratch", "hsirq", "vspairq"}
    BY DEF Retryable, HasOK, Begun, SysfsPc, MuxPc, MuxState
  <2> QED BY <2>1, <2>2 DEF Retryable
<1>3. HasOK'
  BY DEF HasOK, Begun, SysfsPc, MuxPc, MuxState
<1>4. MayOK'
  BY DEF MayOK, SysfsPc, MuxPc, MuxState
<1>5. WhereOK' /\ FenceOK'
  BY DEF WhereOK, FenceOK, Ended, RemovePc
<1>6. InsideOK'
  BY DEF InsideOK, MayOK, SysfsPc, MuxPc, MuxState
<1> QED BY <1>1, <1>2, <1>3, <1>4, <1>5, <1>6

(***************************************************************************)
(* Module load and unload.                                                 *)
(***************************************************************************)
LEMMA ModuleInv == ASSUME EInv, ModInit \/ ModExit PROVE EInv'
<1> USE DEF EInv, ModInit, ModExit, pci, ipc, who, chip
<1>1. TypeOK'
  <2>1. left' \subseteq Resources
    BY DEF TypeOK, Resources
  <2>2. pc' \in {pc, "p_enable", "none", "r_scratch"}
    OBVIOUS
  <2>3. {fence', link', lost', masked'} \subseteq BOOLEAN
    BY DEF TypeOK
  <2>4. UNCHANGED <<held, wrong, rp, tries, bus, who, chip>> /\ mod' \in {"in", "out"}
    BY DEF TypeOK
  <2> QED BY <2>1, <2>2, <2>3, <2>4 DEF TypeOK, Ended, ProbePc, RemovePc
<1>2. Retryable'
  <2>1. CASE left' = left /\ mod' = mod
    BY <2>1 DEF Retryable
  <2>2. CASE left' = left /\ mod' # mod
    <3>1. left \cap Exclusive \subseteq {"class"} /\ (mod' = "in" => "class" \notin left)
      BY <2>2 DEF Retryable
    <3> QED BY <2>2, <3>1 DEF Retryable
  <2>3. CASE left' # left
    <3>1. left' \cap Exclusive \subseteq {"class"} /\ mod' = "out"
      BY <2>3 DEF Exclusive
    <3> QED BY <3>1 DEF Retryable
  <2> QED BY <2>1, <2>2, <2>3
<1>3. HasOK' /\ MayOK'
  BY DEF HasOK, MayOK, WhereOK, Begun, SysfsPc, MuxPc
<1>4. WhereOK' /\ FenceOK'
  <2>1. WhereOK'
    BY DEF WhereOK, Ended, RemovePc
  <2>2. CASE UNCHANGED <<fence, lost>>
    <3>1. rp' = rp /\ link' = link /\ bus' = bus /\ (~link => pc' = pc)
      BY DEF FenceOK, WhereOK
    <3>2. FenceOK
      OBVIOUS
    <3> QED BY ONLY <2>1, <2>2, <3>1, <3>2 DEF FenceOK
  <2>3. CASE fence' = FALSE /\ lost' = ~link /\ rp = "idle"
    <3>1. rp' = rp /\ link' = link /\ bus' = bus /\ (~link => pc' = pc /\ bus = "empty")
      BY <2>3 DEF FenceOK, WhereOK
    <3>2. FenceOK
      OBVIOUS
    <3> QED BY ONLY <2>1, <2>3, <3>1, <3>2 DEF FenceOK
  <2> QED BY <2>1, <2>2, <2>3
<1>5. InsideOK'
  BY DEF InsideOK
<1> QED BY <1>1, <1>2, <1>3, <1>4, <1>5

(***************************************************************************)
(* The hard reprobe: it changes the stage of probe or remove and nothing   *)
(* the endpoint has.                                                       *)
(***************************************************************************)
LEMMA ReprobeInv == ASSUME EInv, RaiseFence \/ HardReprobe PROVE EInv'
<1> USE DEF EInv, HardReprobe, RaiseFence, QuiesceEndpointIrqs, RemoveRootPort, SuspendRc,
        BoardReset, ResumeRc, LiftFence, Rescan, RescanAndVerify, RecoverRescan, Reprobe, ipc, who
<1>1. TypeOK'
  <2>1. pc' \in {pc, "r_scratch", "p_enable"}
    OBVIOUS
  <2>2. tries' \in 0..MaxTries
    BY MaxTriesAssumption DEF TypeOK
  <2>3. atu' \subseteq Windows
    BY DEF TypeOK
  <2> QED BY <2>1, <2>2, <2>3 DEF TypeOK, ProbePc, RemovePc
<1>2. Retryable'
  BY DEF Retryable
<1>3. HasOK' /\ MayOK'
  BY DEF HasOK, MayOK, WhereOK, Begun, SysfsPc, MuxPc
<1>4. WhereOK'
  BY DEF WhereOK, Ended, RemovePc
<1>5. FenceOK'
  BY DEF FenceOK, WhereOK, TypeOK, InsideOK
<1>6. InsideOK'
  BY DEF InsideOK, WhereOK, FenceOK, TypeOK, MayOK, MuxPc, Ended
<1> QED BY <1>1, <1>2, <1>3, <1>4, <1>5, <1>6

(***************************************************************************)
(* The handler, the accessors, the firmware and the IPC clients.           *)
(***************************************************************************)
LEMMA OthersInv ==
  ASSUME EInv, IrqHandler \/ FencedAccess \/ ShowVspaInfo \/ Firmware
               \/ IpcOpen \/ IpcRelease \/ IpcWindow
               \/ RegisterIpcChannelIrq \/ DeregisterIpcChannelIrq \/ ModInitRefused
  PROVE  EInv'
<1> USE DEF EInv, IrqHandler, FencedAccess, ShowVspaInfo, Firmware, IpcOpen, IpcRelease,
        IpcWindow, RegisterIpcChannelIrq, DeregisterIpcChannelIrq, ModInitRefused, Others,
        vars, drv, pci, ipc, who, chip
<1>1. TypeOK'
  <2>1. handler' \in {"out", "in"} /\ acc' \in {"out", "in", "old"} /\ reader' \in {"out", "in"}
        /\ fd' \in {"none", "live", "stale"} /\ ioctl' \in {"out", "in"}
    BY DEF TypeOK
  <2>2. atu' \subseteq Windows /\ boot' \in {"rom", "loading", "clock", "host", "init"}
    BY DEF TypeOK, Windows
  <2>3. held' \subseteq Resources
    BY DEF TypeOK, Resources
  <2>4. UNCHANGED <<mod, pc, left, wrong, rp, tries, fence, link, lost, bus, masked>>
    OBVIOUS
  <2> QED BY <2>1, <2>2, <2>3, <2>4 DEF TypeOK
<1>2. Retryable'
  <2>1. UNCHANGED <<mod, left, wrong>>
    OBVIOUS
  <2>2. Retryable
    OBVIOUS
  <2> HIDE DEF EInv
  <2> QED BY ONLY <2>1, <2>2 DEF Retryable
<1>3. HasOK' /\ MayOK'
  <2>1. held' \in {held, held \cup {"ipcirq"}, held \ {"ipcirq"}} /\ pc' = pc
        /\ (held' # held => "ipcdev" \in held)
    BY DEF InsideOK
  <2>2. pc \in Begun => held' = {}
    BY <2>1 DEF HasOK
  <2>3. \A r \in Resources \ {"ipcirq"} : r \in held' <=> r \in held
    BY <2>1
  <2>4. HasOK /\ MayOK
    OBVIOUS
  <2> HIDE DEF EInv
  <2>5. HasOK'
    BY ONLY <2>1, <2>2, <2>3, <2>4 DEF HasOK, Resources, MuxState, MuxPc, SysfsPc, Begun
  <2>6. MayOK'
    BY ONLY <2>1, <2>3, <2>4 DEF MayOK, Resources
  <2> QED BY <2>5, <2>6
<1>4. WhereOK' /\ FenceOK'
  BY DEF WhereOK, FenceOK
<1>5. InsideOK'
  BY DEF InsideOK, FenceOK
<1> QED BY <1>1, <1>2, <1>3, <1>4, <1>5

LEMMA EndpointStepInv == EInv /\ [Next]_vars => EInv'
<1> SUFFICES ASSUME EInv, [Next]_vars PROVE EInv'
  OBVIOUS
<1>1. CASE UNCHANGED vars
  BY <1>1 DEF vars, drv, pci, ipc, who, chip, EInv, TypeOK, Retryable, HasOK, MayOK, WhereOK,
     FenceOK, InsideOK
<1>2. CASE Probe
  BY <1>2, FirstStagesInv, BaseProbeInv DEF Probe
<1> QED BY <1>1, <1>2, DeinitInv, RemoveInv, ReprobeInv, ModuleInv, OthersInv DEF Next

LEMMA EndpointInvariant == Spec => []EInv
BY EndpointInitInv, EndpointStepInv, PTL DEF Spec

\* Type correctness of the endpoint's life cycle.
THEOREM EndpointTypes == Spec => []TypeOK
<1>1. EInv => TypeOK
  BY DEF EInv
<1> QED BY <1>1, EndpointInvariant, PTL

\* OutageFenced: on every path of a reprobe, failing ones included, nobody
\* who checks the fence after it was raised reaches over a dead link.
THEOREM OutagesFenced == Spec => []OutageFenced
<1>1. EInv => OutageFenced
  BY DEF EInv, OutageFenced, FenceOK, InsideOK, HasOK, MayOK, MuxPc, SysfsPc, Begun, TypeOK
<1> QED BY <1>1, EndpointInvariant, PTL

\* QuietTeardown: a reprobe frees the multiplexer's state only when no handler
\* works on it and none can enter.
THEOREM TeardownsQuiet == Spec => []QuietTeardown
<1>1. EInv => QuietTeardown
  BY DEF EInv, QuietTeardown, InsideOK
<1> QED BY <1>1, EndpointInvariant, PTL

\* Retryable: whatever stage of a probe fails, what the next probe needs to
\* take has been given back.
THEOREM ProbesRetryable == Spec => []Retryable
<1>1. EInv => Retryable
  BY DEF EInv
<1> QED BY <1>1, EndpointInvariant, PTL

-----------------------------------------------------------------------------
Image == [name : {f.name : f \in Files}, caps : SUBSET Caps, rank : Nat,
          secs : {f.secs : f \in Files}, blob : BOOLEAN]

(***************************************************************************)
(* The selection: the better of two providers is better in the order of    *)
(* capabilities, rank and place, so any set of them has a best one.        *)
(***************************************************************************)
LEMMA Least == ASSUME NEW S \in SUBSET Nat, S # {} PROVE \E v \in S : \A w \in S : v <= w
<1>1. PICK v \in S : \A w \in S : <<w, v>> \notin OpToRel(<, Nat)
  BY NatLessThanWellFounded, WFMin
<1>2. OpToRel(<, Nat) = {ss \in Nat \X Nat : ss[1] < ss[2]}
  BY Zenon DEF OpToRel
<1>3. ASSUME NEW R, R = OpToRel(<, Nat) PROVE \A w \in S : ~ (w < v)
  <2>1. R = {ss \in Nat \X Nat : ss[1] < ss[2]}
    BY <1>2, <1>3, Zenon
  <2>2. \A w \in S : <<w, v>> \notin R
    BY <1>1, <1>3, Zenon
  <2> QED BY <2>1, <2>2
<1>4. \A w \in S : ~ (w < v)
  BY <1>3
<1> QED BY <1>4

RegOK == reg \in Seq(Image) /\ \A i \in Indexes : IsFiniteSet(reg[i].caps)

LEMMA BestProvider ==
  ASSUME RegOK, NEW P \in SUBSET Indexes, P # {}
  PROVE  /\ \E i \in P : \A j \in P \ {i} : Better(i, j)
         /\ \E i \in P : \A j \in P \ {i} :
              \/ Cardinality(reg[i].caps) < Cardinality(reg[j].caps)
              \/ Cardinality(reg[i].caps) = Cardinality(reg[j].caps) /\ i < j
<1> DEFINE size(i) == Cardinality(reg[i].caps)
           rank(i) == reg[i].rank
<1>1. \A i \in P : size(i) \in Nat /\ rank(i) \in Nat /\ i \in Nat
  <2>1. \A i \in Indexes : reg[i] \in Image
    BY ElementOfSeq DEF RegOK, Indexes
  <2> QED BY <2>1, FS_CardinalityType DEF RegOK, Indexes, Image
<1>2. \A i, j \in P : Better(i, j) <=> \/ size(i) < size(j)
                                       \/ size(i) = size(j) /\ rank(i) < rank(j)
                                       \/ size(i) = size(j) /\ rank(i) = rank(j) /\ i < j
  BY DEF Better
<1> HIDE DEF size, rank
<1> DEFINE S1 == {size(i) : i \in P}
<1>3. PICK c \in S1 : \A i \in P : c <= size(i)
  <2>1. S1 \in SUBSET Nat /\ S1 # {} /\ \A i \in P : size(i) \in S1
    BY <1>1
  <2> HIDE DEF S1
  <2> QED BY <2>1, Least
<1> DEFINE P1 == {i \in P : size(i) = c}
           S2 == {rank(i) : i \in P1}
<1>4. PICK r \in S2 : \A i \in P1 : r <= rank(i)
  <2>1. S2 \in SUBSET Nat /\ S2 # {} /\ \A i \in P1 : rank(i) \in S2
    BY <1>1, <1>3
  <2> HIDE DEF S2
  <2> QED BY <2>1, Least
<1> DEFINE P2 == {i \in P1 : rank(i) = r}
<1>5. PICK k \in P2 : \A i \in P2 : k <= i
  BY <1>1, <1>3, <1>4, Least
<1>6. PICK m \in P1 : \A i \in P1 : m <= i
  BY <1>1, <1>3, Least
<1>7. \A j \in P \ {k} : Better(k, j)
  BY <1>1, <1>2, <1>3, <1>4, <1>5
<1>8. \A j \in P \ {m} : size(m) < size(j) \/ (size(m) = size(j) /\ m < j)
  BY <1>1, <1>3, <1>6
<1> QED BY <1>7, <1>8 DEF size

LEMMA SelectionIs ==
  ASSUME RegOK, run \in 0..Len(reg), NEW caps
  PROVE  /\ SelectFor(caps) \in 0..Len(reg) /\ Fewest(caps) \in 0..Len(reg)
         /\ SelectFor(caps) # 0 => Provides(SelectFor(caps), caps)
         /\ Fewest(caps) # 0 => Provides(Fewest(caps), caps)
<1> DEFINE P == {i \in Indexes : Provides(i, caps)}
<1>1. P \in SUBSET Indexes /\ Len(reg) \in Nat /\ Indexes = 1..Len(reg)
  BY DEF RegOK, Indexes
<1>2. CASE P = {}
  BY <1>1, <1>2 DEF SelectFor, Minimal, Fewest, Provides
<1>3. CASE P # {}
  <2>1. Minimal(caps) \in P
    <3>1. \E i \in P : \A j \in P \ {i} : Better(i, j)
      BY <1>1, <1>3, BestProvider
    <3> QED BY <1>3, <3>1 DEF Minimal
  <2>2. Fewest(caps) \in P
    <3>1. \E i \in P : \A j \in P \ {i} :
              \/ Cardinality(reg[i].caps) < Cardinality(reg[j].caps)
              \/ Cardinality(reg[i].caps) = Cardinality(reg[j].caps) /\ i < j
      BY <1>1, <1>3, BestProvider
    <3> QED BY <1>3, <3>1 DEF Fewest
  <2> QED BY <1>1, <2>1, <2>2 DEF SelectFor
<1> QED BY <1>2, <1>3

(***************************************************************************)
(* The inductive invariant of VspaRegistry.                                *)
(***************************************************************************)
Booting == {"park", "sleep", "load", "sections", "go", "boot", "ack", "booted"}

CoreOK ==
  core \in [st : {"parked", "busy", "boot0", "boot1", "gone"}, img : LegacyImage \cup SUBSET Caps]

\* the loader is busy from its sleep to its end, and then has the channel
BusyOK ==
  /\ bt \in Booting \ {"park"} => busy
  /\ ChannelExclusive

\* whose boot it is; within the bound
WhoOK ==
  /\ ap = "swapping" <=> bt # "idle" /\ by = "swap"
  /\ ap = "probing" <=> bt # "idle" /\ by = "probe"
  /\ ap = "done" => bt = "idle"
  /\ bt # "idle" => sel # 0
  /\ bt \in Booting => gen < MaxBoots

\* a boot that has loaded its sections has the selected image in the core
LoadedOK == bt \in {"go", "boot", "ack", "booted", "ok"} => core.img = reg[sel].caps

\* while no section has moved the mark is as true as it was
MarkOK ==
  /\ bt = "failed" => run = 0
  /\ (/\ bt \in {"idle", "park", "sleep", "load", "oops", "busy", "ok"}
      /\ run # 0 /\ ap \notin {"probe", "zeroised"} /\ ~Gone /\ ~redone)
       => core.img = reg[run].caps

\* the image that the apply boots can do what the plan wants, and so can the core in the end
ChosenOK ==
  ~late =>
    /\ ap \in {"swap", "swapping", "reset", "probe", "zeroised", "probing"}
         => sel # 0 /\ want \subseteq reg[sel].caps
    /\ ap = "done" /\ ~redone /\ ~Gone => want \subseteq core.img

VInv == VspaTypeOK /\ RegOK /\ CoreOK /\ BusyOK /\ WhoOK /\ LoadedOK /\ MarkOK /\ ChosenOK

LEMMA VspaInitInv == VspaInit => VInv
<1> SUFFICES ASSUME VspaInit PROVE VInv
  OBVIOUS
<1> USE VspaAssumption DEF VspaInit
<1>1. VspaTypeOK
  <2>1. reg \in Seq([name : {f.name : f \in Files}, caps : SUBSET Caps,
                    rank : Nat, secs : {f.secs : f \in Files}, blob : BOOLEAN]) /\ Len(reg) = 0
    OBVIOUS
  <2>2. core.st = "parked" /\ core.img \in {NoImg} \cup SUBSET Caps
    OBVIOUS
  <2>3. core.img \in LegacyImage
    BY DEF LegacyImage
  <2>4. gen \in 0..MaxBoots /\ 0 <= RegMax
    OBVIOUS
  <2>5. {busy, flag, spm, hands, redone, late} \subseteq BOOLEAN
    OBVIOUS
  <2>6. bt \in {"idle", "park", "sleep", "load", "sections", "go", "boot", "ack", "booted", "oops"}
    OBVIOUS
  <2>7. /\ by \in {"swap", "probe", "sysfs"} /\ qec \in {"in", "out"} /\ want \subseteq Caps
        /\ msg \in {"none", "boot", "ack", "other"}
        /\ ap \in {"idle", "quiesce", "select", "swap", "swapping", "swapped",
                  "reset", "probe", "zeroised", "probing", "done"}
    OBVIOUS
  <2> QED BY <2>1, <2>2, <2>3, <2>4, <2>5, <2>6, <2>7 DEF VspaTypeOK
<1>4. CoreOK
  BY DEF CoreOK, LegacyImage
<1>2. RegOK
  BY DEF RegOK, Indexes
<1>3. BusyOK /\ WhoOK /\ LoadedOK /\ MarkOK /\ ChosenOK
  BY DEF BusyOK, ChannelExclusive, WhoOK, LoadedOK, MarkOK, ChosenOK, Booting
<1> QED BY <1>1, <1>2, <1>3, <1>4 DEF VInv

(***************************************************************************)
(* The registry.                                                           *)
(***************************************************************************)
LEMMA RegisterInv == ASSUME VInv, NEW f \in Files, Register(f) PROVE VInv'
<1> USE DEF VInv
<1>1. Entry(f) \in Image /\ IsFiniteSet(Entry(f).caps)
  BY VspaAssumption DEF Entry, Image, Caps
<1>2. Len(reg) \in Nat /\ reg \in Seq(Image) /\ Indexes = 1..Len(reg) /\ \A i \in Indexes : reg[i] \in Image
  BY ElementOfSeq DEF RegOK, Indexes
<1> DEFINE Good == /\ RegOK' /\ Len(reg') \in Len(reg)..RegMax
                   /\ \A i \in Indexes : reg'[i].caps = reg[i].caps \/ redone'
                   /\ redone' \in BOOLEAN /\ (redone => redone')
<1>3. Good
  <2>1. ASSUME NEW i \in Named(f.name),
               \/ reg' = [reg EXCEPT ![i] = Entry(f)]
               \/ reg' = [reg EXCEPT ![i].blob = FALSE],
               redone' = (redone \/ (reg'[i].caps # reg[i].caps))
        PROVE  Good
    <3>1. i \in 1..Len(reg)
      BY <1>2 DEF Named
    <3>2. PICK e : /\ reg' = [reg EXCEPT ![i] = e] /\ e \in Image /\ IsFiniteSet(e.caps)
      <4>1. CASE reg' = [reg EXCEPT ![i] = Entry(f)]
        BY <1>1, <4>1
      <4>2. CASE reg' = [reg EXCEPT ![i].blob = FALSE]
        <5>1. [reg[i] EXCEPT !.blob = FALSE] \in Image /\ [reg[i] EXCEPT !.blob = FALSE].caps = reg[i].caps
          BY <1>2, <3>1 DEF Image
        <5>2. reg' = [reg EXCEPT ![i] = [reg[i] EXCEPT !.blob = FALSE]]
          BY <4>2
        <5>3. IsFiniteSet(reg[i].caps)
          BY <1>2, <3>1 DEF RegOK
        <5> QED BY <5>1, <5>2, <5>3
      <4> QED BY <2>1, <4>1, <4>2
    <3>3. reg' \in Seq(Image) /\ Len(reg') = Len(reg) /\ reg'[i] = e /\ \A j \in 1..Len(reg) : j # i => reg'[j] = reg[j]
      BY <1>2, <3>1, <3>2
    <3>4. RegOK'
      <4>1. ASSUME NEW j \in 1..Len(reg) PROVE IsFiniteSet(reg'[j].caps)
        <5>1. CASE j = i
          BY <3>2, <3>3, <5>1
        <5>2. CASE j # i
          BY <1>2, <3>3, <5>2 DEF RegOK
        <5> QED BY <5>1, <5>2
      <4> QED BY <3>3, <4>1 DEF RegOK, Indexes
    <3>5. \A j \in Indexes : reg'[j].caps = reg[j].caps \/ redone'
      BY <1>2, <2>1, <3>3
    <3>6. Len(reg') \in Len(reg)..RegMax
      BY <1>2, <3>3, VspaAssumption DEF VspaTypeOK
    <3>7. redone' \in BOOLEAN /\ (redone => redone')
      BY <2>1 DEF VspaTypeOK
    <3> QED BY <3>4, <3>5, <3>6, <3>7
  <2>2. CASE Len(reg) < RegMax /\ reg' = Append(reg, Entry(f)) /\ UNCHANGED redone
    <3>1. reg' \in Seq(Image) /\ Len(reg') = Len(reg) + 1 /\ reg'[Len(reg) + 1] = Entry(f)
          /\ \A j \in 1..Len(reg) : reg'[j] = reg[j]
      BY <1>1, <1>2, <2>2
    <3> QED BY <1>1, <1>2, <2>2, <3>1, VspaAssumption DEF RegOK, Indexes, VspaTypeOK
  <2>3. \/ \E i \in Named(f.name) :
             /\ \/ reg' = [reg EXCEPT ![i] = Entry(f)]
                \/ reg' = [reg EXCEPT ![i].blob = FALSE]
             /\ redone' = (redone \/ (reg'[i].caps # reg[i].caps))
        \/ Len(reg) < RegMax /\ reg' = Append(reg, Entry(f)) /\ UNCHANGED redone
    BY DEF Register
  <2> QED BY <2>1, <2>2, <2>3
<1> USE DEF Register, mbox
<1>4. VspaTypeOK'
  BY <1>2, <1>3 DEF VspaTypeOK, RegOK, Image
<1>5. CoreOK' /\ BusyOK' /\ WhoOK'
  BY <1>2 DEF CoreOK, BusyOK, ChannelExclusive, WhoOK, Booting
<1>6. LoadedOK' /\ MarkOK'
  BY <1>2, <1>3, SMTT(40) DEF LoadedOK, MarkOK, VspaTypeOK, Gone
<1>7. ChosenOK'
  BY <1>3 DEF ChosenOK, Between, Gone, VspaTypeOK
<1> QED BY <1>3, <1>4, <1>5, <1>6, <1>7

(***************************************************************************)
(* The loader.                                                             *)
(***************************************************************************)
LEMMA LoaderInv == ASSUME VInv, Boot PROVE VInv'
<1> USE DEF VInv
<1>1. UNCHANGED <<reg, sel, ap, want, late, hands, by>>
  BY DEF Boot, ParkWait, LoaderSleep, LoadImage, LoadSections, Go, WaitBootComplete, WaitSpmAck, Booted,
         Rest, apply
<1>2. Len(reg) \in Nat /\ reg \in Seq(Image) /\ Indexes = 1..Len(reg) /\ \A i \in Indexes : reg[i] \in Image
  BY ElementOfSeq DEF RegOK, Indexes
<1>3. bt \in Booting /\ sel \in 1..Len(reg) /\ sel \in Indexes
  BY <1>2 DEF Boot, ParkWait, LoaderSleep, LoadImage, LoadSections, Go, WaitBootComplete, WaitSpmAck, Booted,
         Booting, WhoOK, VspaTypeOK
<1> USE DEF Boot, ParkWait, LoaderSleep, LoadImage, LoadSections, Go, WaitBootComplete, WaitSpmAck, Booted,
            Failed, Rest, apply, mbox
<1>4. RegOK'
  BY <1>1 DEF RegOK, Indexes
<1>5. CoreOK'
  BY <1>2, <1>3 DEF CoreOK, Image, LegacyImage
<1>6. VspaTypeOK'
  <2>1. bt' \in {"idle", "park", "sleep", "load", "sections", "go", "boot", "ack", "booted", "oops"} \cup Over
        /\ run' \in 0..Len(reg) /\ gen' \in 0..MaxBoots
    BY <1>2, <1>3, VspaAssumption DEF VspaTypeOK, Over, WhoOK
  <2>2. {busy', flag', spm', redone'} \subseteq BOOLEAN /\ msg' = msg /\ qec' = qec
    BY DEF VspaTypeOK
  <2> QED BY <1>1, <1>5, <2>1, <2>2 DEF VspaTypeOK, CoreOK
<1>7. BusyOK'
  BY DEF BusyOK, ChannelExclusive, Booting
<1>8. WhoOK'
  BY <1>1, <1>3 DEF WhoOK, Booting
<1>9. LoadedOK'
  BY DEF LoadedOK, CoreOK
<1>10. MarkOK'
  BY <1>3 DEF MarkOK, LoadedOK, Gone, CoreOK
<1>11. ChosenOK'
  BY <1>1, <1>3 DEF ChosenOK, WhoOK, Booting
<1> QED BY <1>4, <1>5, <1>6, <1>7, <1>8, <1>9, <1>10, <1>11

(***************************************************************************)
(* The core, the M4 and the QEC thread move nothing that the marks speak of*)
(***************************************************************************)
LEMMA WorldInv == ASSUME VInv, Core \/ M4Reads \/ QecDmaXfer PROVE VInv'
<1> USE DEF VInv, Core, M4Reads, QecDmaXfer, mbox, apply
<1>1. /\ UNCHANGED <<reg, sel, run, gen, busy, bt, by, ap, want, late, hands, redone>>
      /\ CoreOK' /\ core'.img = core.img /\ (Gone' <=> Gone)
  BY DEF CoreOK, Gone
<1>2. VspaTypeOK'
  <2>1. {flag', spm'} \subseteq BOOLEAN /\ msg' \in {"none", "boot", "ack", "other"} /\ qec' \in {"in", "out"}
    BY DEF VspaTypeOK
  <2> QED BY <1>1, <2>1 DEF VspaTypeOK, CoreOK
<1>3. BusyOK'
  BY DEF BusyOK, ChannelExclusive, Booting
<1>4. RegOK' /\ WhoOK' /\ LoadedOK' /\ MarkOK' /\ ChosenOK'
  BY <1>1 DEF RegOK, Indexes, WhoOK, LoadedOK, MarkOK, ChosenOK, Booting
<1> QED BY <1>1, <1>2, <1>3, <1>4

(***************************************************************************)
(* The applies, the chip reset and sysfs: they choose an image, or start   *)
(* or take the end of a boot.                                              *)
(***************************************************************************)
LEMMA Chosen ==
  ASSUME VInv, NEW caps
  PROVE  /\ SelectFor(caps) \in 0..Len(reg) /\ Fewest(caps) \in 0..Len(reg)
         /\ SelectFor(caps) # 0 => caps \subseteq reg[SelectFor(caps)].caps
         /\ Fewest(caps) # 0 => caps \subseteq reg[Fewest(caps)].caps
BY SelectionIs DEF VInv, VspaTypeOK, Provides

LEMMA CheckInv ==
  ASSUME VInv, NEW caps \in Plans, NEW reclock \in BOOLEAN, ApplyCheck(caps, reclock)
  PROVE  VInv'
<1> USE DEF VInv, ApplyCheck, CoreQuiet, mbox
<1>1. RegOK' /\ CoreOK' /\ BusyOK'
  BY DEF RegOK, Indexes, CoreOK, BusyOK, ChannelExclusive, Booting
<1>2. VspaTypeOK'
  <2>1. sel' \in 0..Len(reg)
    BY Chosen DEF VspaTypeOK
  <2>2. want' \subseteq Caps
    BY DEF Plans
  <2> QED BY <2>1, <2>2 DEF VspaTypeOK
<1>3. WhoOK' /\ LoadedOK' /\ MarkOK'
  BY DEF WhoOK, LoadedOK, MarkOK, Booting, Gone, Between
<1>4. ChosenOK'
  <2>1. CASE ap' = "done"
    BY <2>1 DEF ChosenOK, MarkOK, Provides, Indexes, VspaTypeOK, Gone, Between
  <2>2. CASE ap' # "done"
    BY <2>2, Chosen DEF ChosenOK
  <2> QED BY <2>1, <2>2
<1> QED BY <1>1, <1>2, <1>3, <1>4

LEMMA SwapInv == ASSUME VInv, KernelSwap \/ SwapEnded \/ FallBack PROVE VInv'
<1> USE DEF VInv, KernelSwap, SwapEnded, FallBack, CoreQuiet, mbox, StartBoot, Over
<1>1. RegOK' /\ CoreOK' /\ BusyOK'
  BY DEF RegOK, Indexes, CoreOK, BusyOK, ChannelExclusive, Booting
<1>2. VspaTypeOK'
  <2>1. sel' \in 0..Len(reg)
    BY Chosen DEF VspaTypeOK
  <2> QED BY <2>1, ZenonT(60) DEF VspaTypeOK
<1>3. WhoOK' /\ LoadedOK' /\ MarkOK'
  BY DEF WhoOK, LoadedOK, MarkOK, Booting, Gone
<1>4. ChosenOK'
  <2>1. CASE SwapEnded
    BY <2>1 DEF ChosenOK, LoadedOK, WhoOK
  <2>2. CASE KernelSwap \/ FallBack
    BY <2>2, Chosen DEF ChosenOK
  <2> QED BY <2>1, <2>2
<1> QED BY <1>1, <1>2, <1>3, <1>4

LEMMA ResetInv == ASSUME VInv, ChipReset \/ Zeroise \/ ProbeBoot \/ ProbeEnded PROVE VInv'
<1> USE DEF VInv, ChipReset, Zeroise, ProbeBoot, ProbeEnded, CoreQuiet, mbox, StartBoot, Over
<1>1. RegOK' /\ CoreOK' /\ BusyOK'
  BY DEF RegOK, Indexes, CoreOK, BusyOK, ChannelExclusive, Booting, LegacyImage
<1>2. VspaTypeOK'
  <2>1. sel' \in 0..Len(reg) /\ run' \in 0..Len(reg)
    BY Chosen DEF VspaTypeOK
  <2>2. {busy', flag', spm', hands', redone', late'} \subseteq BOOLEAN /\ msg' \in {"none", "boot", "ack", "other"}
    BY DEF VspaTypeOK
  <2> QED BY <1>1, <2>1, <2>2 DEF VspaTypeOK, CoreOK
<1>3. WhoOK' /\ LoadedOK'
  BY DEF WhoOK, LoadedOK, Booting
<1>4. MarkOK'
  <2>1. CASE ChipReset \/ Zeroise
    BY <2>1 DEF MarkOK, Gone, CoreOK
  <2>2. CASE ProbeBoot
    BY <2>2 DEF MarkOK, Gone, VspaTypeOK
  <2>3. CASE ProbeEnded
    BY <2>3 DEF MarkOK, Gone
  <2> QED BY <2>1, <2>2, <2>3
<1>5. ChosenOK'
  BY DEF ChosenOK, LoadedOK, WhoOK
<1> QED BY <1>1, <1>2, <1>3, <1>4, <1>5

LEMMA SysfsInv == ASSUME VInv, SysfsSelect \/ SysfsBoot \/ SysfsEnded PROVE VInv'
<1> USE DEF VInv, SysfsSelect, SysfsBoot, SysfsEnded, CoreQuiet, mbox, apply, StartBoot, Over
<1>1. RegOK' /\ CoreOK' /\ BusyOK'
  BY DEF RegOK, Indexes, CoreOK, BusyOK, ChannelExclusive, Booting
<1>2. VspaTypeOK'
  <2>1. sel' \in 0..Len(reg)
    BY Chosen DEF VspaTypeOK
  <2> QED BY <2>1 DEF VspaTypeOK, Between
<1>3. WhoOK' /\ LoadedOK' /\ MarkOK'
  BY DEF WhoOK, LoadedOK, MarkOK, Booting, Gone, Between
<1>4. ChosenOK'
  BY DEF ChosenOK, Between, WhoOK, Gone
<1> QED BY <1>1, <1>2, <1>3, <1>4

LEMMA VspaStepInv == VInv /\ [VspaNext]_vspavars => VInv'
<1> SUFFICES ASSUME VInv, [VspaNext]_vspavars PROVE VInv'
  OBVIOUS
<1>1. CASE UNCHANGED vspavars
  BY <1>1 DEF vspavars, mbox, apply, VInv, VspaTypeOK, RegOK, Indexes, CoreOK, BusyOK, ChannelExclusive, WhoOK,
     LoadedOK, MarkOK, ChosenOK, Gone
<1> QED BY <1>1, RegisterInv, LoaderInv, WorldInv, CheckInv, SwapInv, ResetInv, SysfsInv DEF VspaNext

LEMMA VspaInvariant == VspaSpec => []VInv
BY VspaInitInv, VspaStepInv, PTL DEF VspaSpec

\* Registry, loader, core and apply keep their types.
THEOREM RegistryTypes == VspaSpec => []VspaTypeOK
<1>1. VInv => VspaTypeOK
  BY DEF VInv
<1> QED BY <1>1, VspaInvariant, PTL

\* rfnm_vspa_running names the image in the core, whatever of a boot fails; the
\* exceptions are an image replaced in place, a reset that loses the endpoint and
\* one whose probe finds no base image.
THEOREM RunningMarkTrue == VspaSpec => []RunningTruth
<1>1. VInv => RunningTruth
  BY DEF VInv, MarkOK, RunningTruth
<1> QED BY <1>1, VspaInvariant, PTL

\* rfnm_vspa_loader_busy keeps the QEC thread off DMA channel 0 while sections move.
THEOREM ChannelOwned == VspaSpec => []ChannelExclusive
<1>1. VInv => ChannelExclusive
  BY DEF VInv, BusyOK
<1> QED BY <1>1, VspaInvariant, PTL

\* A plan that was applied, by the running image, a swap or a reset, finds its
\* capabilities in the core.
THEOREM PlansServed == VspaSpec => []ApplyCaps
<1>1. VInv => ApplyCaps
  BY DEF VInv, ChosenOK, ApplyCaps
<1> QED BY <1>1, VspaInvariant, PTL

=============================================================================
