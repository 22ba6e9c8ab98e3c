------------------------------ MODULE Endpoint ------------------------------
(***************************************************************************)
(* Life cycle of the LA9310 PCIe endpoint in the base driver               *)
(* (kernel_driver/la9310shiva): module load, probe with its error labels,  *)
(* remove, and the hard reprobe that takes the link down behind the MMIO   *)
(* fence, against an interrupt handler, a fenced MMIO accessor, a sysfs    *)
(* reader and a client of the IPC device running at the same time.         *)
(*                                                                         *)
(* What a step acquires is a name in held; what an owner leaves behind     *)
(* when it is freed moves to left; what is released although it was not    *)
(* held goes to wrong. Both are kept for the last probe only.              *)
(***************************************************************************)
EXTENDS Naturals

CONSTANT MaxTries   \* rescans in la9310_rescan_and_verify (50 in the code)

ASSUME MaxTriesAssumption == MaxTries \in Nat \ {0}

VARIABLES
    mod,      \* the module is "in" or "out"
    pc,       \* where probe or remove of the endpoint stands
    held,     \* resources of the live la9310_dev
    left,     \* resources whose owner is gone
    wrong,    \* resources released without being held
    rp,       \* where rfnm_la9310_hard_reprobe stands ("idle": not running)
    tries,    \* rescans left to la9310_rescan_and_verify
    fence,    \* rfnm_la9310_mmio_fence
    link,     \* the PCIe link (root complex not suspended)
    lost,     \* history: the module was loaded over a dead link
    bus,      \* what enumeration finds: nothing, the root port, the endpoint
    masked,   \* disable_irq was called on the vectors
    handler,  \* la9310_irq_handler past its fence check
    acc,      \* a fenced accessor: between its check and its access
    reader,   \* a sysfs show that checks no fence (show_vspa_info)
    fd,       \* a client's open IPC device: "stale" when the device is gone
    ioctl,    \* its ioctl, which checks no fence
    atu,      \* outbound windows programmed in the endpoint
    boot      \* the firmware's boot scratch register

drv  == <<pc, held, left, wrong>>
pci  == <<rp, tries, fence, link, lost, bus>>
ipc  == <<fd, ioctl>>
who  == <<handler, acc, reader, ipc>>
chip == <<atu, boot>>
vars == <<mod, drv, pci, masked, who, chip>>

Resources == {"class", "chrdev", "enabled", "regions", "priv", "bars",
              "vectors", "scratch", "sysfs", "stats", "dmamap", "irqpriv",
              "virqmap", "descs", "muxirq", "hsirq", "ipcdev", "ipcirq",
              "vspadev", "vspairq"}

(* Resources a second probe or load cannot take while they are held.       *)
Exclusive == {"class", "enabled", "regions", "sysfs", "muxirq", "hsirq",
              "ipcdev", "priv", "scratch", "vspairq"}

Windows == {"scratch", "iqflood", "msi", "ipc"}

ProbePc  == {"p_enable", "p_bar0", "p_regions", "p_priv", "p_map", "p_msi",
             "p_scratch", "p_sysfs", "p_stats", "p_rtos", "p_booting",
             "p_irq", "p_mux", "p_hsirq", "p_handshake", "p_waiting",
             "p_ipc", "p_vspa"}
DeinitPc == {"d_vspa", "d_ipc", "d_irq", "d_hs", "d_sysfs", "d_scratch",
             "d_pci"}
RemovePc == {"r_scratch", "r_ipc", "r_vspa", "r_irq", "r_mux", "r_hs",
             "r_sysfs", "r_stats", "r_pci"}
Ended    == {"none", "bound"}

(* What la9310_probe_irq_mux allocates.                                    *)
MuxState == {"irqpriv", "virqmap", "descs"}

-----------------------------------------------------------------------------
(* Steps of the driver core: take resources and go on; give some up and go *)
(* on; give some up and free the device, leaving the rest.                 *)

Take(from, to, got) ==
    /\ pc = from /\ pc' = to
    /\ held' = held \cup got
    /\ UNCHANGED <<left, wrong>>

Drop(from, to, rel) ==
    /\ pc = from /\ pc' = to
    /\ held' = held \ rel
    /\ wrong' = wrong \cup (rel \ held)
    /\ UNCHANGED left

Finish(from, rel) ==
    /\ pc = from /\ pc' = "none"
    /\ held' = {}
    /\ left' = held \ rel
    /\ wrong' = wrong \cup (rel \ held)

Quiet  == UNCHANGED <<mod, pci, masked, who>>
Silent == Quiet /\ UNCHANGED chip

-----------------------------------------------------------------------------
(* la9310_pcidev_probe, down to la9310_pci_priv_init.                      *)

EnableDevice ==
    /\ pc = "p_enable"
    /\ \/ pc' = "p_bar0" /\ held' = {"enabled"}
       \/ pc' = "none" /\ held' = {}
    /\ left' = {} /\ wrong' = {}
    /\ Silent

(* The registers of the window fix are mapped for the fix alone.           *)
FixBar0Window ==
    /\ \/ Take("p_bar0", "p_regions", {})
       \/ Finish("p_bar0", {"enabled"})
    /\ Silent

(* The regions, then the DMA mask: err2, or err3 with the regions.         *)
RequestRegions ==
    /\ \/ Take("p_regions", "p_priv", {"regions"})
       \/ Finish("p_regions", {"enabled"})
    /\ Silent

(* la9310_pci_priv_init allocates the device and takes an id; without one, *)
(* pcidev_probe has no device to free (err4).                              *)
PrivInit ==
    /\ \/ Take("p_priv", "p_map", {"priv"})
       \/ Finish("p_priv", {"enabled", "regions"})
    /\ Silent

(* Either failure unmaps what is mapped and frees the device at its label. *)
MapMemRegions ==
    /\ \/ Take("p_map", "p_msi", {"bars"})
       \/ Finish("p_map", {"priv", "enabled", "regions"})
    /\ Silent

(* Vectors granted in too small a number fail the probe and are not freed, *)
(* as the flag that says so is not set yet.                                *)
SetInterruptCapability ==
    /\ \/ Take("p_msi", "p_scratch", {"vectors"})
       \/ Finish("p_msi", {"bars", "priv", "enabled", "regions"})
       \/ /\ pc = "p_msi" /\ pc' = "none"
          /\ held' = {} /\ left' = {"vectors"} /\ UNCHANGED wrong
    /\ Silent

-----------------------------------------------------------------------------
(* la9310_base_probe. A failing stage enters la9310_base_deinit at the     *)
(* case its init_stage names.                                              *)

(* la9310_scratch_dma_buf unmaps what it mapped when it fails, and the     *)
(* caller's deinit unmaps it again. The windows for the scratch buffer and *)
(* for the sample memory follow.                                           *)
ScratchDmaBuf ==
    /\ \/ /\ Take("p_scratch", "p_sysfs", {"scratch"})
          /\ atu' = atu \cup {"scratch", "iqflood"}
       \/ /\ Take("p_scratch", "d_scratch", {})
          /\ UNCHANGED atu
    /\ UNCHANGED boot
    /\ Quiet

InitSysfs ==
    /\ \/ Take("p_sysfs", "p_stats", {"sysfs"})
       \/ Take("p_sysfs", "d_scratch", {})
    /\ Silent

RegisterEpStats ==
    /\ \/ Take("p_stats", "p_rtos", {"stats"})
       \/ Take("p_stats", "d_sysfs", {})
    /\ Silent

\* mutant: init_stage is not advanced past the scratch stage yet
LoadRtosImgStage ==
    /\ \/ /\ Take("p_rtos", "p_booting", {"dmamap"})
          /\ boot' = IF boot = "rom" THEN "loading" ELSE boot
       \/ Take("p_rtos", "d_scratch", {}) /\ UNCHANGED boot
    /\ UNCHANGED atu
    /\ Quiet

(* la9310_load_rtos_img: the image is mapped for DMA and never unmapped;   *)
(* the preamble written last starts a boot ROM that polls for it.          *)
LoadRtosImg ==
    /\ \/ /\ Take("p_rtos", "p_booting", {"dmamap"})
          /\ boot' = IF boot = "rom" THEN "loading" ELSE boot
       \/ /\ Take("p_rtos", "d_sysfs", {})
          /\ UNCHANGED boot
    /\ UNCHANGED atu
    /\ Quiet

(* la9310_wait_for_boot_scratch: polls for one value until the deadline.   *)
WaitForBootScratch ==
    /\ \/ boot = "clock" /\ Take("p_booting", "p_irq", {})
       \/ boot # "clock" /\ Take("p_booting", "d_sysfs", {})
    /\ Silent

(* la9310_probe_irq_mux: a failure in the statistics keeps the descriptors.*)
ProbeIrqMux ==
    /\ \/ Take("p_irq", "p_mux", MuxState)
       \/ Take("p_irq", "d_sysfs", {})
       \/ Take("p_irq", "d_sysfs", {"descs"})
    /\ atu' = atu \cup {"msi"}
    /\ UNCHANGED boot
    /\ Quiet

(* A failing request_irq keeps the virq map. A vector requested afresh has *)
(* its disable depth reset.                                                *)
RequestIrq ==
    /\ \/ Take("p_mux", "p_hsirq", {"muxirq"}) /\ masked' = FALSE
       \/ /\ Drop("p_mux", "d_sysfs", {"irqpriv", "descs"})
          /\ UNCHANGED masked
    /\ UNCHANGED <<mod, pci, who, chip>>

(* The result of this request_irq is overwritten by the handshake's.       *)
RequestHandshakeIrq ==
    /\ \/ Take("p_hsirq", "p_handshake", {"hsirq"})
       \/ Take("p_hsirq", "p_handshake", {})
    /\ Silent

(* la9310_do_reset_handshake writes its half, waits for the completion or  *)
(* for the timeout, and goes by the register alone;                        *)
(* la9310_verify_hif_compatibility may refuse after it.                    *)
ResetHandshake ==
    /\ \/ /\ Take("p_handshake", "p_waiting", {})
          /\ boot' = "host"
       \/ /\ \/ boot = "init" /\ Take("p_waiting", "p_ipc", {})
             \/ Take("p_waiting", "d_hs", {})
          /\ UNCHANGED boot
    /\ UNCHANGED atu
    /\ Quiet

(* The firmware's half of the boot: it may answer late or never.           *)
Firmware ==
    /\ link
    /\ \/ boot = "loading" /\ boot' = "clock"
       \/ boot = "host" /\ boot' = "init"
    /\ UNCHANGED <<mod, drv, pci, masked, who, atu>>

IpcProbe ==
    /\ \/ Take("p_ipc", "p_vspa", {"ipcdev"})
       \/ Take("p_ipc", "d_ipc", {})
    /\ Silent

(* vspa_probe undoes nothing itself: it may fail without a vspa_priv, with *)
(* one but no interrupt, or with both.                                     *)
VspaProbe ==
    /\ \/ Take("p_vspa", "bound", {"vspadev", "vspairq"})
       \/ Take("p_vspa", "d_vspa", {})
       \/ Take("p_vspa", "d_vspa", {"vspadev"})
       \/ Take("p_vspa", "d_vspa", {"vspadev", "vspairq"})
    /\ Silent

-----------------------------------------------------------------------------
(* la9310_base_deinit falls through its cases; the sub-driver that failed  *)
(* is removed too.                                                         *)

VspaRel == IF "vspadev" \in held THEN {"vspadev", "vspairq"} ELSE {}
IpcRel  == {"ipcdev"} \cap held

(* cdev_del neither waits for open files nor ends them.                    *)
CutClient == fd' = IF fd = "live" /\ "ipcdev" \notin held' THEN "stale" ELSE fd

Subdrv == CutClient /\ UNCHANGED <<mod, pci, masked, handler, acc, reader, ioctl, chip>>

DeinitSubdrv ==
    /\ \/ Drop("d_vspa", "d_ipc", VspaRel)
       \/ Drop("d_ipc", "d_irq", IpcRel)
    /\ Subdrv

(* la9310_clean_request_irq frees the mux state while the handler is still *)
(* registered; free_irq then waits for a running handler.                  *)
DeinitIrq ==
    /\ \/ Drop("d_irq", "d_hs", MuxState)
       \/ /\ handler = "out"
          /\ Drop("d_hs", "d_sysfs", {"hsirq", "muxirq"})
    /\ Silent

(* sysfs_remove_group waits for readers inside the attributes.             *)
DeinitSysfs ==
    /\ reader = "out"
    /\ Drop("d_sysfs", "d_scratch", {"sysfs"})
    /\ Silent

DeinitScratch ==
    /\ Drop("d_scratch", "d_pci", {"scratch"})
    /\ Silent

(* err5 of la9310_pcidev_probe.                                            *)
ProbeFailed ==
    /\ Finish("d_pci", {"vectors", "priv", "regions", "enabled"})
    /\ Silent

-----------------------------------------------------------------------------
(* la9310_base_remove and la9310_pcidev_remove.                            *)

BaseRemoveSubdrv ==
    /\ \/ Drop("r_scratch", "r_ipc", {"scratch"})
       \/ Drop("r_ipc", "r_vspa", IpcRel)
       \/ Drop("r_vspa", "r_irq", VspaRel)
    /\ Subdrv

BaseRemoveIrq ==
    /\ \/ Drop("r_irq", "r_mux", MuxState)
       \/ handler = "out" /\ Drop("r_mux", "r_hs", {"muxirq"})
       \/ Drop("r_hs", "r_sysfs", {"hsirq"})
    /\ Silent

BaseRemoveSysfs ==
    /\ \/ reader = "out" /\ Drop("r_sysfs", "r_stats", {"sysfs"})
       \/ Drop("r_stats", "r_pci", {"stats"})
    /\ Silent

PcidevRemove ==
    /\ Finish("r_pci", {"bars", "vectors", "priv", "regions", "enabled"})
    /\ Silent

-----------------------------------------------------------------------------
(* Module load and unload; the load probes an endpoint already there. Its  *)
(* fence is a fresh one, and down. A load that fails behind class_create   *)
(* keeps the class, which fails every load after it. The drivers that look *)
(* at the fence, and an open IPC device, keep the module.                  *)

ModInit ==
    /\ mod = "out" /\ rp = "idle" /\ "class" \notin left
    /\ \/ /\ mod' = "in"
          /\ pc' = IF bus = "endpoint" THEN "p_enable" ELSE "none"
          /\ fence' = FALSE /\ lost' = ~link
          /\ UNCHANGED left
       \/ /\ left' \in {{"class"}, {"class", "chrdev"}}
          /\ UNCHANGED <<mod, pc, fence, lost>>
    /\ UNCHANGED <<held, wrong, rp, tries, link, bus, masked, who, chip>>

ModInitRefused == mod = "out" /\ "class" \in left /\ UNCHANGED vars

ModExit ==
    /\ mod = "in" /\ rp = "idle" /\ acc = "out" /\ fd = "none"
    /\ \/ /\ pc = "bound" /\ pc' = "r_scratch"
          /\ UNCHANGED mod
       \/ /\ pc = "none" /\ mod' = "out"
          /\ UNCHANGED pc
    /\ UNCHANGED <<held, left, wrong, pci, masked, who, chip>>

-----------------------------------------------------------------------------
(* rfnm_la9310_hard_reprobe. A caller holds the mutex throughout; with no  *)
(* root port it returns -ENODEV at once, which changes nothing.            *)

Reprobe == UNCHANGED <<mod, held, left, wrong, lost>>

(* An accessor past its check when the fence goes up is "old".             *)
RaiseFence ==
    /\ rp = "idle" /\ mod = "in" /\ pc \in Ended /\ bus # "empty"
    /\ fence' = TRUE /\ rp' = "quiesce"
    /\ acc' = IF acc = "in" THEN "old" ELSE acc
    /\ UNCHANGED <<pc, tries, link, bus, masked, handler, reader, ipc>>
    /\ Reprobe /\ UNCHANGED <<atu, boot>>

(* disable_irq waits for running handlers.                                 *)
QuiesceEndpointIrqs ==
    /\ rp = "quiesce"
    /\ pc = "bound" => handler = "out"
    /\ masked' = (masked \/ pc = "bound")
    /\ rp' = "remove"
    /\ UNCHANGED <<pc, tries, fence, link, bus, who>>
    /\ Reprobe /\ UNCHANGED <<atu, boot>>

RemoveRootPort ==
    /\ \/ /\ rp = "remove" /\ rp' = "removing"
          /\ pc' = IF pc = "bound" THEN "r_scratch" ELSE pc
          /\ UNCHANGED bus
       \/ /\ rp = "removing" /\ pc = "none"
          /\ bus' = "empty" /\ rp' = "rcoff"
          /\ UNCHANGED pc
    /\ UNCHANGED <<tries, fence, link, masked, who>>
    /\ Reprobe /\ UNCHANGED <<atu, boot>>

SuspendRc ==
    /\ rp = "rcoff"
    /\ \/ link' = FALSE /\ rp' = "reset" /\ UNCHANGED fence
       \/ fence' = FALSE /\ rp' = "lastscan" /\ UNCHANGED link
    /\ UNCHANGED <<pc, tries, bus, masked, who>>
    /\ Reprobe /\ UNCHANGED <<atu, boot>>

\* mutant: a failed board reset lifts the fence before the link is resumed
BoardResetLift ==
    /\ rp = "reset"
    /\ \/ rp' = "rcon" /\ atu' = {} /\ boot' = "rom" /\ UNCHANGED fence
       \/ rp' = "recover" /\ fence' = FALSE /\ UNCHANGED <<atu, boot>>
    /\ UNCHANGED <<pc, tries, link, bus, masked, who>>
    /\ Reprobe

BoardReset ==
    /\ rp = "reset"
    /\ \/ rp' = "rcon" /\ atu' = {} /\ boot' = "rom"
       \/ rp' = "recover" /\ UNCHANGED <<atu, boot>>
    /\ UNCHANGED <<pc, tries, fence, link, bus, masked, who>>
    /\ Reprobe

(* The resume, and the resumes of recover_resume (not retried) and of      *)
(* recover_rescan (the retry of a failed resume).                          *)
ResumeRc ==
    /\ \/ rp = "rcon"    /\ link' = TRUE /\ rp' = "lift"
       \/ rp = "rcon"    /\ rp' = "retry" /\ UNCHANGED link
       \/ rp = "recover" /\ link' = TRUE /\ rp' = "lift_err"
       \/ rp = "recover" /\ rp' = "lastscan" /\ UNCHANGED link
       \/ rp = "retry"   /\ link' = TRUE /\ rp' = "lift_err"
       \/ rp = "retry"   /\ rp' = "lastscan" /\ UNCHANGED link
    /\ UNCHANGED <<pc, tries, fence, bus, masked, who>>
    /\ Reprobe /\ UNCHANGED <<atu, boot>>

LiftFence ==
    /\ rp \in {"lift", "lift_err"}
    /\ fence' = FALSE
    /\ rp' = IF rp = "lift" THEN "rescan" ELSE "lastscan"
    /\ tries' = MaxTries
    /\ UNCHANGED <<pc, link, bus, masked, who>>
    /\ Reprobe /\ UNCHANGED <<atu, boot>>

(* la9310_rescan_all_buses: over a live link it may find the endpoint; a   *)
(* found endpoint may be offered to the driver.                            *)
Rescan ==
    /\ \/ link /\ bus' \in {"port", "endpoint"}
       \/ ~link /\ UNCHANGED bus
    /\ pc' \in {pc} \cup (IF bus' = "endpoint" /\ pc = "none"
                             THEN {"p_enable"} ELSE {})
    /\ bus = "endpoint" => bus' = "endpoint"
    /\ bus # "endpoint" /\ bus' = "endpoint" => pc' # "none"

RescanAndVerify ==
    /\ \/ /\ rp = "rescan" /\ tries > 0
          /\ Rescan /\ rp' = "verify" /\ tries' = tries - 1
       \/ /\ rp = "rescan" /\ tries = 0
          /\ rp' = "idle" /\ UNCHANGED <<pc, bus, tries>>
       \/ /\ rp = "verify" /\ pc \in Ended
          /\ rp' = IF pc = "bound" THEN "idle" ELSE "rescan"
          /\ UNCHANGED <<pc, bus, tries>>
    /\ UNCHANGED <<fence, link, masked, who>>
    /\ Reprobe /\ UNCHANGED <<atu, boot>>

RecoverRescan ==
    /\ \/ rp = "lastscan" /\ Rescan /\ rp' = "lastwait"
       \/ rp = "lastwait" /\ pc \in Ended /\ rp' = "idle" /\ UNCHANGED <<pc, bus>>
    /\ UNCHANGED <<tries, fence, link, masked, who>>
    /\ Reprobe /\ UNCHANGED <<atu, boot>>

-----------------------------------------------------------------------------
(* The others. la9310_irq_handler reads the mux state, checks the fence    *)
(* and works on the window; a fenced accessor checks and then accesses; a  *)
(* sysfs show of the VSPA state checks nothing.                            *)

Others == UNCHANGED <<mod, drv, pci, masked, chip>>

IrqHandler ==
    /\ \/ /\ handler = "out" /\ "muxirq" \in held /\ ~masked /\ ~fence
          /\ handler' = "in"
       \/ handler = "in" /\ handler' = "out"
    /\ UNCHANGED <<acc, reader, ipc>>
    /\ Others

FencedAccess ==
    /\ \/ acc = "out" /\ mod = "in" /\ ~fence /\ acc' = "in"
       \/ acc # "out" /\ acc' = "out"
    /\ UNCHANGED <<handler, reader, ipc>>
    /\ Others

ShowVspaInfo ==
    /\ \/ reader = "out" /\ "sysfs" \in held /\ reader' = "in"
       \/ reader = "in" /\ reader' = "out"
    /\ UNCHANGED <<handler, acc, ipc>>
    /\ Others

(* A client of the IPC device. It opens a device that is there (not while  *)
(* the module goes, whose open files would keep it), and keeps the file    *)
(* whatever becomes of the device.                                         *)
IpcOpen ==
    /\ fd = "none" /\ "ipcdev" \in held /\ (pc \in RemovePc => rp = "removing")
    /\ fd' = "live"
    /\ UNCHANGED <<mod, drv, pci, masked, handler, acc, reader, ioctl, chip>>

IpcRelease ==
    /\ fd # "none" /\ ioctl = "out" /\ fd' = "none"
    /\ UNCHANGED <<mod, drv, pci, masked, handler, acc, reader, ioctl, chip>>

(* The two commands of ipc_ioctl that work in the window, without a look   *)
(* at the fence, the device or the stage of the driver: GET_SYS_MAP        *)
(* programs the huge page window and reads the hif, RAISE_INTERRUPT writes *)
(* the message unit. Of a file that is stale they go by freed memory.      *)
IpcWindow ==
    /\ \/ fd # "none" /\ ioctl = "out" /\ ioctl' = "in" /\ UNCHANGED atu
       \/ ioctl = "in" /\ ioctl' = "out" /\ atu' \in {atu, atu \cup {"ipc"}}
    /\ UNCHANGED <<mod, drv, pci, masked, handler, acc, reader, fd, boot>>

(* A channel interrupt is registered and given back; the sub-driver's      *)
(* remove leaves a registered one in place. (On a stale file these go by   *)
(* freed memory, and what they do is not modelled.)                        *)
RegisterIpcChannelIrq ==
    /\ fd = "live"
    /\ "ipcirq" \notin held /\ held' = held \cup {"ipcirq"}
    /\ UNCHANGED <<mod, pc, left, wrong, pci, masked, who, chip>>

DeregisterIpcChannelIrq ==
    /\ fd = "live"
    /\ "ipcirq" \in held /\ held' = held \ {"ipcirq"}
    /\ UNCHANGED <<mod, pc, left, wrong, pci, masked, who, chip>>

-----------------------------------------------------------------------------
Init ==
    /\ mod = "out" /\ pc = "none" /\ held = {} /\ left = {} /\ wrong = {}
    /\ rp = "idle" /\ tries = 0 /\ fence = FALSE /\ link = TRUE /\ lost = FALSE
    /\ bus \in {"port", "endpoint"} /\ masked = FALSE
    /\ handler = "out" /\ acc = "out" /\ reader = "out"
    /\ fd = "none" /\ ioctl = "out"
    /\ atu = {} /\ boot = "rom"

Probe ==
    \/ EnableDevice \/ FixBar0Window \/ RequestRegions \/ PrivInit
    \/ MapMemRegions \/ SetInterruptCapability
    \/ ScratchDmaBuf \/ InitSysfs \/ RegisterEpStats \/ LoadRtosImg
    \/ WaitForBootScratch \/ ProbeIrqMux \/ RequestIrq
    \/ RequestHandshakeIrq \/ ResetHandshake
    \/ IpcProbe \/ VspaProbe

Deinit ==
    \/ DeinitSubdrv \/ DeinitIrq \/ DeinitSysfs \/ DeinitScratch
    \/ ProbeFailed

Remove ==
    \/ BaseRemoveSubdrv \/ BaseRemoveIrq \/ BaseRemoveSysfs \/ PcidevRemove

HardReprobe ==
    \/ QuiesceEndpointIrqs \/ RemoveRootPort \/ SuspendRc \/ BoardReset
    \/ ResumeRc \/ LiftFence \/ RescanAndVerify \/ RecoverRescan

Next ==
    \/ Probe \/ Deinit \/ Remove \/ HardReprobe
    \/ RaiseFence \/ ModInit \/ ModInitRefused \/ ModExit
    \/ IrqHandler \/ FencedAccess \/ ShowVspaInfo \/ Firmware
    \/ IpcOpen \/ IpcRelease \/ IpcWindow
    \/ RegisterIpcChannelIrq \/ DeregisterIpcChannelIrq

(* A kernel thread inside probe, remove or the reprobe goes on; a handler  *)
(* or a reader that started finishes. free_irq and sysfs_remove_group let  *)
(* no new one in while they wait, hence strong fairness for the teardowns. *)
Fairness ==
    /\ WF_vars(Probe) /\ SF_vars(Deinit) /\ SF_vars(Remove)
    /\ WF_vars(HardReprobe)
    /\ WF_vars(handler = "in" /\ IrqHandler)
    /\ WF_vars(reader = "in" /\ ShowVspaInfo)

Spec == Init /\ [][Next]_vars /\ Fairness

-----------------------------------------------------------------------------
TypeOK ==
    /\ mod \in {"in", "out"}
    /\ pc \in Ended \cup ProbePc \cup DeinitPc \cup RemovePc
    /\ held \subseteq Resources /\ left \subseteq Resources
    /\ wrong \subseteq Resources
    /\ rp \in {"idle", "quiesce", "remove", "removing", "rcoff", "reset",
               "rcon", "recover", "retry", "lift", "lift_err", "rescan",
               "verify", "lastscan", "lastwait"}
    /\ tries \in 0..MaxTries
    /\ {fence, link, lost, masked} \subseteq BOOLEAN
    /\ bus \in {"empty", "port", "endpoint"}
    /\ handler \in {"out", "in"} /\ acc \in {"out", "in", "old"}
    /\ reader \in {"out", "in"}
    /\ fd \in {"none", "live", "stale"} /\ ioctl \in {"out", "in"}
    /\ atu \subseteq Windows
    /\ boot \in {"rom", "loading", "clock", "host", "init"}

(* While the link is down the fence is up, no handler and no unfenced      *)
(* sysfs reader stands in the window, no accessor except one whose check   *)
(* came before the fence was raised (the check and the access are not one  *)
(* step), and no file is open on an IPC device that is still there.        *)
(* Between reprobes the fence is up exactly when the root complex did not  *)
(* resume: no recovery path leaves a live endpoint behind the fence or a   *)
(* dead link open. Two exceptions: an IPC client's ioctl checks no fence   *)
(* and the removal does not wait for it (IpcOutside); and a module loaded  *)
(* again over a dead link has its fence down (LinkFenced).                 *)
OutageFenced ==
    /\ ~link => /\ handler = "out" /\ reader = "out" /\ fd # "live"
                /\ ~lost => fence /\ acc # "in"
    /\ rp = "idle" => (fence <=> ~link /\ ~lost)

(* "Concurrent contexts (... sysfs/ioctl readers) must not touch the       *)
(* LA9310 window anywhere in this span": refuted, by a client that holds   *)
(* its file open over the reprobe.                                         *)
IpcOutside == ~link => ioctl = "out"

(* "leave the fence up permanently - the LA9310 is dead until reboot":     *)
(* refuted, by unloading the module and loading it again after a reprobe   *)
(* whose resume failed.                                                    *)
LinkFenced == ~link => fence

(* During the teardown of a reprobe the interrupt handler never works on   *)
(* mux state that was freed. (Unloading the module frees that state with   *)
(* the vectors enabled, so the same does not hold there.)                  *)
QuietTeardown == rp = "removing" => (handler = "in" => "irqpriv" \in held)

(* A failed probe or a remove leaves nothing behind that would make the    *)
(* next probe fail, and gives back what it does not have only where the    *)
(* code is known to: the scratch mapping, the handshake interrupt whose    *)
(* request failed, and the VSPA interrupt of a failed vspa_probe. A failed *)
(* load is the exception: it keeps the class, and no load succeeds again.  *)
Retryable ==
    /\ left \cap Exclusive \subseteq (IF mod = "out" THEN {"class"} ELSE {})
    /\ wrong \subseteq {"scratch", "hsirq", "vspairq"}

(* A hard reprobe that raised the fence gives the lock back, whatever      *)
(* fails on the way.                                                       *)
ReprobeEnds == (rp = "quiesce") ~> (rp = "idle")
=============================================================================
