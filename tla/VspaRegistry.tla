---------------------------- MODULE VspaRegistry ----------------------------
(***************************************************************************)
(* The registry of VSPA images and the loader that boots one of them       *)
(* (la9310shiva/la9310_vspa_registry.c, la9310_main_vspa.c), the apply of  *)
(* a stream plan that swaps images or resets the chip (rfnm_lalib.c,       *)
(* la9310_rfnm.c), and the three parties they share the core with: the M4  *)
(* that reads the same mailbox, the QEC thread that uses the same DMA      *)
(* channel, and a sysfs writer.                                            *)
(***************************************************************************)
EXTENDS Naturals, FiniteSets, Sequences

CONSTANTS
    Files,      \* image files: [name, caps, rank, secs]; an update keeps the name
    BaseCaps,   \* RFNM_VSPA_CAP_STREAMING_BASE, as a set of capabilities
    RegMax,     \* RFNM_VSPA_REG_MAX
    MaxBoots    \* bound on the boots of a behaviour

(* What fw_read_and_load_sections does with a section depends on its type; *)
(* no section is larger than MAX_DMA_TRANSFER: vspa_fw_dma_write moves one *)
(* chunk only.                                                             *)
SectionTypes == {"dmem", "pram", "ippu", "cmdbuff", "ocram", "overlay"}

ASSUME VspaAssumption ==
    /\ \A f \in Files : /\ f.rank \in Nat /\ IsFiniteSet(f.caps)
                       /\ f.secs \in Seq(SectionTypes)
    /\ RegMax \in Nat \ {0} /\ MaxBoots \in Nat

VARIABLES
    reg,      \* rfnm_vspa_reg, up to rfnm_vspa_reg_cnt
    sel, run, \* rfnm_vspa_selected, rfnm_vspa_running (0: none)
    gen,      \* rfnm_vspa_boot_gen
    busy,     \* rfnm_vspa_loader_busy
    bt,       \* where rfnm_vspa_boot_image_locked stands; it holds the lock
    sec,      \* the next section to load
    by,       \* on whose behalf: "swap", "probe", "sysfs"
    core,     \* the VSPA: [st, img]; img = capabilities of the loaded image
    msg, flag, \* 64-bit mailbox to the host: data register, IN-valid flag
    spm,      \* the SPM message to the core is in its inbox
    hands,    \* the M4 was told to keep off the mailbox
    qec,      \* qec_dma_xfer between its checks and its last access
    ap,       \* where the apply of a plan stands
    want,     \* the plan's capabilities
    redone,   \* history: the image marked running was replaced or wiped since
              \* it booted, and the mark left standing
    late      \* history: sysfs changed selection or registry during the apply

mbox  == <<msg, flag, spm>>
apply == <<ap, want, hands, late>>
vspavars  == <<reg, sel, run, gen, busy, bt, sec, by, core, mbox, qec, apply, redone>>

Caps    == UNION {f.caps : f \in Files}
Plans   == {c \in SUBSET Caps : BaseCaps \subseteq c}
NoImg   == {"no image"}
Indexes == 1..Len(reg)
Busy    == core.st # "parked"    \* rfnm_vspa_core_busy
Gone    == core.st = "gone"      \* no endpoint after a failed reset

Between == ap \in {"idle", "done"}    \* no apply in progress

Provides(i, caps) == i \in Indexes /\ caps \subseteq reg[i].caps

-----------------------------------------------------------------------------
(* rfnm_vspa_registry_register, after the checks that refuse an image: the *)
(* entry of that name is replaced in place, or one is appended. Without    *)
(* memory the old entry stays, without its blob.                           *)
Named(name) == {i \in Indexes : reg[i].name = name}

Entry(f) == [name |-> f.name, caps |-> f.caps, rank |-> f.rank,
             secs |-> f.secs, blob |-> TRUE]

Register(f) ==
    /\ bt = "idle" /\ ~Gone
    /\ \/ \E i \in Named(f.name) :
             /\ \/ reg' = [reg EXCEPT ![i] = Entry(f)]
                \/ reg' = [reg EXCEPT ![i].blob = FALSE]
             /\ redone' = (redone \/ (reg'[i].caps # reg[i].caps))
       \/ /\ Named(f.name) = {} /\ Len(reg) < RegMax
          /\ reg' = Append(reg, Entry(f))
          /\ UNCHANGED redone
    /\ late' = (late \/ ~Between)
    /\ UNCHANGED <<sel, run, gen, busy, bt, sec, by, core, mbox, qec, ap,
                   want, hands>>

(* rfnm_vspa_select_for: the running image if it will do, else the provider*)
(* with the fewest capabilities, then the lower rank, then the earlier.    *)
Better(i, j) ==
    LET ci == Cardinality(reg[i].caps)
        cj == Cardinality(reg[j].caps)
    IN  \/ ci < cj
        \/ ci = cj /\ reg[i].rank < reg[j].rank
        \/ ci = cj /\ reg[i].rank = reg[j].rank /\ i < j

Minimal(caps) ==
    LET P == {i \in Indexes : Provides(i, caps)}
    IN  IF P = {} THEN 0
        ELSE CHOOSE i \in P : \A j \in P \ {i} : Better(i, j)

SelectFor(caps) == IF Provides(run, caps) THEN run ELSE Minimal(caps)

-----------------------------------------------------------------------------
(* rfnm_vspa_boot_image_locked.                                            *)

Rest == UNCHANGED <<reg, sel, by, apply, redone>>

(* The core must park by itself; otherwise it is left as it was (-EBUSY).  *)
ParkWait ==
    /\ bt = "park"
    /\ \/ ~Busy /\ busy' = TRUE /\ bt' = "sleep"
       \/ Busy  /\ bt' = "busy" /\ UNCHANGED busy
    /\ UNCHANGED <<run, gen, core, sec, mbox, qec>>
    /\ Rest

\* mutant: no sleep after the flag is set
LoaderSleepNone ==
    /\ bt = "sleep" /\ bt' = "load"
    /\ UNCHANGED <<run, gen, busy, core, sec, mbox, qec>>
    /\ Rest

(* The 3 to 5 ms sleep outlasts a QEC transfer (at most 1 ms) that passed  *)
(* its check before the flag was set.                                      *)
LoaderSleep ==
    /\ bt = "sleep" /\ qec = "out"
    /\ bt' = "load"
    /\ UNCHANGED <<run, gen, busy, core, sec, mbox, qec>>
    /\ Rest

\* mutant: a failed start keeps the running mark
FailedRunning == bt' = "failed" /\ busy' = FALSE /\ UNCHANGED run

Failed == bt' = "failed" /\ run' = 0 /\ busy' = FALSE

(* The header is checked and sections follow one by one. A missing blob is *)
(* a fault; a section for the command buffer, the OCRAM or an overlay is   *)
(* not transferred; one transfer may time out (dma_raw_transmit), which    *)
(* leaves half an image.                                                   *)
LoadImage ==
    /\ bt = "load"
    /\ \/ /\ reg[sel].blob /\ bt' = "sections" /\ sec' = 1
          /\ UNCHANGED <<run, busy>>
       \/ reg[sel].blob /\ Failed /\ UNCHANGED sec
       \/ /\ ~reg[sel].blob /\ bt' = "oops"
          /\ UNCHANGED <<run, busy, sec>>
    /\ UNCHANGED <<gen, core, mbox, qec>>
    /\ Rest

Transferred == {"dmem", "pram", "ippu"}

LoadSections ==
    LET secs == reg[sel].secs IN
    /\ bt = "sections"
    /\ \/ /\ sec > Len(secs) /\ bt' = "go" /\ sec' = 0
          /\ core' = [core EXCEPT !.img = reg[sel].caps]
          /\ UNCHANGED <<run, busy>>
       \/ /\ sec =< Len(secs) /\ sec' = sec + 1
          /\ core' = IF secs[sec] \in Transferred
                       THEN [core EXCEPT !.img = NoImg] ELSE core
          /\ UNCHANGED <<run, busy, bt>>
       \/ /\ sec =< Len(secs) /\ secs[sec] \in Transferred /\ Failed /\ sec' = 0
          /\ core' = [core EXCEPT !.img = NoImg]
    /\ UNCHANGED <<gen, mbox, qec>>
    /\ Rest

(* startup: GO, then Boot Complete by the flag or, if the M4 read it away, *)
(* by the data register; reading takes the flag down.                      *)
Go ==
    /\ bt = "go" /\ bt' = "boot"
    /\ core' = [core EXCEPT !.st = "boot0"]
    /\ UNCHANGED <<run, gen, busy, sec, mbox, qec>>
    /\ Rest

\* mutant: the wait has no limit
WaitBootForever ==
    /\ bt = "boot" /\ msg = "boot"
    /\ bt' = "ack" /\ spm' = TRUE /\ flag' = FALSE
    /\ UNCHANGED <<run, busy, gen, core, sec, msg, qec>>
    /\ Rest

WaitBootComplete ==
    /\ bt = "boot"
    /\ \/ /\ msg = "boot"
          /\ bt' = "ack" /\ spm' = TRUE /\ flag' = FALSE
          /\ UNCHANGED <<run, busy>>
       \/ /\ flag /\ msg # "boot"
          /\ flag' = FALSE /\ Failed /\ UNCHANGED spm
       \/ Failed /\ UNCHANGED <<flag, spm>>
    /\ UNCHANGED <<gen, core, sec, msg, qec>>
    /\ Rest

WaitSpmAck ==
    /\ bt = "ack"
    /\ \/ /\ msg = "ack"
          /\ bt' = "booted" /\ flag' = FALSE
          /\ UNCHANGED <<run, busy>>
       \/ /\ flag /\ msg # "ack"
          /\ flag' = FALSE /\ Failed
       \/ Failed /\ UNCHANGED flag
    /\ UNCHANGED <<gen, core, sec, msg, spm, qec>>
    /\ Rest

Booted ==
    /\ bt = "booted" /\ bt' = "ok"
    /\ run' = sel /\ gen' = gen + 1 /\ busy' = FALSE
    /\ UNCHANGED <<reg, sel, sec, by, core, mbox, qec, apply>>
    /\ redone' = FALSE

Boot == \/ ParkWait \/ LoaderSleep \/ LoadImage \/ LoadSections
        \/ Go \/ WaitBootComplete \/ WaitSpmAck \/ Booted

(* Taking the registry lock for a boot of the selected image.              *)
StartBoot(who, first) ==
    /\ bt = "idle" /\ gen < MaxBoots
    /\ bt' = first /\ by' = who

Over == {"ok", "failed", "busy"}

-----------------------------------------------------------------------------
(* The core, the M4 and the QEC thread.                                    *)

Core ==
    /\ \/ /\ core.st = "boot0"
          /\ core' = [core EXCEPT !.st = "boot1"]
          /\ msg' = "boot" /\ flag' = TRUE /\ UNCHANGED spm
       \/ /\ core.st = "boot1" /\ spm
          /\ core' = [core EXCEPT !.st = "parked"]
          /\ msg' = "ack" /\ flag' = TRUE /\ spm' = FALSE
       \/ /\ core.st = "parked" /\ core.img # NoImg /\ bt = "idle"
          /\ core' = [core EXCEPT !.st = "busy"]
          /\ UNCHANGED mbox
       \/ /\ core.st = "busy"
          /\ core' = [core EXCEPT !.st = "parked"]
          /\ msg' = "other" /\ flag' = TRUE /\ UNCHANGED spm
    /\ UNCHANGED <<reg, sel, run, gen, busy, bt, sec, by, qec, apply, redone>>

M4Reads ==
    /\ flag /\ ~hands /\ flag' = FALSE
    /\ UNCHANGED <<reg, sel, run, gen, busy, bt, sec, by, core, msg, spm, qec,
                   apply, redone>>

QecDmaXfer ==
    /\ \/ qec = "out" /\ ~busy /\ qec' = "in"
       \/ qec = "in" /\ qec' = "out"
    /\ UNCHANGED <<reg, sel, run, gen, busy, bt, sec, by, core, mbox, apply,
                   redone>>

-----------------------------------------------------------------------------
(* The apply of a plan (rfnm_lalib.c) on an unchanged clock: nothing when  *)
(* the running image will do; else the parked swap, and a chip reset when  *)
(* that fails; on a changed clock the reset at once, after the selection.  *)

CoreQuiet == UNCHANGED <<reg, sec, core, mbox, qec, redone>>

ApplyCheck(caps, reclock) ==
    /\ Between /\ bt = "idle"
    /\ want' = caps /\ late' = FALSE
    /\ \/ /\ ~reclock /\ Provides(run, caps)
          /\ ap' = "done"
          /\ UNCHANGED sel
       \/ /\ ~reclock /\ ~Provides(run, caps)
          /\ ap' = "quiesce"
          /\ UNCHANGED sel
       \/ /\ reclock /\ sel' = SelectFor(caps)
          /\ ap' = IF sel' = 0 THEN "idle" ELSE "reset"
    /\ UNCHANGED <<run, gen, busy, bt, by, hands>>
    /\ CoreQuiet

(* rfnm_vspa_kernel_swap: the M4 keeps its hands off, the image is selected*)
(* and, under the lock taken again, the selected image is booted.          *)
KernelSwap ==
    /\ \/ /\ ap = "quiesce" /\ ap' = "select" /\ hands' = TRUE
          /\ UNCHANGED <<sel, bt, by>>
       \/ /\ ap = "select" /\ bt = "idle"
          /\ sel' = SelectFor(want)
          /\ ap' = IF sel' = 0 THEN "swapped" ELSE "swap"
          /\ UNCHANGED <<bt, by, hands>>
       \/ /\ ap = "swap" /\ sel # 0 /\ ~Gone /\ StartBoot("swap", "park")
          /\ ap' = "swapping"
          /\ UNCHANGED <<sel, hands>>
       \/ /\ ap = "swap" /\ (sel = 0 \/ Gone) /\ bt = "idle"
          /\ ap' = "swapped"
          /\ UNCHANGED <<sel, bt, by, hands>>
    /\ UNCHANGED <<run, gen, busy, want, late>>
    /\ CoreQuiet

\* mutant: a core that did not park counts as swapped
SwapEndedBusy ==
    /\ ap = "swapping" /\ bt \in Over /\ by = "swap"
    /\ bt' = "idle" /\ hands' = FALSE
    /\ ap' = IF bt = "failed" THEN "swapped" ELSE "done"
    /\ UNCHANGED <<sel, run, gen, busy, by, want, late>>
    /\ CoreQuiet

SwapEnded ==
    /\ ap = "swapping" /\ bt \in Over /\ by = "swap"
    /\ bt' = "idle" /\ hands' = FALSE
    /\ ap' = IF bt = "ok" THEN "done" ELSE "swapped"
    /\ UNCHANGED <<sel, run, gen, busy, by, want, late>>
    /\ CoreQuiet

FallBack ==
    /\ ap = "swapped" /\ bt = "idle"
    /\ hands' = FALSE
    /\ sel' = SelectFor(want)
    /\ ap' = IF sel' = 0 THEN "idle" ELSE "reset"
    /\ UNCHANGED <<run, gen, busy, bt, by, want, late>>
    /\ CoreQuiet

(* rfnm_hard_reset_la9310: aborted before the reset, failed after it (the  *)
(* endpoint is gone, the running mark stays), or done: the chip forgets    *)
(* its image and the probe boots the selection (rfnm_vspa_probe_boot),     *)
(* choosing a base image when there is none.                               *)
ChipReset ==
    /\ ap = "reset" /\ bt = "idle" /\ gen < MaxBoots
    /\ \/ /\ ap' = "idle" /\ UNCHANGED <<core, mbox>>
       \/ /\ ap' = "probe"
          /\ core' = [st |-> "parked", img |-> NoImg]
          /\ msg' = "none" /\ flag' = FALSE /\ spm' = FALSE
       \/ /\ ap' = "idle"
          /\ core' = [st |-> "gone", img |-> NoImg]
          /\ msg' = "none" /\ flag' = FALSE /\ spm' = FALSE
    /\ UNCHANGED <<reg, sel, run, gen, busy, bt, sec, by, qec, want, hands, late,
                   redone>>

Fewest(caps) ==
    LET P == {i \in Indexes : Provides(i, caps)}
        n(i) == Cardinality(reg[i].caps)
    IN  IF P = {} THEN 0
        ELSE CHOOSE i \in P : \A j \in P \ {i} :
                 n(i) < n(j) \/ (n(i) = n(j) /\ i < j)

(* vspa_probe: the memories are zeroised through DMA channel 0, without    *)
(* the loader flag; then the boot. Without a base image in the registry the*)
(* legacy file is tried, and the core may stay parked; the running mark of *)
(* the image before the reset stays up then.                               *)
Zeroise ==
    /\ ap = "probe" /\ bt = "idle"
    /\ \/ ap' = "zeroised" /\ UNCHANGED core
       \/ ap' = "idle" /\ core' = [core EXCEPT !.st = "gone"]
    /\ UNCHANGED <<reg, sel, run, gen, busy, bt, sec, by, mbox, qec, want,
                   hands, late, redone>>

\* vspa_get_fw_image and startup: an image outside the registry, or none
LegacyImage == {NoImg, BaseCaps}

ProbeBoot ==
    /\ ap = "zeroised"
    /\ sel' = IF sel = 0 THEN Fewest(BaseCaps) ELSE sel
    /\ \/ /\ sel' # 0 /\ StartBoot("probe", "park")
          /\ run' = 0 /\ ap' = "probing"
          /\ UNCHANGED <<core, redone>>
       \/ /\ sel' = 0 /\ bt = "idle" /\ ap' = "done"
          /\ \E img \in LegacyImage : core' = [core EXCEPT !.img = img]
          /\ redone' = (redone \/ run # 0)
          /\ UNCHANGED <<run, bt, by>>
    /\ UNCHANGED <<reg, gen, busy, sec, mbox, qec, want, hands, late>>

ProbeEnded ==
    /\ ap = "probing" /\ bt \in Over /\ by = "probe"
    /\ bt' = "idle"
    /\ ap' = IF bt = "ok" THEN "done" ELSE "idle"
    /\ UNCHANGED <<sel, run, gen, busy, by, want, hands, late>>
    /\ CoreQuiet

(* vspa_boot_store: select a base image, and boot it under the lock taken  *)
(* again.                                                                  *)
SysfsSelect ==
    /\ bt = "idle"
    /\ sel' = SelectFor(BaseCaps)
    /\ late' = (late \/ ~Between)
    /\ UNCHANGED <<run, gen, busy, bt, by, ap, want, hands>>
    /\ CoreQuiet

SysfsBoot ==
    /\ sel # 0 /\ ~Gone /\ StartBoot("sysfs", "park")
    /\ ap' = IF Between THEN "idle" ELSE ap
    /\ late' = ~Between
    /\ UNCHANGED <<sel, run, gen, busy, want, hands>>
    /\ CoreQuiet

SysfsEnded ==
    /\ bt \in Over /\ by = "sysfs" /\ bt' = "idle"
    /\ UNCHANGED <<sel, run, gen, busy, by, apply>>
    /\ CoreQuiet

-----------------------------------------------------------------------------
VspaInit ==
    /\ reg = <<>> /\ sel = 0 /\ run = 0 /\ gen = 0
    /\ busy = FALSE /\ bt = "idle" /\ sec = 0 /\ by = "sysfs"
    /\ core = [st |-> "parked", img |-> NoImg]
    /\ msg = "none" /\ flag = FALSE /\ spm = FALSE
    /\ hands = FALSE /\ qec = "out"
    /\ ap = "idle" /\ want = {} /\ redone = FALSE /\ late = FALSE

VspaNext ==
    \/ \E f \in Files : Register(f)
    \/ Boot
    \/ Core \/ M4Reads \/ QecDmaXfer
    \/ \E caps \in Plans, reclock \in BOOLEAN : ApplyCheck(caps, reclock)
    \/ KernelSwap \/ SwapEnded \/ FallBack
    \/ ChipReset \/ Zeroise \/ ProbeBoot \/ ProbeEnded
    \/ SysfsSelect \/ SysfsBoot \/ SysfsEnded

(* Every wait of the loader is bounded, and whoever took the registry lock *)
(* gives it back; the core and the M4 owe nothing, a QEC transfer ends.    *)
VspaFairness ==
    /\ WF_vspavars(Boot) /\ WF_vspavars(SwapEnded) /\ WF_vspavars(ProbeEnded)
    /\ WF_vspavars(SysfsEnded) /\ WF_vspavars(QecDmaXfer)

VspaSpec == VspaInit /\ [][VspaNext]_vspavars /\ VspaFairness

-----------------------------------------------------------------------------
VspaTypeOK ==
    /\ reg \in Seq([name : {f.name : f \in Files}, caps : SUBSET Caps,
                    rank : Nat, secs : {f.secs : f \in Files}, blob : BOOLEAN])
    /\ Len(reg) =< RegMax
    /\ sel \in 0..Len(reg) /\ run \in 0..Len(reg) /\ gen \in 0..MaxBoots
    /\ bt \in {"idle", "park", "sleep", "load", "sections", "go", "boot", "ack",
               "booted", "oops"} \cup Over
    /\ by \in {"swap", "probe", "sysfs"}
    /\ core.st \in {"parked", "busy", "boot0", "boot1", "gone"}
    /\ core.img \in LegacyImage \cup SUBSET Caps
    /\ msg \in {"none", "boot", "ack", "other"}
    /\ {busy, flag, spm, hands, redone, late} \subseteq BOOLEAN
    /\ qec \in {"in", "out"}
    /\ ap \in {"idle", "quiesce", "select", "swap", "swapping", "swapped",
               "reset", "probe", "zeroised", "probing", "done"}
    /\ want \subseteq Caps

(* The image marked running is the one in the core: a load that fails, a   *)
(* chip reset or a late acknowledgement of an earlier start never leaves   *)
(* the mark on an image that is not there. Three exceptions are the code's:*)
(* an image replaced in place, a reset that fails after the chip went, and *)
(* one whose probe finds no base image (redone).                           *)
RunningTruth ==
    (bt = "idle" /\ run # 0 /\ ap \notin {"probe", "zeroised"} /\ ~Gone /\ ~redone)
        => core.img = reg[run].caps

(* DMA channel 0 of the VSPA has one user: the loader never moves a section*)
(* while a QEC transfer that passed its check is under way.                *)
ChannelExclusive == bt \in {"load", "sections"} => qec = "out"

(* An apply that reports success leaves a core that can do what the plan   *)
(* asked for, by whichever of the three ways it got there.                 *)
ApplyCaps ==
    (ap = "done" /\ bt = "idle" /\ reg # <<>> /\ ~late /\ ~redone /\ ~Gone)
        => want \subseteq core.img

(* A boot ends and releases the registry, whatever the core and the M4 do; *)
(* only an entry without its blob stops it.                                *)
BootEnds == (bt # "idle") ~> (bt \in {"idle", "oops"})
=============================================================================
