------------------------------ MODULE Interrupts ------------------------------
(***************************************************************************)
(* Entry to and return from the mp3 kernel: the two 8259 controllers       *)
(* (i8259.c), the gates and stubs of idt.c, the system call linkage        *)
(* (system.c) and what schedule_next, system_execute and system_halt do to *)
(* the kernel stacks and to tss.esp0, the address at which the CPU starts  *)
(* the kernel stack when it leaves user mode.                              *)
(*                                                                         *)
(* Each process group is a thread of control.  It is the sequence of the   *)
(* frames that its entries to the kernel have pushed; the last frame holds *)
(* the point of the code that runs.  A place on a kernel stack is a PID    *)
(* and a number of words below get_kstack_addr of that PID.  The context   *)
(* that a tick or an execute leaves for later is in the PCB of a PID, and  *)
(* a teardown that another group interrupts may lose it.                   *)
(*                                                                         *)
(* enable_irq, disable_irq and send_eoi end with sti() before they restore *)
(* the flags, so inside a handler each of them opens a window in which the *)
(* next interrupt nests.  The points of a handler are these windows; the   *)
(* code between two windows runs with interrupts off and is one step.      *)
(***************************************************************************)
EXTENDS Integers, Sequences, SequencesExt, FiniteSets

CONSTANTS
    NUM_OF_PROCESS_GROUPS,
    MAX_PID,
    LOCALS,         \* words the kernel keeps below a frame while it works
    IretWords,      \* of its three registers, how many the iret stub still holds
    MAX_FRAMES,     \* bound on the frames other than ticks, all threads
    MAX_DEVICES,    \* bound on those among them of the keyboard and the RTC
    MAX_TICKS,      \* bound on the ticks nested in a thread
    MAX_RACES       \* bound on the interrupts that hit the iret stub

ASSUME InterruptsAssumption ==
    /\ NUM_OF_PROCESS_GROUPS \in Nat \ {0} /\ MAX_PID \in Nat /\ MAX_PID > NUM_OF_PROCESS_GROUPS
    /\ LOCALS \in Nat /\ IretWords \subseteq 0..3 /\ MAX_FRAMES \in Nat
    /\ MAX_DEVICES \in Nat /\ MAX_TICKS \in Nat /\ MAX_RACES \in Nat

Groups == 0..NUM_OF_PROCESS_GROUPS - 1
Pids == 0..MAX_PID - 1
BaseShell(g) == g + 1

IRQ_PIT == 0
IRQ_KB == 1
SLAVE_IRQ_LINE == 2
IRQ_RTC == 8
Irqs == {IRQ_PIT, IRQ_KB, IRQ_RTC}
Lines == Irqs \cup {SLAVE_IRQ_LINE}

\* What else a frame can come from: the system call gate, an exception, boot.
CALL == 128
EXC == -1
BOOT == -2

VARIABLES
    isr, imr,               \* the controllers: lines in service, lines masked
    IF_flag,                \* interrupts enabled on the CPU
    current_group,
    procs,                  \* of each group, its processes in pid_array, base shell first
    active_pid,             \* of each group, its leaf: the last of procs but in a teardown
    pcb,                    \* of each PID, the fields of its PCB that hold a context
    dying,                  \* of each group, pcb_teardown's local pcb, as a PID
    thread,                 \* of each group, its frames
    tss_esp0,
    crashed,                \* a context that is not the group's own was restored
    races,                  \* history: interrupts that hit the iret stub
    stolen                  \* history: a PID was taken before its teardown was over

pic    == <<isr, imr>>
tables == <<active_pid, pcb, dying>>
fate   == <<crashed, stolen>>
vars   == <<pic, IF_flag, current_group, procs, tables, thread, tss_esp0, fate, races>>

Place(p, words) == [pid |-> p, depth |-> words]
get_kstack_addr(p) == Place(p, 0)

\* A saved context is the group that saved it.  The entry point of a program
\* that has not executed another yet is no address to return to.
NoContext == -1
NoPid == -1
PCB == [parent_pid : Pids \cup {NoPid}, eip : {"none", "return_from_exec"},
        kernel_esp : Groups \cup {NoContext}, tss_esp0 : [pid : Pids, depth : Nat]]
ZeroPCB == [parent_pid |-> 0, eip |-> "none", kernel_esp |-> NoContext, tss_esp0 |-> Place(0, 0)]

Self == active_pid[current_group]
Top == Last(thread[current_group])

\* A process runs in user mode on top of no frame, or of its parent's execute.
UserMode == thread[current_group] # <<>> => Top.pc = "exec"

AllFrames == UNION {{<<g, i>> : i \in DOMAIN thread[g]} : g \in Groups}

KindOf(f) == thread[f[1]][f[2]].kind
Room(kind) ==
    LET ticks   == {f \in AllFrames : f[1] = current_group /\ KindOf(f) = IRQ_PIT}
        others  == {f \in AllFrames : KindOf(f) # IRQ_PIT}
        devices == {f \in others : KindOf(f) \in Irqs}
    IN  IF kind = IRQ_PIT THEN Cardinality(ticks) < MAX_TICKS
        ELSE /\ Cardinality(others) < MAX_FRAMES
             /\ kind \in Irqs => Cardinality(devices) < MAX_DEVICES

\* After a crash the CPU runs some other group's code or none: nothing follows.
At(kinds, point) == ~crashed /\ ~UserMode /\ Top.kind \in kinds /\ Top.pc = point
SetTop(f) == thread' = [thread EXCEPT ![current_group] = Append(Front(@), f)]
GoTo(point) == SetTop([Top EXCEPT !.pc = point])

-----------------------------------------------------------------------------
(* The controllers.  A line in service holds back its equals and the ones   *)
(* below it; an interrupt of the slave goes through line 2 of the master.   *)
(* A request is not a state of its own: it arrives when it is delivered.    *)

Line(irq) == IF irq = IRQ_RTC THEN SLAVE_IRQ_LINE ELSE irq
Deliverable(irq) ==
    /\ {irq, Line(irq)} \cap imr = {} /\ irq \notin isr
    /\ \A l \in isr \ {IRQ_RTC} : Line(irq) < l

\* The masks and the acknowledgement of one interrupt.
enable_irq(irq)  == imr' = imr \ {irq, Line(irq)}
disable_irq(irq) == imr' = imr \cup {irq}

\* Mutant: only the master is told.
send_eoi_master(irq) == isr' = isr \ {Line(irq)}

send_eoi(irq) == isr' = isr \ {irq, Line(irq)}

-----------------------------------------------------------------------------
(* Entry.  From user mode the CPU starts at tss.esp0 and pushes five words, *)
(* in the kernel it goes on below what is there and pushes three.           *)

FrameWords(ring) == IF ring = 3 THEN 5 ELSE 3

Enter(kind, point, words) ==
    LET ring == IF UserMode THEN 3 ELSE 0
        at == IF UserMode THEN tss_esp0 ELSE Place(Top.pid, Top.esp + words)
    IN  /\ ~crashed /\ Room(kind)
        /\ thread' = [thread EXCEPT ![current_group] = Append(@,
              [kind |-> kind, pc |-> point, pid |-> at.pid, esp |-> at.depth + FrameWords(ring),
               ring |-> ring, flags |-> IF_flag])]

InIretStub == ~UserMode /\ Top.pc = "iret"

\* An interrupt gate turns interrupts off.
Interrupt(irq) ==
    /\ IF_flag /\ Deliverable(irq)
    /\ \E words \in IF InIretStub THEN IretWords ELSE {LOCALS} : Enter(irq, "start", words)
    /\ isr' = isr \cup {irq, Line(irq)}
    /\ IF_flag' = FALSE
    /\ (InIretStub => races < MAX_RACES) /\ races' = IF InIretStub THEN races + 1 ELSE races
    /\ UNCHANGED <<imr, current_group, procs, tables, tss_esp0, fate>>

\* The system call gate is a trap gate: interrupts stay on.
SystemCall ==
    /\ UserMode /\ Enter(CALL, "body", LOCALS)
    /\ UNCHANGED <<pic, IF_flag, current_group, procs, tables, tss_esp0, fate, races>>

\* Only a program that has a parent to go back to faults (see module Process
\* for base shells).
Exception ==
    /\ UserMode /\ thread[current_group] # <<>> /\ Top.kind = CALL /\ Enter(EXC, "body", LOCALS)
    /\ IF_flag' = FALSE
    /\ UNCHANGED <<pic, current_group, procs, tables, tss_esp0, fate, races>>

-----------------------------------------------------------------------------
(* Return: iret_and_save_tss_esp first sets tss.esp0 to the address above   *)
(* the frame it is about to pop, whose size the saved CS tells; then irets. *)

save_tss_esp ==
    /\ \/ At({CALL, IRQ_PIT}, "return") /\ UNCHANGED IF_flag
       \/ At({IRQ_KB, IRQ_RTC}, "return") /\ IF_flag' = FALSE
    /\ tss_esp0' = Place(Top.pid, Top.esp - FrameWords(Top.ring))
    /\ GoTo("iret")
    /\ UNCHANGED <<pic, current_group, procs, tables, fate, races>>

iret ==
    /\ ~crashed /\ InIretStub
    /\ thread' = [thread EXCEPT ![current_group] = Front(@)]
    /\ IF_flag' = Top.flags
    /\ UNCHANGED <<pic, current_group, procs, tables, tss_esp0, fate, races>>

-----------------------------------------------------------------------------
(* do_irq *)

\* keyboard_handler and rtc_wrapper: mask the line, acknowledge, work, unmask.
DeviceMask ==
    /\ At({IRQ_KB, IRQ_RTC}, "start")
    /\ disable_irq(Top.kind) /\ IF_flag' = TRUE /\ GoTo("masked")
    /\ UNCHANGED <<isr, current_group, procs, tables, tss_esp0, fate, races>>

DeviceEoi ==
    /\ At({IRQ_KB, IRQ_RTC}, "masked")
    /\ send_eoi(Top.kind) /\ IF_flag' = TRUE /\ GoTo("acknowledged")
    /\ UNCHANGED <<imr, current_group, procs, tables, tss_esp0, fate, races>>

DeviceUnmask ==
    /\ At({IRQ_KB, IRQ_RTC}, "acknowledged")
    /\ enable_irq(Top.kind) /\ IF_flag' = TRUE /\ GoTo("return")
    /\ UNCHANGED <<isr, current_group, procs, tables, tss_esp0, fate, races>>

\* schedule_next acknowledges the tick before it leaves the group.
TickEoi ==
    /\ At({IRQ_PIT}, "start")
    /\ send_eoi(IRQ_PIT) /\ IF_flag' = TRUE /\ GoTo("switch")
    /\ UNCHANGED <<imr, current_group, procs, tables, tss_esp0, fate, races>>

NextGroup == IF current_group + 1 >= NUM_OF_PROCESS_GROUPS THEN 0 ELSE current_group + 1

\* The context is saved in the PCB of the old group's active process and the one
\* in that of the new group's continued with.  It is there only if that group
\* left it there and nobody has set up or cleared the PCB since.
schedule_next ==
    /\ At({IRQ_PIT}, "switch")
    /\ LET esp0  == Place(Top.pid, Top.esp - FrameWords(Top.ring))
           saved == [pcb EXCEPT ![Self].tss_esp0 = esp0, ![Self].kernel_esp = current_group]
           next  == active_pid[NextGroup]
       IN  /\ pcb' = [saved EXCEPT ![next].kernel_esp = NoContext]
           /\ tss_esp0' = saved[next].tss_esp0
           /\ crashed' = (saved[next].kernel_esp # NextGroup)
    /\ current_group' = NextGroup /\ GoTo("return") /\ IF_flag' = TRUE
    /\ UNCHANGED <<pic, procs, active_pid, dying, races, stolen>>

-----------------------------------------------------------------------------
(* System calls.  execute runs with interrupts off up to its iret to the    *)
(* child; halt irets to the parent's return_from_exec and drops the child's *)
(* frames; the tail of execute runs with interrupts as they were in halt,   *)
(* so that it is a step for each assignment another group can see.          *)

Executing == At({CALL}, "body") \/ At({BOOT}, "loop")
Free == Pids \ UNION {Range(procs[g]) : g \in Groups}
get_new_pid == CHOOSE p \in Free : \A q \in Free : p <= q

\* Whoever sets up the PCB of a PID some teardown has freed and not left yet.
Take(p) == stolen' = (stolen \/ \E g \in Groups : dying[g] = p)

\* pcb_setup fills the child's PCB; the parent's gets its context.
ExecutePCBs == [pcb EXCEPT ![get_new_pid] = [ZeroPCB EXCEPT !.parent_pid = Self],
                           ![Self].eip = "return_from_exec"]

\* Mutant: tss.esp0 stays the parent's.
Execute_old_esp0 ==
    /\ Executing /\ Free # {}
    /\ procs' = [procs EXCEPT ![current_group] = Append(@, get_new_pid)]
    /\ active_pid' = [active_pid EXCEPT ![current_group] = get_new_pid]
    /\ pcb' = ExecutePCBs /\ Take(get_new_pid)
    /\ GoTo("exec") /\ IF_flag' = TRUE
    /\ UNCHANGED <<pic, current_group, dying, tss_esp0, crashed, races>>

\* The base shell of the first group takes the PID the boot left for it.
Execute ==
    /\ Executing /\ Free # {}
    /\ procs' = [procs EXCEPT ![current_group] = Append(@, get_new_pid)]
    /\ active_pid' = [active_pid EXCEPT ![current_group] = get_new_pid]
    /\ pcb' = ExecutePCBs /\ Take(get_new_pid)
    /\ tss_esp0' = get_kstack_addr(get_new_pid)
    /\ GoTo("exec") /\ IF_flag' = TRUE
    /\ UNCHANGED <<pic, current_group, dying, crashed, races>>

\* A null command or no free PID; or the program cannot be loaded and has been
\* torn down again.  Interrupts are off on every way out.
ExecuteFails ==
    /\ At({CALL}, "body")
    /\ \/ UNCHANGED <<pcb, tss_esp0, stolen>>
       \/ /\ Free # {} /\ tss_esp0' = get_kstack_addr(Self)
          /\ pcb' = [pcb EXCEPT ![get_new_pid] = ZeroPCB] /\ Take(get_new_pid)
    /\ GoTo("return") /\ IF_flag' = FALSE
    /\ UNCHANGED <<pic, current_group, procs, active_pid, dying, crashed, races>>

\* Any other call: it returns with the flags it had.
OtherCall ==
    /\ At({CALL}, "body") /\ GoTo("return")
    /\ UNCHANGED <<pic, IF_flag, current_group, procs, tables, tss_esp0, fate, races>>

\* From a call, or from do_exc after its sti(): back to the parent that the PCB
\* names, by the context in the parent's PCB.
system_halt ==
    /\ At({CALL, EXC}, "body")
    /\ LET below == Front(thread[current_group])
           parent == pcb[Self].parent_pid
       IN  /\ below # <<>> /\ Last(below).kind = CALL
           /\ IF parent = Last(below).pid /\ pcb[parent].eip = "return_from_exec"
              THEN /\ thread' = [thread EXCEPT ![current_group] =
                                   Append(Front(below), [Last(below) EXCEPT !.pc = "tail"])]
                   /\ UNCHANGED crashed
              ELSE crashed' = TRUE /\ UNCHANGED thread
    /\ IF_flag' = TRUE
    /\ UNCHANGED <<pic, current_group, procs, tables, tss_esp0, stolen, races>>

\* pcb_teardown: the PID is free from here on, and the group still on it.
TeardownFree ==
    /\ At({CALL}, "tail")
    /\ dying' = [dying EXCEPT ![current_group] = Self]
    /\ procs' = [procs EXCEPT ![current_group] = Front(@)]
    /\ GoTo("freed")
    /\ UNCHANGED <<pic, IF_flag, current_group, active_pid, pcb, tss_esp0, fate, races>>

TeardownActive ==
    /\ At({CALL}, "freed")
    /\ active_pid' = [active_pid EXCEPT ![current_group] = pcb[dying[current_group]].parent_pid]
    /\ GoTo("moved")
    /\ UNCHANGED <<pic, IF_flag, current_group, procs, pcb, dying, tss_esp0, fate, races>>

TeardownEsp0 ==
    /\ At({CALL}, "moved")
    /\ tss_esp0' = get_kstack_addr(Self)
    /\ GoTo("aimed")
    /\ UNCHANGED <<pic, IF_flag, current_group, procs, tables, fate, races>>

\* The PCB found at the start is cleared, whoever has it by now.
TeardownClear ==
    /\ At({CALL}, "aimed")
    /\ pcb' = [pcb EXCEPT ![dying[current_group]] = ZeroPCB]
    /\ dying' = [dying EXCEPT ![current_group] = NoPid]
    /\ GoTo("return")
    /\ UNCHANGED <<pic, IF_flag, current_group, procs, active_pid, tss_esp0, fate, races>>

pcb_teardown == TeardownFree \/ TeardownActive \/ TeardownEsp0 \/ TeardownClear

-----------------------------------------------------------------------------
(* Boot (entry): the controllers, the devices, the shells of the groups     *)
(* other than the first, whose kernel stacks are made to look as if a tick  *)
(* had interrupted them, and the PIT.                                       *)

BootFrame == [kind |-> BOOT, pc |-> "i8259_init", pid |-> 0, esp |-> 0, ring |-> 0, flags |-> FALSE]
FakeFrame(p) == [kind |-> IRQ_PIT, pc |-> "return", pid |-> p, esp |-> FrameWords(3), ring |-> 3,
                 flags |-> TRUE]

Init ==
    /\ isr = {} /\ imr = Lines /\ IF_flag = FALSE /\ current_group = 0
    /\ procs = [g \in Groups |-> <<0>>]
    /\ thread = [g \in Groups |-> IF g = 0 THEN <<BootFrame>> ELSE <<>>]
    /\ active_pid = [g \in Groups |-> 0] /\ dying = [g \in Groups |-> NoPid]
    /\ pcb = [p \in Pids |-> IF p = 0 THEN [ZeroPCB EXCEPT !.parent_pid = NoPid] ELSE ZeroPCB]
    /\ tss_esp0 = get_kstack_addr(0) /\ crashed = FALSE /\ races = 0 /\ stolen = FALSE

i8259_init ==
    /\ At({BOOT}, "i8259_init")
    /\ imr' = Lines /\ GoTo("rtc_init")
    /\ UNCHANGED <<isr, IF_flag, current_group, procs, tables, tss_esp0, fate, races>>

\* rtc_init leaves interrupts on.
rtc_init ==
    /\ At({BOOT}, "rtc_init")
    /\ enable_irq(IRQ_RTC) /\ IF_flag' = TRUE /\ GoTo("keyboard_init")
    /\ UNCHANGED <<isr, current_group, procs, tables, tss_esp0, fate, races>>

keyboard_init ==
    /\ At({BOOT}, "keyboard_init")
    /\ enable_irq(IRQ_KB) /\ GoTo("shells")
    /\ UNCHANGED <<isr, IF_flag, current_group, procs, tables, tss_esp0, fate, races>>

static_start_shells ==
    /\ At({BOOT}, "shells")
    /\ procs' = [g \in Groups |-> IF g = 0 THEN procs[0] ELSE <<BaseShell(g)>>]
    /\ thread' = [g \in Groups |-> IF g = 0 THEN <<[Top EXCEPT !.pc = "pit_init"]>>
                                            ELSE <<FakeFrame(BaseShell(g))>>]
    /\ active_pid' = [g \in Groups |-> IF g = 0 THEN 0 ELSE BaseShell(g)]
    /\ pcb' = [p \in Pids |-> IF p - 1 \in Groups \ {0}
                              THEN [ZeroPCB EXCEPT !.kernel_esp = p - 1, !.tss_esp0 = get_kstack_addr(p)]
                              ELSE pcb[p]]
    /\ UNCHANGED <<pic, IF_flag, current_group, dying, tss_esp0, fate, races>>

pit_init ==
    /\ At({BOOT}, "pit_init")
    /\ enable_irq(IRQ_PIT) /\ IF_flag' = TRUE /\ GoTo("loop")
    /\ UNCHANGED <<isr, current_group, procs, tables, tss_esp0, fate, races>>

Boot == i8259_init \/ rtc_init \/ keyboard_init \/ static_start_shells \/ pit_init

-----------------------------------------------------------------------------
\* The code of the group that has the CPU.
Code == \/ save_tss_esp \/ iret \/ DeviceMask \/ DeviceEoi \/ DeviceUnmask \/ TickEoi
        \/ schedule_next \/ Execute \/ ExecuteFails \/ OtherCall \/ system_halt \/ pcb_teardown
        \/ Boot

Next == Code \/ SystemCall \/ Exception \/ \E irq \in Irqs : Interrupt(irq)

Spec == Init /\ [][Next]_vars

-----------------------------------------------------------------------------
(* Properties. *)

Frames(g) == Range(thread[g])

\* Every variable has its type.
TypeOK ==
    /\ isr \subseteq Lines /\ imr \subseteq Lines /\ IF_flag \in BOOLEAN
    /\ current_group \in Groups /\ races \in 0..MAX_RACES
    /\ \A g \in Groups : procs[g] \in Seq(Pids) /\ procs[g] # <<>>
    /\ \A g \in Groups : \A f \in Frames(g) :
          /\ f.kind \in Irqs \cup {BOOT, CALL, EXC} /\ f.ring \in {0, 3} /\ f.pid \in Pids
          /\ f.esp \in Nat /\ f.flags \in BOOLEAN
    /\ tss_esp0 \in [pid : Pids, depth : Nat] /\ pcb \in [Pids -> PCB]
    /\ active_pid \in [Groups -> Pids] /\ dying \in [Groups -> Pids \cup {NoPid}]
    /\ crashed \in BOOLEAN /\ stolen \in BOOLEAN

\* In user mode, tss.esp0 lies on the kernel stack of the process that runs:
\* whatever nested, switched, executed or halted before.
OwnStack == UserMode => tss_esp0.pid = Self

\* The kernel stack starts at its base again whenever the process runs in user
\* mode, but for the frames lost to interrupts that hit the iret stub between
\* its store to tss.esp0 and its iret: each lowers the start by at most eight
\* words, and nothing ever raises it again.
StackDrift ==
    UserMode => tss_esp0.depth <= races * (FrameWords(3) + 3)

\* No two frames in use share a word: each is below the ones before it on its
\* stack, and a stack serves one group (the frame's own words are the last
\* FrameWords above esp).
FramesApart ==
    \A g, h \in Groups : \A i \in DOMAIN thread[g] : \A j \in DOMAIN thread[h] :
        LET e == thread[g][i]  f == thread[h][j]
        IN  e.pid = f.pid => /\ g = h
                             /\ i < j => e.esp <= f.esp - FrameWords(f.ring)

\* A line is in service or masked only while a handler that will release it
\* has a frame, in whichever group; there is at most one such handler a line.
LinesHeld ==
    LET holders(irq, points) ==
            {f \in AllFrames : thread[f[1]][f[2]].kind = irq /\ thread[f[1]][f[2]].pc \in points}
        devicesOn == thread[0][1].pc \notin {"i8259_init", "rtc_init", "keyboard_init"}
    IN  /\ \A irq \in Irqs :
              Cardinality(holders(irq, {"start", "masked"})) = IF irq \in isr THEN 1 ELSE 0
        /\ SLAVE_IRQ_LINE \in isr <=> IRQ_RTC \in isr
        /\ devicesOn => \A irq \in {IRQ_KB, IRQ_RTC} :
              Cardinality(holders(irq, {"masked", "acknowledged"})) = IF irq \in imr THEN 1 ELSE 0

\* A tick continues a group with the context the group saved, and a halt returns
\* to the parent that executed the program, whatever is torn down meanwhile by
\* whichever group: the one way to lose a context is that an execute takes a PID
\* between the statement of pcb_teardown that frees it and the one that clears
\* its PCB.
ContextsKept == crashed => stolen

\* The kernel stacks are sound as long as contexts are: an entry from user mode
\* starts on the running process's own stack, near its base, and no frame lies on
\* another, even after a PID was stolen, up to the step that loses a context.
StacksSound == TypeOK /\ ContextsKept /\ (~crashed => OwnStack /\ StackDrift /\ FramesApart)

=============================================================================
