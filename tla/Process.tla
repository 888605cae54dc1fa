------------------------------- MODULE Process -------------------------------
(* Processes of the mp3 kernel: the PCB table (pcb.c), system_execute,       *)
(* system_halt, system_vidmap and the return path of execute (system.c), the *)
(* round-robin scheduler driven by the PIT (scheduler.c) and the two         *)
(* mappings it maintains: the 4 MB program page at PROG_VIRT_ADDR and the    *)
(* 4 KB user video page at VIDEO_USER (paging.c).                            *)
(*                                                                           *)
(* One process group per terminal; each group is one thread of control, and  *)
(* the PIT interrupt moves the CPU from group to group.  system_execute runs *)
(* with interrupts off up to its IRET, so it is one step; the code after     *)
(* return_from_exec runs with interrupts ON, so every assignment it makes to *)
(* state another group can see is a step of its own, with a control point    *)
(* before it at which a tick may fall.                                       *)
EXTENDS Integers

CONSTANTS NUM_OF_PROCESS_GROUPS,  \* 3 in scheduler.h
          MAX_PID,                \* 7 in pcb.h: six processes plus the kernel
          VidmapUsers,            \* bound: the PIDs whose programs call vidmap
          SwitchTargets           \* bound: the terminals the user switches to

ASSUME ProcessAssumption == /\ NUM_OF_PROCESS_GROUPS \in Nat
                            /\ NUM_OF_PROCESS_GROUPS >= 2
                            /\ MAX_PID \in Nat
                            /\ MAX_PID > NUM_OF_PROCESS_GROUPS
                            /\ SwitchTargets \subseteq 0 .. NUM_OF_PROCESS_GROUPS - 1

Groups == 0 .. NUM_OF_PROCESS_GROUPS - 1
Pids   == 0 .. MAX_PID - 1
FAILURE == -1
NoContext == -1            \* kernel_esp of a PCB that holds no saved context

\* What VIDEO_USER is mapped to; a group number stands for its save page.
VIDEO_UNMAPPED == -2
VIDEO_KERNEL   == -1
SavePage(g)    == g

\* Control points of a group.  "user" is user mode, or a system call that does
\* not touch the state of this module.  "loop" is entry()'s shell loop, on the
\* kernel's own stack.  The vidmap points lie between the test of
\* visible_group and the mapping it selects.
VidmapPoints == {"vidmap_screen", "vidmap_save"}
TailPoints   == {"t_map", "t_unmap", "t_free", "t_active", "t_clear"}
Points       == {"user", "loop"} \cup VidmapPoints \cup TailPoints

VARIABLES
  pid_array,      \* pid_array[p]: the entry is not NULL
  active_pid,     \* PID of the leaf process of each group
  pcb,            \* the PCB block of each PID
  current_group,
  visible_group,
  prog_page,      \* PID whose physical page PROG_VIRT_ADDR is mapped to
  video_user,     \* what VIDEO_USER is mapped to
  pc,             \* control point of each group
  kstack,         \* PID whose kernel stack holds the group's frames
  clobbered,      \* groups whose frames another group has run over
  dying,          \* pcb_teardown's local pcb, as a PID
  IF_flag,        \* interrupts enabled on the CPU
  crashed,        \* a context that is not the group's own was restored
  preempted       \* history: the windows in which a tick has fallen

procVars == <<pid_array, active_pid, pcb, kstack, clobbered, dying>>
mapVars  == <<prog_page, video_user>>
vars == <<pid_array, active_pid, pcb, current_group, visible_group, prog_page,
          video_user, pc, kstack, clobbered, dying, IF_flag, crashed,
          preempted>>

\* What a tick may find half done: "page" is the tail of execute after it has
\* mapped the parent's pages, "tree" is pcb_teardown after it has freed the PID,
\* "kernel_stack" is any code running on the kernel's own stack, to which the
\* base shells of all groups return.
Windows == {"page", "tree", "kernel_stack"}
WindowOf(g) ==
  {w \in Windows :
     \/ w = "page" /\ pc[g] \in {"t_unmap", "t_free", "t_active"}
     \/ w = "tree" /\ pc[g] \in {"t_active", "t_clear"}
     \/ w = "kernel_stack" /\ kstack[g] = 0}

PCB == [pid : Pids, parent_pid : -1 .. MAX_PID - 1,
        eip : {"none", "entry", "return_from_exec"},
        kernel_esp : Groups \cup {NoContext}, vid_map_called : BOOLEAN]

\* memset(pcb, 0, sizeof(pcb_t))
ZeroPCB == [pid |-> 0, parent_pid |-> 0, eip |-> "none",
            kernel_esp |-> NoContext, vid_map_called |-> FALSE]

-----------------------------------------------------------------------------
(* Boot: pcb_init, then static_start_shell for the groups other than the     *)
(* first, whose fake interrupt frames count as saved contexts, then entry()  *)
(* reaches its shell loop with the PIT running.                              *)

BaseShell(g) == g + 1

BaseShells   == {BaseShell(g) : g \in Groups \ {0}}

BootPCB(p) ==
  IF p = 0 THEN [ZeroPCB EXCEPT !.parent_pid = -1]
  ELSE IF p \in BaseShells
       THEN [ZeroPCB EXCEPT !.pid = p, !.eip = "entry", !.kernel_esp = p - 1]
       ELSE ZeroPCB

Init ==
  /\ pid_array = [p \in Pids |-> p = 0 \/ p \in BaseShells]
  /\ active_pid = [g \in Groups |-> IF g = 0 THEN 0 ELSE BaseShell(g)]
  /\ pcb = [p \in Pids |-> BootPCB(p)]
  /\ current_group = 0
  /\ visible_group = 0
  /\ prog_page = 2
  /\ video_user = VIDEO_UNMAPPED
  /\ pc = [g \in Groups |-> IF g = 0 THEN "loop" ELSE "user"]
  /\ kstack = active_pid
  /\ clobbered = {}
  /\ dying = [g \in Groups |-> 0]
  /\ IF_flag = TRUE
  /\ crashed = FALSE
  /\ preempted = {}

-----------------------------------------------------------------------------
(* system_execute, up to the IRET into the child: interrupts are off.        *)

\* The lowest PID whose entry is NULL.
get_new_pid(arr) ==
  IF \E p \in Pids : ~arr[p]
  THEN CHOOSE p \in Pids : ~arr[p] /\ \A q \in Pids : q < p => arr[q]
  ELSE FAILURE

Self == active_pid[current_group]

\* At control point s in the group the CPU is running.
At(s) == ~crashed /\ pc[current_group] = s
Goto(s) == pc' = [pc EXCEPT ![current_group] = s]

\* The running group continues on p's kernel stack, over the frames of any
\* other group that is suspended there.
RunOnStack(p) ==
  /\ kstack' = [kstack EXCEPT ![current_group] = p]
  /\ clobbered' = clobbered \cup
                    {g \in Groups \ {current_group} : kstack[g] = p}

\* No free PID: FAILURE is returned with interrupts still off.  The IRET of a
\* system call restores the caller's IF; entry()'s loop keeps running with
\* interrupts off.
ExecuteNoPid ==
  /\ At("user") \/ At("loop")
  /\ get_new_pid(pid_array) = FAILURE
  /\ IF_flag' = (pc[current_group] = "user")
  /\ UNCHANGED <<procVars, mapVars, pc, current_group, visible_group, crashed,
                 preempted>>

\* The file cannot be opened or is not an executable: the child's PCB is set
\* up, the program page is switched to the child and back, and pcb_teardown
\* undoes pcb_setup.  entry()'s "shell" is always loadable.
ExecuteBadFile ==
  /\ At("user")
  /\ LET child == get_new_pid(pid_array) IN
       /\ child # FAILURE
       /\ pcb' = [pcb EXCEPT ![child] = ZeroPCB]
  /\ prog_page' = pcb[Self].pid
  /\ UNCHANGED <<pid_array, active_pid, kstack, clobbered, dying, video_user,
                 pc, current_group, visible_group, IF_flag, crashed, preempted>>

\* Mutant: the return address is not saved in the parent's PCB.
ExecutePCBs_no_eip(child) ==
  [pcb EXCEPT ![child] = [ZeroPCB EXCEPT !.pid = child, !.parent_pid = Self,
                                         !.eip = "entry"]]

\* pcb_setup fills the child's PCB; the parent's receives the address its
\* system_execute continues at when the child halts.
ExecutePCBs(child) ==
  [pcb EXCEPT ![child] = [ZeroPCB EXCEPT !.pid = child, !.parent_pid = Self,
                                         !.eip = "entry"],
              ![Self].eip = "return_from_exec"]

Execute ==
  /\ At("user") \/ At("loop")
  /\ LET child == get_new_pid(pid_array) IN
       /\ child # FAILURE
       /\ pid_array' = [pid_array EXCEPT ![child] = TRUE]
       /\ active_pid' = [active_pid EXCEPT ![current_group] = child]
       /\ pcb' = ExecutePCBs(child)
       /\ prog_page' = child
       /\ RunOnStack(child)
  /\ Goto("user")
  /\ IF_flag' = TRUE
  /\ UNCHANGED <<dying, video_user, current_group, visible_group, crashed,
                 preempted>>

-----------------------------------------------------------------------------
(* system_halt (also reached from do_exc): continue at the parent's saved    *)
(* eip, on the parent's kernel stack.  A parent that never executed anything *)
(* has no eip to continue at.                                                *)

Halt ==
  /\ At("user")
  /\ LET parent == pcb[Self].parent_pid IN
       IF parent \in Pids /\ pcb[parent].eip = "return_from_exec"
       THEN RunOnStack(parent) /\ Goto("t_map") /\ UNCHANGED crashed
       ELSE crashed' = TRUE /\ UNCHANGED <<kstack, clobbered, pc>>
  /\ UNCHANGED <<pid_array, active_pid, pcb, dying, mapVars, current_group,
                 visible_group, IF_flag, preempted>>

(* return_from_exec: the rest of the parent's system_execute.  parent_pcb is *)
(* a local of the frame on the stack switched to.                            *)
\* Mutant: the child's PCB is used in place of the parent's.
parent_pcb_child == pcb[Self]

parent_pcb == pcb[kstack[current_group]]

TailMapPage ==
  /\ At("t_map")
  /\ prog_page' = parent_pcb.pid
  /\ Goto("t_unmap")
  /\ UNCHANGED <<procVars, video_user, current_group, visible_group, IF_flag,
                 crashed, preempted>>

\* Mutant: the child's mapping is left in place.
TailUnmapVideo_skip ==
  /\ At("t_unmap")
  /\ Goto("t_free")
  /\ UNCHANGED <<procVars, mapVars, current_group, visible_group, IF_flag,
                 crashed, preempted>>

TailUnmapVideo ==
  /\ At("t_unmap")
  /\ video_user' = IF parent_pcb.vid_map_called THEN video_user
                                                ELSE VIDEO_UNMAPPED
  /\ Goto("t_free")
  /\ UNCHANGED <<procVars, prog_page, current_group, visible_group, IF_flag,
                 crashed, preempted>>

(* pcb_teardown, entered with interrupts on.                                 *)
\* Mutant: the entry is not cleared.
Cleared_leak(p) == pid_array
Cleared(p) == [pid_array EXCEPT ![p] = FALSE]

TeardownFree ==
  /\ At("t_free")
  /\ dying' = [dying EXCEPT ![current_group] = Self]
  /\ pid_array' = Cleared(Self)
  /\ Goto("t_active")
  /\ UNCHANGED <<active_pid, pcb, kstack, clobbered, mapVars, current_group,
                 visible_group, IF_flag, crashed, preempted>>

TeardownActive ==
  /\ At("t_active")
  /\ LET parent == pcb[dying[current_group]].parent_pid IN
       IF parent \in Pids
       THEN /\ active_pid' = [active_pid EXCEPT ![current_group] = parent]
            /\ Goto("t_clear")
            /\ UNCHANGED crashed
       ELSE crashed' = TRUE /\ UNCHANGED <<active_pid, pc>>
  /\ UNCHANGED <<pid_array, pcb, kstack, clobbered, dying, mapVars,
                 current_group, visible_group, IF_flag, preempted>>

\* Mutant: the PCB is looked up again after active_pid has changed.
ToClear_again == Self
\* pcb_teardown memsets the PCB it looked up at its start.
ToClear == dying[current_group]

\* Clear the PCB and return: to user mode, or for a base shell to entry().
TeardownClear ==
  /\ At("t_clear")
  /\ pcb' = [pcb EXCEPT ![ToClear] = ZeroPCB]
  /\ dying' = [dying EXCEPT ![current_group] = 0]
  /\ Goto(IF kstack[current_group] = 0 THEN "loop" ELSE "user")
  /\ UNCHANGED <<pid_array, active_pid, kstack, clobbered, mapVars,
                 current_group, visible_group, IF_flag, crashed, preempted>>

-----------------------------------------------------------------------------
(* system_vidmap: mark, test visible_group, then map.                        *)

VidmapMark ==
  /\ At("user")
  /\ Self \in VidmapUsers
  /\ pcb' = [pcb EXCEPT ![Self].vid_map_called = TRUE]
  /\ Goto(IF visible_group = current_group THEN "vidmap_screen"
                                           ELSE "vidmap_save")
  /\ UNCHANGED <<pid_array, active_pid, kstack, clobbered, dying, mapVars,
                 current_group, visible_group, IF_flag, crashed, preempted>>

VidmapMap ==
  /\ At("vidmap_screen") \/ At("vidmap_save")
  /\ video_user' = IF pc[current_group] = "vidmap_screen"
                   THEN VIDEO_KERNEL ELSE SavePage(current_group)
  /\ Goto("user")
  /\ UNCHANGED <<procVars, prog_page, current_group, visible_group, IF_flag,
                 crashed, preempted>>

-----------------------------------------------------------------------------
(* Interrupts.                                                               *)

\* Mutant: the wrap comes one group early.
NextGroup_early == IF current_group + 1 >= NUM_OF_PROCESS_GROUPS - 1 THEN 0
                   ELSE current_group + 1

NextGroup == IF current_group + 1 >= NUM_OF_PROCESS_GROUPS THEN 0
                                                       ELSE current_group + 1

\* Mutant: the save page is computed from the group switched away from.
VideoPage_old(g) == IF visible_group = g THEN VIDEO_KERNEL
                                         ELSE SavePage(current_group)
VideoPage(g) == IF visible_group = g THEN VIDEO_KERNEL ELSE SavePage(g)

\* schedule_next on IRQ 0: save the context in the PCB of the old group's
\* active process, remap both pages for the new one and continue with the
\* context saved in its PCB.  That context is the new group's only if that
\* group saved it there and no one has run over its frames since.  kernel_esp
\* holds a group only while its context waits in the PCB.
schedule_next ==
  /\ ~crashed
  /\ IF_flag
  /\ LET new   == NextGroup
         saved == [pcb EXCEPT ![Self].kernel_esp = current_group]
         p     == active_pid[new]
         to    == saved[p]
     IN /\ current_group' = new
        /\ pcb' = [saved EXCEPT ![p].kernel_esp = NoContext]
        /\ video_user' = IF to.vid_map_called THEN VideoPage(new)
                                              ELSE VIDEO_UNMAPPED
        /\ prog_page' = to.pid
        /\ crashed' = ~(to.kernel_esp = new /\ new \notin clobbered)
  /\ preempted' = preempted \cup WindowOf(current_group)
  /\ UNCHANGED <<pid_array, active_pid, pc, kstack, clobbered, dying,
                 visible_group, IF_flag>>

\* Alt-F1..F3 in the keyboard handler.
switch_term(g) ==
  /\ ~crashed
  /\ IF_flag
  /\ visible_group' = g
  /\ UNCHANGED <<procVars, mapVars, current_group, pc, IF_flag, crashed,
                 preempted>>

-----------------------------------------------------------------------------
TailStep == \/ TailMapPage \/ TailUnmapVideo
            \/ TeardownFree \/ TeardownActive \/ TeardownClear

Next == \/ ExecuteNoPid \/ ExecuteBadFile \/ Execute
        \/ Halt \/ TailMapPage \/ TailUnmapVideo
        \/ TeardownFree \/ TeardownActive \/ TeardownClear
        \/ VidmapMark \/ VidmapMap
        \/ schedule_next
        \/ \E g \in SwitchTargets : switch_term(g)

Spec == Init /\ [][Next]_vars

(* Fairness.  The PIT keeps interrupting whenever interrupts are on, and in  *)
(* its 25 ms a group executes many times the instructions of the tail of     *)
(* execute or of entry()'s loop: the group the CPU visits again and again    *)
(* gets through them.  User programs owe nothing.                            *)
KernelStep(g) == /\ current_group = g
                 /\ \/ TailStep
                    \/ VidmapMap
                    \/ At("loop") /\ (Execute \/ ExecuteNoPid)

FairSpec == /\ Spec
            /\ WF_vars(schedule_next)
            /\ \A g \in Groups : SF_vars(KernelStep(g))

-----------------------------------------------------------------------------
(* Properties.                                                               *)

(* The state of the process table, the mappings and the groups' control     *)
(* points stays in its types: every PID the code indexes with is in range.   *)
TypeOK ==
  /\ pid_array \in [Pids -> BOOLEAN]
  /\ active_pid \in [Groups -> Pids]
  /\ pcb \in [Pids -> PCB]
  /\ current_group \in Groups
  /\ visible_group \in Groups
  /\ prog_page \in Pids
  /\ video_user \in {VIDEO_UNMAPPED, VIDEO_KERNEL} \cup Groups
  /\ pc \in [Groups -> Points]
  /\ kstack \in [Groups -> Pids]
  /\ clobbered \subseteq Groups
  /\ dying \in [Groups -> Pids]
  /\ IF_flag \in BOOLEAN
  /\ crashed \in BOOLEAN
  /\ preempted \subseteq Windows

\* A tick has fallen in pcb_teardown after it freed the PID, or on code that
\* runs on the kernel's stack.
Torn == preempted \cap {"tree", "kernel_stack"} # {}

\* A PID in use: its entry is set, or pcb_teardown has just cleared it and the
\* group still names the process as its active one.
Present(p) == pid_array[p] \/ \E g \in Groups : pc[g] = "t_active" /\ active_pid[g] = p
Processes == {p \in Pids \ {0} : Present(p)}

(* Every process of a group but its leaf has exactly one child, the leaf has *)
(* none, and the leaves are the groups' active_pid entries, all different:   *)
(* no PID is leaked, none serves two groups.  pcb_setup and pcb_teardown keep *)
(* it so as long as no tick tears a teardown.                                *)
OneChild == \A p, q \in Processes :
              p # q /\ pcb[p].parent_pid = pcb[q].parent_pid => pcb[p].parent_pid = 0
LeafActive == \A p \in Processes, g \in Groups :
                pcb[p].parent_pid = active_pid[g] => active_pid[g] = 0
DistinctActive == \A g, h \in Groups : g # h => active_pid[g] # active_pid[h]
NoOrphan == \A p \in Processes :
              \/ \E g \in Groups : active_pid[g] = p
              \/ \E q \in Processes : pcb[q].parent_pid = p
ProcessTree == ~Torn => OneChild /\ LeafActive /\ DistinctActive /\ NoOrphan

(* schedule_next only ever restores a context its group saved, on frames no  *)
(* one ran over, and a halting process finds a parent to continue: what goes *)
(* wrong goes wrong through a torn teardown or a shared kernel stack.        *)
ContextsIntact == crashed => Torn

(* A process in user mode runs on its own program page, unless a tick fell   *)
(* between map_page(parent) and the end of pcb_teardown.                     *)
OwnProgramPage ==
  At("user") /\ preempted = {} => prog_page = Self

(* VIDEO_USER never shows a group another group's save page, whatever the    *)
(* timing of ticks, vidmap calls and terminal switches.                      *)
VideoIsolation ==
  ~crashed => video_user \in {VIDEO_UNMAPPED, VIDEO_KERNEL, SavePage(current_group)}

\* A set of PIDs with the leaf of g and the parent of each of its members.
Ancestral(S, g) ==
  /\ active_pid[g] \in S
  /\ \A p \in S : pcb[p].parent_pid \in Pids => pcb[p].parent_pid \in S

\* A process of g, from its leaf up to the kernel, has called vidmap: the chain
\* is the smallest of these sets, so one in every set is one in the chain.
Granted(g) ==
  \A S \in SUBSET Pids : Ancestral(S, g) => \E p \in S : pcb[p].vid_map_called

(* A process in user mode finds VIDEO_USER mapped only if it or an ancestor  *)
(* called vidmap: a child's mapping does not outlive it (system.c:267).      *)
VideoGranted ==
  At("user") /\ preempted = {} /\ video_user # VIDEO_UNMAPPED => Granted(current_group)

(* No step gives a live process another parent or takes away the address its *)
(* execute returns to: pcb_teardown clears the PCB of the process that ended *)
(* and no other.                                                             *)
ParentStable ==
  [][~Torn' => \A p \in Processes \cap Processes' :
       /\ pcb'[p].parent_pid = pcb[p].parent_pid
       /\ pcb[p].eip = "return_from_exec" => pcb'[p].eip = pcb[p].eip]_vars

(* Every group keeps getting the CPU, whatever the others do.                *)
RoundRobin == [](~Torn) => \A g \in Groups : []<>(current_group = g)

(* A halt completes: the parent is back in user mode, or for a base shell a  *)
(* new shell runs in the group.                                              *)
HaltCompletes ==
  [](~Torn) => \A g \in Groups : pc[g] \in TailPoints ~> pc[g] = "user"

(* Every group makes progress: it gets the CPU again and again, and what it  *)
(* began in the kernel ends.                                                 *)
GroupsProgress == RoundRobin /\ HaltCompletes

-----------------------------------------------------------------------------
(* The inductive invariant behind ProcessTree, ContextsIntact and            *)
(* OwnProgramPage.                                                           *)

\* A group that is not running was interrupted outside the torn windows, and
\* its context waits in the PCB of its active process.
SuspendedOK ==
  \A g \in Groups \ {current_group} :
    /\ pc[g] \notin {"t_active", "t_clear", "loop"}
    /\ kstack[g] # 0
    /\ pcb[active_pid[g]].kernel_esp = g

\* The kernel stack a group runs on is that of its active process, or in the
\* tail of execute that of the parent.
StackOK ==
  \A g \in Groups :
    /\ pc[g] \in {"user", "t_clear"} \cup VidmapPoints => kstack[g] = active_pid[g]
    /\ pc[g] \in TailPoints \ {"t_clear"} => kstack[g] = pcb[active_pid[g]].parent_pid
    /\ pc[g] \in {"t_clear", "loop"} \/ active_pid[g] # 0
    /\ pc[g] = "loop" => kstack[g] = 0 /\ active_pid[g] = 0

\* The table entries behind the processes.
TableOK ==
  /\ pid_array[0]
  /\ pcb[0].pid = 0
  /\ pcb[0].eip = "return_from_exec" \/ pc[current_group] = "loop"
  /\ \A g \in Groups : pc[g] # "t_active" => pid_array[active_pid[g]]
  /\ \A g \in Groups : pc[g] = "t_active" => ~pid_array[active_pid[g]]
  /\ \A p \in Processes : /\ pcb[p].pid = p
                          /\ pcb[p].parent_pid \in Pids
                          /\ pid_array[pcb[p].parent_pid]
                          /\ pcb[p].parent_pid # p
                          /\ pcb[p].parent_pid # 0
                               => pcb[pcb[p].parent_pid].eip = "return_from_exec"

DyingOK ==
  \A g \in Groups :
    /\ pc[g] = "t_active" => dying[g] = active_pid[g]
    /\ pc[g] = "t_clear" => dying[g] \notin Processes \cup {0}

PageOK ==
  preempted = {} =>
    /\ pc[current_group] \in {"user"} \cup VidmapPoints => prog_page = active_pid[current_group]
    /\ pc[current_group] \in TailPoints \ {"t_map"} => prog_page = kstack[current_group]
    /\ \A g \in Groups \ {current_group} : pc[g] \notin {"t_unmap", "t_free"}

\* Behind VideoGranted: a mapping is there on account of the running process or
\* an ancestor, and once the tail of execute has dealt with it, of the parent.
VideoOK ==
  preempted = {} =>
    /\ pcb[0].parent_pid = -1
    /\ \A g \in Groups : pc[g] \in VidmapPoints => pcb[active_pid[g]].vid_map_called
    /\ video_user # VIDEO_UNMAPPED =>
         /\ pc[current_group] \in {"t_free", "t_active", "t_clear"}
              => pcb[kstack[current_group]].vid_map_called
         /\ pc[current_group] \notin {"t_free", "t_active"} => Granted(current_group)

Core == /\ ~crashed
        /\ clobbered = {}
        /\ OneChild /\ LeafActive /\ DistinctActive /\ NoOrphan
        /\ SuspendedOK /\ StackOK /\ TableOK /\ DyingOK /\ PageOK

IInv == TypeOK /\ (~Torn => Core)

=============================================================================
