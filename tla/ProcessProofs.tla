---------------------------- MODULE ProcessProofs ----------------------------
(* Theorems about Process, for every number of groups and of PIDs.           *)
EXTENDS Process, TLAPS, WellFoundedInduction

USE ProcessAssumption

(* get_new_pid returns a PID whose entry is NULL, or FAILURE.                *)
LEMMA NewPidFree ==
  ASSUME NEW arr \in [Pids -> BOOLEAN], get_new_pid(arr) # FAILURE
  PROVE  get_new_pid(arr) \in Pids /\ ~arr[get_new_pid(arr)]
<1> DEFINE Free == {p \in Pids : ~arr[p]}
           R == OpToRel(<, Nat)
<1>1. Free # {} /\ Free \subseteq Nat
  BY DEF get_new_pid, Pids
<1>2. PICK x \in Free : \A y \in Free : ~(<<y, x>> \in R)
  <2> HIDE DEF Free, R
  <2> IsWellFoundedOn(R, Nat)
    BY NatLessThanWellFounded DEF R
  <2> QED BY <1>1, WFMin, Zenon
<1>3. x \in Pids /\ ~arr[x] /\ \A q \in Pids : q < x => arr[q]
  <2>1. ASSUME NEW q \in Pids, q < x, ~arr[q] PROVE FALSE
    <3>1. q \in Free /\ x \in Nat /\ q \in Nat BY <2>1 DEF Pids
    <3>2. <<q, x>> \in R BY <3>1, <2>1 DEF OpToRel
    <3> QED BY <3>1, <3>2, <1>2
  <2> QED BY <2>1
<1> QED
  BY <1>3 DEF get_new_pid

(* The PCBs the operations write are PCBs.                                   *)
LEMMA PCBTypes ==
  /\ ZeroPCB \in PCB
  /\ \A b \in PCB : \A g \in Groups \cup {NoContext} :
       [b EXCEPT !.kernel_esp = g] \in PCB
  /\ \A p, q \in Pids :
       [ZeroPCB EXCEPT !.pid = p, !.parent_pid = q, !.eip = "entry"] \in PCB
  /\ \A b \in PCB : [b EXCEPT !.eip = "return_from_exec"] \in PCB
  /\ \A b \in PCB : [b EXCEPT !.vid_map_called = TRUE] \in PCB
<1> USE DEF PCB, NoContext
<1>1. ZeroPCB \in PCB
  BY DEF ZeroPCB, Pids, Groups
<1>2. \A b \in PCB : \A g \in Groups \cup {NoContext} :
        [b EXCEPT !.kernel_esp = g] \in PCB
  OBVIOUS
<1>3. \A p, q \in Pids :
        [ZeroPCB EXCEPT !.pid = p, !.parent_pid = q, !.eip = "entry"] \in PCB
  <2> SUFFICES ASSUME NEW p \in Pids, NEW q \in Pids
               PROVE  [ZeroPCB EXCEPT !.pid = p, !.parent_pid = q, !.eip = "entry"]
                        \in PCB
    OBVIOUS
  <2>1. q \in -1 .. MAX_PID - 1
    BY DEF Pids
  <2> QED
    BY <1>1, <2>1
<1>4. \A b \in PCB : [b EXCEPT !.eip = "return_from_exec"] \in PCB
  OBVIOUS
<1>5. \A b \in PCB : [b EXCEPT !.vid_map_called = TRUE] \in PCB
  OBVIOUS
<1> QED
  BY <1>1, <1>2, <1>3, <1>4, <1>5

(* Type correctness is inductive by itself.                                  *)
LEMMA Typing == TypeOK /\ [Next]_vars => TypeOK'
<1> SUFFICES ASSUME TypeOK, [Next]_vars PROVE TypeOK'
  OBVIOUS
<1> USE DEF TypeOK, Points, TailPoints, VidmapPoints
<1>0. Self \in Pids BY DEF Self
<1>1. CASE ExecuteNoPid
  BY <1>1 DEF ExecuteNoPid, procVars, mapVars
<1>2. CASE ExecuteBadFile
  <2>1. pcb' \in [Pids -> PCB]
    BY <1>2, NewPidFree, PCBTypes DEF ExecuteBadFile
  <2>2. prog_page' \in Pids
    BY <1>0, <1>2 DEF ExecuteBadFile, PCB
  <2> QED BY <1>2, <2>1, <2>2 DEF ExecuteBadFile
<1>3. CASE Execute
  <2> DEFINE child == get_new_pid(pid_array)
  <2>1. child \in Pids /\ pcb' = ExecutePCBs(child)
    BY <1>3, NewPidFree DEF Execute
  <2>2. pcb' \in [Pids -> PCB]
    <3> HIDE DEF child
    <3> QED BY <1>0, <2>1, PCBTypes DEF ExecutePCBs
  <2> QED
    BY <1>0, <1>3, <2>1, <2>2 DEF Execute, RunOnStack, Goto
<1>4. CASE Halt
  BY <1>0, <1>4 DEF Halt, mapVars, RunOnStack, Goto
<1>5. CASE TailMapPage
  BY <1>5 DEF TailMapPage, procVars, parent_pcb, Goto, PCB
<1>6. CASE TailUnmapVideo
  BY <1>6 DEF TailUnmapVideo, procVars, Goto
<1>7. CASE TeardownFree
  BY <1>0, <1>7 DEF TeardownFree, mapVars, Goto, Cleared
<1>8. CASE TeardownActive
  BY <1>8 DEF TeardownActive, mapVars, Goto
<1>9. CASE TeardownClear
  <2>1. pcb' \in [Pids -> PCB]
    BY <1>9, PCBTypes DEF TeardownClear, ToClear
  <2>2. 0 \in Pids
    BY DEF Pids
  <2>3. dying' \in [Groups -> Pids] /\ pc' \in [Groups -> Points]
    BY <1>9, <2>2 DEF TeardownClear, Goto
  <2> QED
    BY <1>9, <2>1, <2>3 DEF TeardownClear, mapVars
<1>10. CASE VidmapMark
  BY <1>0, <1>10, PCBTypes DEF VidmapMark, mapVars, Goto
<1>11. CASE VidmapMap
  BY <1>11 DEF VidmapMap, procVars, Goto, SavePage
<1>12. CASE schedule_next
  <2> DEFINE saved == [pcb EXCEPT ![Self].kernel_esp = current_group]
  <2>1. NextGroup \in Groups
    BY DEF NextGroup, Groups
  <2>2. saved \in [Pids -> PCB]
    BY <1>0, PCBTypes
  <2>3. /\ current_group' = NextGroup
        /\ pcb' = [saved EXCEPT ![active_pid[NextGroup]].kernel_esp = NoContext]
        /\ prog_page' = saved[active_pid[NextGroup]].pid
    BY <1>12 DEF schedule_next
  <2>4. pcb' \in [Pids -> PCB] /\ prog_page' \in Pids
    <3> HIDE DEF saved
    <3>1. active_pid[NextGroup] \in Pids BY <2>1
    <3>2. pcb' \in [Pids -> PCB] BY <2>2, <2>3, <3>1, PCBTypes
    <3> QED BY <2>2, <2>3, <3>1, <3>2 DEF PCB
  <2>5. video_user' \in {VIDEO_UNMAPPED, VIDEO_KERNEL} \cup Groups
    BY <1>12, <2>1 DEF schedule_next, VideoPage, SavePage
  <2>6. preempted' \subseteq Windows
    BY <1>12 DEF schedule_next, WindowOf
  <2>7. crashed' \in BOOLEAN
    BY <1>12 DEF schedule_next
  <2> QED
    BY <1>12, <2>1, <2>3, <2>4, <2>5, <2>6, <2>7 DEF schedule_next
<1>13. CASE \E g \in SwitchTargets : switch_term(g)
  BY <1>13 DEF switch_term, procVars, mapVars, Groups
<1>14. CASE UNCHANGED vars
  BY <1>14 DEF vars
<1> QED
  BY <1>1, <1>2, <1>3, <1>4, <1>5, <1>6, <1>7, <1>8, <1>9, <1>10, <1>11,
     <1>12, <1>13, <1>14 DEF Next

(* The base shells started at boot are the PIDs 2 .. NUM_OF_PROCESS_GROUPS.  *)
LEMMA BaseShellPids == BaseShells = 2 .. NUM_OF_PROCESS_GROUPS
<1>1. BaseShells \subseteq 2 .. NUM_OF_PROCESS_GROUPS
  BY DEF BaseShells, BaseShell, Groups
<1>2. ASSUME NEW p \in 2 .. NUM_OF_PROCESS_GROUPS PROVE p \in BaseShells
  <2>1. p - 1 \in Groups \ {0} /\ BaseShell(p - 1) = p
    BY DEF BaseShell, Groups
  <2> QED BY <2>1 DEF BaseShells
<1> QED BY <1>1, <1>2

(* Boot leaves a well-typed state.                                           *)
LEMMA InitTyped == Init => TypeOK
<1> SUFFICES ASSUME Init PROVE TypeOK
  OBVIOUS
<1>1. pcb \in [Pids -> PCB]
  <2>1. ASSUME NEW p \in Pids PROVE BootPCB(p) \in PCB
    <3>1. -1 \in -1 .. MAX_PID - 1
      OBVIOUS
    <3>2. [ZeroPCB EXCEPT !.parent_pid = -1] \in PCB
      BY <3>1, PCBTypes DEF PCB
    <3>3. ASSUME p \in BaseShells
          PROVE  [ZeroPCB EXCEPT !.pid = p, !.eip = "entry", !.kernel_esp = p - 1] \in PCB
      <4>1. p - 1 \in Groups
        BY <3>3, BaseShellPids DEF Groups
      <4> QED BY <4>1, PCBTypes DEF PCB
    <3> QED BY <3>2, <3>3, PCBTypes DEF BootPCB
  <2>2. pcb = [p \in Pids |-> BootPCB(p)]
    BY DEF Init
  <2> QED BY <2>1, <2>2
<1>2. active_pid \in [Groups -> Pids]
  <2>1. ASSUME NEW g \in Groups PROVE (IF g = 0 THEN 0 ELSE BaseShell(g)) \in Pids
    BY DEF BaseShell, Groups, Pids
  <2>2. active_pid = [g \in Groups |-> IF g = 0 THEN 0 ELSE BaseShell(g)]
    BY DEF Init
  <2> QED BY <2>1, <2>2
<1>3. pid_array \in [Pids -> BOOLEAN]
  BY DEF Init
<1>4. 0 \in Groups /\ 0 \in Pids /\ 2 \in Pids
  BY DEF Groups, Pids
<1>5. pc \in [Groups -> Points]
  BY DEF Init, Points
<1>6. kstack \in [Groups -> Pids] /\ dying \in [Groups -> Pids]
  BY <1>2, <1>4 DEF Init
<1> QED
  BY <1>1, <1>2, <1>3, <1>4, <1>5, <1>6 DEF Init, TypeOK

(* Every reachable state is well typed: in particular active_pid, kstack and *)
(* dying always name a PCB block, and current_group a group, for any number  *)
(* of groups and PIDs.                                                       *)
THEOREM TypeCorrect == Spec => []TypeOK
<1>1. Init => TypeOK
  BY InitTyped
<1>2. TypeOK /\ [Next]_vars => TypeOK'
  BY Typing
<1> QED
  BY <1>1, <1>2, PTL DEF Spec

-----------------------------------------------------------------------------
(* Boot: the kernel's loop runs, each other group waits on its base shell's  *)
(* fake context, and nothing is half done.                                   *)
LEMMA InitCore == Init => Core
<1> SUFFICES ASSUME Init PROVE Core
  OBVIOUS
<1>0. TypeOK BY InitTyped
<1>1. BaseShells \subseteq Pids /\ 0 \in Pids /\ 0 \in Groups /\ 0 \notin BaseShells
  BY BaseShellPids DEF Pids, Groups
<1>2. pid_array[0] /\ \A p \in BaseShells : pid_array[p]
  BY <1>1 DEF Init
<1>3. \A g \in Groups : pc[g] = IF g = 0 THEN "loop" ELSE "user"
  BY DEF Init
<1>4. Processes = BaseShells
  <2>1. \A p \in Pids : pid_array[p] <=> p = 0 \/ p \in BaseShells
    BY DEF Init
  <2> QED BY <1>1, <1>3, <2>1 DEF Processes, Present
<1>5. \A p \in BaseShells : /\ pcb[p].pid = p /\ pcb[p].parent_pid = 0
                            /\ pcb[p].kernel_esp = p - 1
  <2> SUFFICES ASSUME NEW p \in BaseShells
               PROVE  /\ pcb[p].pid = p /\ pcb[p].parent_pid = 0
                      /\ pcb[p].kernel_esp = p - 1
    OBVIOUS
  <2>1. pcb[p] = BootPCB(p)
    BY <1>1 DEF Init
  <2> QED BY <1>1, <2>1 DEF BootPCB, ZeroPCB
<1>6. pcb[0].pid = 0
  <2>1. pcb[0] = BootPCB(0)
    BY <1>1 DEF Init
  <2> QED BY <2>1 DEF BootPCB, ZeroPCB
<1>7. \A g \in Groups : active_pid[g] = IF g = 0 THEN 0 ELSE BaseShell(g)
  BY DEF Init
<1>8. \A g \in Groups \ {0} : BaseShell(g) \in BaseShells /\ BaseShell(g) = g + 1
  BY DEF BaseShells, BaseShell
<1>9. \A g \in Groups : kstack[g] = active_pid[g] /\ current_group = 0
  BY DEF Init
<1>10. OneChild /\ LeafActive
  BY <1>1, <1>4, <1>5, <1>7, <1>8 DEF OneChild, LeafActive
<1>11. DistinctActive
  BY <1>1, <1>7, <1>8 DEF DistinctActive, Groups
<1>12. NoOrphan
  BY <1>4, <1>7 DEF NoOrphan, BaseShells
<1>13. SuspendedOK
  <2> SUFFICES ASSUME NEW g \in Groups \ {0}
               PROVE  /\ pc[g] \notin {"t_active", "t_clear", "loop"}
                      /\ kstack[g] # 0
                      /\ pcb[active_pid[g]].kernel_esp = g
    BY <1>1, <1>9 DEF SuspendedOK
  <2>0. PICK p \in BaseShells : p = g + 1
    BY <1>8
  <2>1. pcb[p].kernel_esp = p - 1
    BY <1>5
  <2> QED BY <2>0, <1>1, <1>3, <1>7, <1>8, <1>9, <2>1 DEF Groups
<1>14. StackOK
  BY <1>1, <1>3, <1>7, <1>8, <1>9 DEF StackOK, TailPoints, VidmapPoints
<1>15. TableOK
  BY <1>1, <1>2, <1>3, <1>4, <1>5, <1>6, <1>7, <1>8, <1>9 DEF TableOK
<1>16. DyingOK
  BY <1>3 DEF DyingOK
<1>17. PageOK
  BY <1>1, <1>3, <1>9 DEF PageOK, VidmapPoints, TailPoints
<1>18. ~crashed /\ clobbered = {}
  BY DEF Init
<1> QED
  BY <1>10, <1>11, <1>12, <1>13, <1>14, <1>15, <1>16, <1>17, <1>18 DEF Core

-----------------------------------------------------------------------------
(* Steps that change neither the tables nor who is between the two halves of *)
(* a teardown leave the process tree alone.                                  *)
LEMMA SameProcesses ==
  ASSUME pid_array' = pid_array, active_pid' = active_pid,
         \A g \in Groups : pc'[g] = "t_active" <=> pc[g] = "t_active"
  PROVE  Processes' = Processes
BY DEF Processes, Present

(* The tree depends on the processes, their parents and active_pid alone.    *)
LEMMA SameTree ==
  ASSUME OneChild, LeafActive, DistinctActive, NoOrphan,
         Processes' = Processes, active_pid' = active_pid,
         \A p \in Processes : pcb'[p].parent_pid = pcb[p].parent_pid
  PROVE  OneChild' /\ LeafActive' /\ DistinctActive' /\ NoOrphan'
BY DEF OneChild, LeafActive, DistinctActive, NoOrphan

(* A step of the running group that changes only its control point, within   *)
(* user mode, vidmap and the first half of the tail, and the mappings.       *)
LEMMA QuietStep ==
  ASSUME TypeOK, Core, UNCHANGED <<procVars, current_group, crashed>>,
         NEW s \in Points, Goto(s),
         \/ pc[current_group] = s
         \/ /\ s \notin {"loop", "t_active", "t_clear"}
            /\ pc[current_group] \notin {"loop", "t_active", "t_clear"},
         s \in {"user"} \cup VidmapPoints <=> pc[current_group] \in {"user"} \cup VidmapPoints,
         PageOK'
  PROVE  Core'
<1> USE DEF Core
<1>1. \A g \in Groups : pc'[g] = IF g = current_group THEN s ELSE pc[g]
  BY DEF Goto, TypeOK
<1>2. Processes' = Processes
  BY <1>1, SameProcesses DEF procVars
<1>3. OneChild' /\ LeafActive' /\ DistinctActive' /\ NoOrphan'
  BY <1>2, SameTree DEF procVars
<1>4. SuspendedOK'
  BY <1>1 DEF SuspendedOK, procVars
<1>5. StackOK'
  <2> SUFFICES ASSUME NEW g \in Groups
               PROVE  /\ pc'[g] \in {"user", "t_clear"} \cup VidmapPoints
                            => kstack[g] = active_pid[g]
                      /\ pc'[g] \in TailPoints \ {"t_clear"}
                            => kstack[g] = pcb[active_pid[g]].parent_pid
                      /\ pc'[g] \in {"t_clear", "loop"} \/ active_pid[g] # 0
                      /\ pc'[g] = "loop" => kstack[g] = 0 /\ active_pid[g] = 0
    BY DEF StackOK, procVars
  <2>1. CASE g # current_group
    BY <1>1, <2>1 DEF StackOK
  <2>2. CASE g = current_group
    <3>1. pc[g] \in Points
      BY DEF TypeOK
    <3> QED BY <1>1, <2>2, <3>1 DEF StackOK, TailPoints, VidmapPoints, Points
  <2> QED BY <2>1, <2>2
<1>6. TableOK'
  <2>1. current_group \in Groups /\ pc'[current_group] = s
    BY <1>1 DEF TypeOK
  <2>2. (pcb[0].eip = "return_from_exec" \/ pc[current_group] = "loop")'
    BY <2>1 DEF TableOK, procVars
  <2>3. /\ \A g \in Groups : pc'[g] # "t_active" => pid_array[active_pid[g]]
        /\ \A g \in Groups : pc'[g] = "t_active" => ~pid_array[active_pid[g]]
    BY <1>1 DEF TableOK
  <2> QED BY <1>2, <2>2, <2>3 DEF TableOK, procVars
<1>7. DyingOK'
  BY <1>1, <1>2 DEF DyingOK, procVars
<1> QED
  BY <1>3, <1>4, <1>5, <1>6, <1>7 DEF procVars

(* ExecuteNoPid, the first two steps of the tail of execute, the mapping of  *)
(* vidmap and switch_term touch none of the tables.                          *)
LEMMA QuietActions ==
  ASSUME TypeOK, Core,
         \/ ExecuteNoPid \/ TailMapPage \/ TailUnmapVideo \/ VidmapMap
         \/ \E g \in SwitchTargets : switch_term(g)
  PROVE  Core'
<1> USE DEF At
<1>1. CASE ExecuteNoPid
  <2>1. Goto(pc[current_group])
    BY <1>1 DEF ExecuteNoPid, Goto, TypeOK
  <2>2. PageOK'
    BY <1>1 DEF ExecuteNoPid, Core, PageOK, procVars, mapVars
  <2> QED BY <1>1, <2>1, <2>2, QuietStep DEF ExecuteNoPid, TypeOK
<1>2. CASE \E g \in SwitchTargets : switch_term(g)
  <2>1. Goto(pc[current_group])
    BY <1>2 DEF switch_term, Goto, TypeOK
  <2>2. PageOK'
    BY <1>2 DEF switch_term, Core, PageOK, procVars, mapVars
  <2> QED BY <1>2, <2>1, <2>2, QuietStep DEF switch_term, TypeOK
<1>3. CASE VidmapMap
  <2>2. PageOK'
    BY <1>3 DEF VidmapMap, Core, PageOK, procVars, TypeOK, Goto, VidmapPoints, TailPoints
  <2>3. Goto("user") /\ "user" \in Points
    BY <1>3 DEF VidmapMap, Points
  <2> QED BY <1>3, <2>2, <2>3, QuietStep DEF VidmapMap, VidmapPoints
<1>4. CASE TailMapPage
  <2>1. prog_page' = kstack[current_group]
    <3>1. pcb[kstack[current_group]].pid = kstack[current_group]
      <4>1. /\ current_group \in Groups
            /\ active_pid[current_group] \in Processes
            /\ kstack[current_group] = pcb[active_pid[current_group]].parent_pid
        BY <1>4 DEF TailMapPage, Core, StackOK, TableOK, TailPoints, TypeOK, Processes, Present
      <4>2. pid_array[kstack[current_group]] /\ kstack[current_group] \in Pids
        BY <4>1 DEF Core, TableOK
      <4> QED BY <4>2 DEF Core, TableOK, Processes, Present
    <3> QED BY <1>4, <3>1 DEF TailMapPage, parent_pcb
  <2>2. PageOK'
    BY <1>4, <2>1 DEF TailMapPage, Core, PageOK, procVars, TypeOK, Goto, VidmapPoints
  <2>3. Goto("t_unmap") /\ "t_unmap" \in Points
    BY <1>4 DEF TailMapPage, Points, TailPoints
  <2> QED BY <1>4, <2>2, <2>3, QuietStep DEF TailMapPage, VidmapPoints
<1>5. CASE TailUnmapVideo
  <2>2. PageOK'
    BY <1>5 DEF TailUnmapVideo, Core, PageOK, procVars, TypeOK, Goto, VidmapPoints, TailPoints
  <2>3. Goto("t_free") /\ "t_free" \in Points
    BY <1>5 DEF TailUnmapVideo, Points, TailPoints
  <2> QED BY <1>5, <2>2, <2>3, QuietStep DEF TailUnmapVideo, VidmapPoints
<1> QED
  BY <1>1, <1>2, <1>3, <1>4, <1>5

-----------------------------------------------------------------------------
(* A PID that get_new_pid hands out belongs to nothing alive.                *)
LEMMA FreshPid ==
  ASSUME TypeOK, Core, NEW c \in Pids, ~pid_array[c], pc[current_group] # "t_active"
  PROVE  /\ c # 0 /\ c \notin Processes
         /\ \A g \in Groups : active_pid[g] # c /\ kstack[g] # c
         /\ \A p \in Processes : pcb[p].parent_pid # c
<1> USE DEF Core
<1>1. \A g \in Groups : pc[g] # "t_active"
  BY DEF SuspendedOK
<1>2. \A g \in Groups : active_pid[g] # c
  BY <1>1 DEF TableOK
<1>3. c # 0 /\ c \notin Processes
  BY <1>1 DEF TableOK, Processes, Present
<1>4. \A p \in Processes : pcb[p].parent_pid # c
  BY DEF TableOK
<1>5. ASSUME NEW g \in Groups PROVE kstack[g] # c
  <2>1. pc[g] \in Points /\ active_pid[g] \in Pids
    BY DEF TypeOK
  <2>2. CASE pc[g] \in TailPoints \ {"t_clear"}
    <3>1. active_pid[g] \in Processes
      BY <1>1, <2>1, <2>2 DEF TableOK, StackOK, Processes, Present, TailPoints
    <3> QED BY <1>4, <2>2, <3>1 DEF StackOK
  <2>3. CASE pc[g] \in {"user", "t_clear"} \cup VidmapPoints
    BY <1>2, <2>3 DEF StackOK
  <2>4. CASE pc[g] = "loop"
    BY <1>3, <2>4 DEF StackOK
  <2> QED BY <2>1, <2>2, <2>3, <2>4 DEF Points, TailPoints
<1> QED
  BY <1>2, <1>3, <1>4, <1>5

(* A failed load gives the PID back and the caller its page.                 *)
LEMMA BadFileStep ==
  ASSUME TypeOK, Core, ExecuteBadFile PROVE Core'
<1> USE DEF Core
<1> DEFINE c == get_new_pid(pid_array)
<1>1. c \in Pids /\ ~pid_array[c] /\ pc[current_group] = "user"
  BY NewPidFree DEF ExecuteBadFile, TypeOK, At
<1> HIDE DEF c
<1>2. /\ c # 0 /\ c \notin Processes
      /\ \A g \in Groups : active_pid[g] # c
      /\ \A p \in Processes : pcb[p].parent_pid # c
  BY <1>1, FreshPid
<1>3. \A p \in Pids \ {c} : pcb'[p] = pcb[p]
  BY DEF ExecuteBadFile, TypeOK, c
<1>4. Processes' = Processes
  BY SameProcesses DEF ExecuteBadFile
<1>5. \A p \in Processes : pcb'[p] = pcb[p]
  BY <1>2, <1>3 DEF Processes
<1>6. OneChild' /\ LeafActive' /\ DistinctActive' /\ NoOrphan'
  BY <1>4, <1>5, SameTree DEF ExecuteBadFile
<1>7. \A g \in Groups : pcb'[active_pid[g]] = pcb[active_pid[g]]
  BY <1>2, <1>3 DEF TypeOK
<1>8. SuspendedOK' /\ StackOK'
  BY <1>7 DEF SuspendedOK, StackOK, ExecuteBadFile
<1>9. TableOK'
  <2>1. pcb'[0] = pcb[0]
    BY <1>2, <1>3 DEF Pids
  <2>2. \A p \in Processes : pcb'[pcb[p].parent_pid] = pcb[pcb[p].parent_pid]
    BY <1>2, <1>3 DEF TableOK
  <2> QED BY <1>4, <1>5, <2>1, <2>2 DEF TableOK, ExecuteBadFile
<1>10. DyingOK'
  BY <1>4 DEF DyingOK, ExecuteBadFile
<1>11. PageOK'
  <2>1. current_group \in Groups /\ Self \in Processes
    BY <1>1 DEF TableOK, StackOK, Processes, Present, Self, TypeOK
  <2>2. prog_page' = Self
    BY <2>1 DEF ExecuteBadFile, TableOK
  <2> QED BY <1>1, <2>2 DEF PageOK, ExecuteBadFile, Self, TailPoints
<1> QED
  BY <1>6, <1>8, <1>9, <1>10, <1>11 DEF ExecuteBadFile

(* A child is added below the leaf of its group, on a stack of its own.      *)
LEMMA ExecuteStep ==
  ASSUME TypeOK, Core, Execute PROVE Core'
<1> USE DEF Core
<1> DEFINE c == get_new_pid(pid_array)
<1>1. c \in Pids /\ ~pid_array[c] /\ pc[current_group] \in {"user", "loop"}
  BY NewPidFree DEF Execute, TypeOK, At
<1>2. /\ pid_array' = [pid_array EXCEPT ![c] = TRUE]
      /\ active_pid' = [active_pid EXCEPT ![current_group] = c]
      /\ pcb' = ExecutePCBs(c) /\ RunOnStack(c) /\ Goto("user")
      /\ prog_page' = c
      /\ UNCHANGED <<dying, current_group, crashed, preempted>>
  BY DEF Execute
<1> HIDE DEF c
<1>3. /\ c # 0 /\ c \notin Processes
      /\ \A g \in Groups : active_pid[g] # c /\ kstack[g] # c
      /\ \A p \in Processes : pcb[p].parent_pid # c
  BY <1>1, FreshPid
<1>4. current_group \in Groups /\ Self \in Pids /\ Self # c /\ 0 \in Pids
  BY <1>3 DEF TypeOK, Self, Pids
<1>5. /\ pid_array'[c]
      /\ \A p \in Pids \ {c} : pid_array'[p] = pid_array[p]
  BY <1>1, <1>2 DEF TypeOK
<1>6. /\ active_pid'[current_group] = c /\ pc'[current_group] = "user"
      /\ kstack'[current_group] = c
      /\ \A g \in Groups \ {current_group} : /\ active_pid'[g] = active_pid[g]
                                             /\ pc'[g] = pc[g]
                                             /\ kstack'[g] = kstack[g]
  BY <1>2, <1>4 DEF TypeOK, Goto, RunOnStack
<1>7. \A g \in Groups : pc[g] # "t_active" /\ pc'[g] # "t_active"
  BY <1>1, <1>6 DEF SuspendedOK
<1>8. Processes' = Processes \cup {c}
  BY <1>1, <1>3, <1>5, <1>7 DEF Processes, Present
<1>9. /\ pcb'[c].pid = c /\ pcb'[c].parent_pid = Self
      /\ \A p \in Pids \ {c} : /\ pcb'[p].pid = pcb[p].pid
                               /\ pcb'[p].parent_pid = pcb[p].parent_pid
                               /\ pcb'[p].kernel_esp = pcb[p].kernel_esp
                               /\ pcb'[p].eip = IF p = Self THEN "return_from_exec"
                                                          ELSE pcb[p].eip
  <2>1. pcb \in [Pids -> PCB] 
    BY DEF TypeOK
  <2>2. pcb'[c] = [ZeroPCB EXCEPT !.pid = c, !.parent_pid = Self, !.eip = "entry"]
    BY <1>1, <1>2, <1>4, <2>1 DEF ExecutePCBs
  <2>3. \A p \in Pids \ {c} : pcb'[p] = IF p = Self THEN [pcb[p] EXCEPT !.eip = "return_from_exec"]
                                                    ELSE pcb[p]
    BY <1>1, <1>2, <1>4, <2>1 DEF ExecutePCBs
  <2> QED BY <1>4, <2>1, <2>2, <2>3 DEF ZeroPCB, PCB
<1>10. \A p \in Processes : p \in Pids \ {0, c} /\ pcb'[p].parent_pid = pcb[p].parent_pid
  BY <1>3, <1>9 DEF Processes
<1>11. \A g \in Groups \ {current_group} : active_pid[g] # 0 /\ active_pid[g] # Self
  BY <1>4 DEF SuspendedOK, StackOK, DistinctActive, Self
<1>12. OneChild'
  <2>1. \A p \in Processes : pcb[p].parent_pid = Self => Self = 0
    BY <1>4 DEF LeafActive, Self
  <2> QED BY <1>8, <1>9, <1>10, <2>1 DEF OneChild
<1>13. LeafActive'
  BY <1>3, <1>4, <1>6, <1>8, <1>9, <1>10, <1>11 DEF LeafActive
<1>14. DistinctActive'
  BY <1>2, <1>3, <1>6 DEF DistinctActive
<1>15. NoOrphan'
  BY <1>4, <1>6, <1>8, <1>9, <1>10 DEF NoOrphan, Self
<1>16. SuspendedOK'
  BY <1>2, <1>3, <1>6, <1>9 DEF SuspendedOK, TypeOK
<1>17. StackOK'
  <2>1. \A g \in Groups \ {current_group} :
          pcb'[active_pid[g]].parent_pid = pcb[active_pid[g]].parent_pid
    BY <1>3, <1>9 DEF TypeOK
  <2> QED BY <1>3, <1>4, <1>6, <2>1 DEF StackOK, TailPoints, VidmapPoints
<1>18. TableOK'
  <2>1. pid_array[Self]
    BY <1>4, <1>7 DEF TableOK, Self
  <2>2. pid_array'[0] /\ pcb'[0].pid = 0
    BY <1>3, <1>4, <1>5, <1>9 DEF TableOK
  <2>3. pcb'[0].eip = "return_from_exec"
    BY <1>1, <1>3, <1>4, <1>9 DEF TableOK, StackOK, Self
  <2>4. \A g \in Groups : pid_array'[active_pid'[g]]
    BY <1>3, <1>5, <1>6, <1>7 DEF TableOK, TypeOK
  <2>5. \A p \in Processes' :
          /\ pcb'[p].pid = p
          /\ pcb'[p].parent_pid \in Pids
          /\ pid_array'[pcb'[p].parent_pid]
          /\ pcb'[p].parent_pid # p
          /\ pcb'[p].parent_pid # 0
               => pcb'[pcb'[p].parent_pid].eip = "return_from_exec"
    <3>2. ASSUME NEW p \in Processes
          PROVE  /\ pcb'[p].pid = p
                 /\ pcb'[p].parent_pid \in Pids \ {c}
                 /\ pid_array'[pcb'[p].parent_pid]
                 /\ pcb'[p].parent_pid # p
                 /\ pcb'[p].parent_pid # 0
                      => pcb'[pcb'[p].parent_pid].eip = "return_from_exec"
      BY <1>3, <1>5, <1>9, <1>10 DEF TableOK
    <3> QED BY <1>4, <1>5, <1>8, <1>9, <2>1, <3>2
  <2> QED BY <1>7, <2>2, <2>3, <2>4, <2>5 DEF TableOK
<1>19. DyingOK'
  BY <1>2, <1>6, <1>7 DEF DyingOK, SuspendedOK
<1>20. PageOK'
  BY <1>2, <1>6 DEF PageOK, TailPoints
<1>21. ~crashed' /\ clobbered' = {}
  BY <1>2, <1>3 DEF RunOnStack
<1> QED
  BY <1>12, <1>13, <1>14, <1>15, <1>16, <1>17, <1>18, <1>19, <1>20, <1>21

-----------------------------------------------------------------------------
(* A halting process finds its parent ready, and no other group on the       *)
(* parent's kernel stack.                                                    *)
LEMMA HaltStep ==
  ASSUME TypeOK, Core, Halt PROVE Core'
<1> USE DEF Core
<1> DEFINE parent == pcb[Self].parent_pid
<1>1. /\ current_group \in Groups /\ pc[current_group] = "user"
      /\ Self \in Processes
  BY DEF Halt, At, TypeOK, StackOK, TableOK, Processes, Present, Self
<1>2. parent \in Pids /\ pcb[parent].eip = "return_from_exec"
  BY <1>1 DEF TableOK
<1>3. RunOnStack(parent) /\ Goto("t_map") /\ UNCHANGED crashed
  BY <1>2 DEF Halt
<1> HIDE DEF parent
<1>4. ASSUME NEW g \in Groups \ {current_group} PROVE kstack[g] # parent
  <2>1. /\ kstack[g] # 0 /\ active_pid[g] # Self /\ active_pid[g] \in Processes
        /\ pc[g] \in Points \ {"loop", "t_active", "t_clear"}
    BY <1>1 DEF SuspendedOK, DistinctActive, StackOK, TableOK, TypeOK, Self,
                Processes, Present
  <2>2. CASE pc[g] \in {"user"} \cup VidmapPoints
    <3>1. kstack[g] = active_pid[g]
      BY <2>2 DEF StackOK
    <3> QED BY <1>1, <2>1, <3>1 DEF LeafActive, parent
  <2>3. CASE pc[g] \in TailPoints
    <3>1. kstack[g] = pcb[active_pid[g]].parent_pid
      BY <2>1, <2>3 DEF StackOK
    <3> QED BY <1>1, <2>1, <3>1 DEF OneChild, parent
  <2> QED BY <2>1, <2>2, <2>3 DEF Points
<1>5. clobbered' = {}
  BY <1>3, <1>4 DEF RunOnStack
<1>6. /\ pc'[current_group] = "t_map" /\ kstack'[current_group] = parent
      /\ \A g \in Groups \ {current_group} : pc'[g] = pc[g] /\ kstack'[g] = kstack[g]
  BY <1>1, <1>3 DEF Goto, RunOnStack, TypeOK
<1>7. Processes' = Processes
  <2>1. \A g \in Groups : pc'[g] = "t_active" <=> pc[g] = "t_active"
    BY <1>1, <1>6
  <2> QED BY <2>1, SameProcesses DEF Halt
<1>8. OneChild' /\ LeafActive' /\ DistinctActive' /\ NoOrphan'
  BY <1>7, SameTree DEF Halt
<1>9. SuspendedOK'
  BY <1>6 DEF SuspendedOK, Halt
<1>10. StackOK'
  <2>1. active_pid[current_group] # 0
    BY <1>1 DEF StackOK
  <2> QED BY <1>1, <1>6, <2>1 DEF StackOK, Halt, TailPoints, VidmapPoints, parent, Self
<1>11. TableOK'
  <2>1. pcb[0].eip = "return_from_exec"
    BY <1>1 DEF TableOK
  <2>2. \A g \in Groups : pc'[g] = "t_active" <=> pc[g] = "t_active"
    BY <1>1, <1>6
  <2> QED BY <1>7, <2>1, <2>2 DEF TableOK, Halt
<1>12. DyingOK'
  BY <1>1, <1>6, <1>7 DEF DyingOK, Halt
<1>13. PageOK'
  BY <1>1, <1>6 DEF PageOK, Halt, VidmapPoints, TailPoints
<1> QED
  BY <1>3, <1>5, <1>8, <1>9, <1>10, <1>11, <1>12, <1>13

(* The first half of pcb_teardown: the PID is free but still active.         *)
LEMMA FreeStep ==
  ASSUME TypeOK, Core, TeardownFree PROVE Core'
<1> USE DEF Core
<1>1. /\ current_group \in Groups /\ pc[current_group] = "t_free"
      /\ Self \in Processes /\ Self \in Pids /\ Self # 0
  BY DEF TeardownFree, At, TypeOK, StackOK, TableOK, Processes, Present, Self
<1>2. /\ pc'[current_group] = "t_active" /\ dying'[current_group] = Self
      /\ \A g \in Groups \ {current_group} : pc'[g] = pc[g] /\ dying'[g] = dying[g]
  BY <1>1 DEF TeardownFree, Goto, TypeOK
<1>3. /\ ~pid_array'[Self]
      /\ \A p \in Pids \ {Self} : pid_array'[p] = pid_array[p]
  BY <1>1 DEF TeardownFree, Cleared, TypeOK
<1>4. \A g \in Groups \ {current_group} :
        pc[g] \notin {"t_active", "t_clear"} /\ active_pid[g] \in Pids \ {Self}
  BY <1>1 DEF SuspendedOK, DistinctActive, Self, TypeOK
<1>5. Processes' = Processes
  BY <1>1, <1>2, <1>3, <1>4 DEF Processes, Present, TeardownFree, Self
<1>6. OneChild' /\ LeafActive' /\ DistinctActive' /\ NoOrphan'
  BY <1>5, SameTree DEF TeardownFree
<1>7. SuspendedOK'
  BY <1>2 DEF SuspendedOK, TeardownFree
<1>8. StackOK'
  BY <1>1, <1>2 DEF StackOK, TeardownFree, TailPoints, VidmapPoints
<1>9. TableOK'
  <2>1. pid_array'[0] /\ pcb[0].eip = "return_from_exec"
    BY <1>1, <1>3 DEF TableOK, Pids
  <2>2. \A p \in Processes : pcb[p].parent_pid # Self
    BY <1>1 DEF LeafActive, Self
  <2>3. \A p \in Processes : pid_array'[pcb[p].parent_pid]
    BY <1>3, <2>2 DEF TableOK
  <2>4. /\ \A g \in Groups : pc'[g] # "t_active" => pid_array'[active_pid[g]]
        /\ \A g \in Groups : pc'[g] = "t_active" => ~pid_array'[active_pid[g]]
    BY <1>2, <1>3, <1>4 DEF TableOK, Self
  <2> QED BY <1>5, <2>1, <2>3, <2>4 DEF TableOK, TeardownFree
<1>10. DyingOK'
  BY <1>1, <1>2, <1>4 DEF DyingOK, TeardownFree, Self
<1>11. PageOK'
  BY <1>1, <1>2 DEF PageOK, TeardownFree, mapVars, VidmapPoints, TailPoints
<1> QED
  BY <1>6, <1>7, <1>8, <1>9, <1>10, <1>11 DEF TeardownFree

(* The second half: the parent is the leaf again.                            *)
LEMMA ActiveStep ==
  ASSUME TypeOK, Core, TeardownActive PROVE Core'
<1> USE DEF Core
<1> DEFINE parent == pcb[Self].parent_pid
<1>1. /\ current_group \in Groups /\ pc[current_group] = "t_active"
      /\ dying[current_group] = Self
      /\ Self \in Pids /\ Self # 0 /\ ~pid_array[Self] /\ Self \in Processes
  BY DEF TeardownActive, At, TypeOK, StackOK, TableOK, DyingOK, Processes, Present, Self
<1>2. /\ parent \in Pids /\ pid_array[parent] /\ parent # Self
      /\ kstack[current_group] = parent
  BY <1>1 DEF TableOK, StackOK, TailPoints, Self
<1>3. /\ active_pid' = [active_pid EXCEPT ![current_group] = parent]
      /\ Goto("t_clear") /\ UNCHANGED crashed
  BY <1>1, <1>2 DEF TeardownActive
<1>4. /\ pc'[current_group] = "t_clear" /\ active_pid'[current_group] = parent
      /\ \A g \in Groups \ {current_group} : pc'[g] = pc[g] /\ active_pid'[g] = active_pid[g]
  BY <1>1, <1>3 DEF Goto, TypeOK
<1>5. \A g \in Groups \ {current_group} :
        /\ pc[g] \notin {"t_active", "t_clear", "loop"}
        /\ active_pid[g] # Self /\ active_pid[g] # 0 /\ active_pid[g] # parent
  <2>1. \A g \in Groups \ {current_group} :
          /\ pc[g] \notin {"t_active", "t_clear", "loop"}
          /\ active_pid[g] # Self /\ active_pid[g] # 0
    BY <1>1 DEF SuspendedOK, StackOK, DistinctActive, Self
  <2> QED BY <1>1, <2>1 DEF LeafActive
<1>6. Processes' = Processes \ {Self}
  <2>1. pid_array' = pid_array /\ \A g \in Groups : pc'[g] # "t_active"
    BY <1>4, <1>5 DEF TeardownActive
  <2>2. \A p \in Pids \ {0} : p \in Processes <=> pid_array[p] \/ p = Self
    BY <1>1, <1>5 DEF Processes, Present, Self
  <2> QED BY <1>1, <2>1, <2>2 DEF Processes, Present
<1>7. OneChild'
  BY <1>6 DEF OneChild, TeardownActive
<1>8. LeafActive'
  BY <1>1, <1>4, <1>6 DEF LeafActive, OneChild, TeardownActive
<1>9. DistinctActive'
  BY <1>4, <1>5 DEF DistinctActive
<1>10. NoOrphan'
  <2> SUFFICES ASSUME NEW p \in Processes \ {Self}
               PROVE  \/ \E g \in Groups : active_pid'[g] = p
                      \/ \E q \in Processes \ {Self} : pcb[q].parent_pid = p
    BY <1>6 DEF NoOrphan, TeardownActive
  <2>1. CASE \E g \in Groups : active_pid[g] = p
    BY <1>4, <2>1 DEF Self
  <2>2. CASE \E q \in Processes : pcb[q].parent_pid = p
    BY <1>1, <1>4, <2>2
  <2> QED BY <2>1, <2>2 DEF NoOrphan
<1>11. SuspendedOK'
  BY <1>4 DEF SuspendedOK, TeardownActive
<1>12. StackOK'
  <2>1. UNCHANGED <<pcb, kstack>>
    BY DEF TeardownActive
  <2> QED BY <1>2, <1>4, <1>5, <2>1 DEF StackOK, TailPoints, VidmapPoints
<1>13. TableOK'
  <2>1. pcb[0].eip = "return_from_exec"
    BY <1>1 DEF TableOK
  <2>2. \A g \in Groups : pc'[g] # "t_active" /\ pid_array[active_pid'[g]]
    BY <1>2, <1>4, <1>5 DEF TableOK
  <2>3. UNCHANGED <<pid_array, pcb, current_group>>
    BY DEF TeardownActive
  <2> QED BY <1>6, <2>1, <2>2, <2>3 DEF TableOK
<1>14. DyingOK'
  BY <1>1, <1>4, <1>5, <1>6 DEF DyingOK, TeardownActive
<1>15. PageOK'
  BY <1>1, <1>4 DEF PageOK, TeardownActive, mapVars, VidmapPoints, TailPoints
<1> QED
  BY <1>3, <1>7, <1>8, <1>9, <1>10, <1>11, <1>12, <1>13, <1>14, <1>15
     DEF TeardownActive

(* The PCB that is cleared belongs to no process.                            *)
LEMMA ClearStep ==
  ASSUME TypeOK, Core, TeardownClear PROVE Core'
<1> USE DEF Core
<1> DEFINE c == dying[current_group]
           s == IF kstack[current_group] = 0 THEN "loop" ELSE "user"
<1>1. /\ current_group \in Groups /\ pc[current_group] = "t_clear"
      /\ c \in Pids /\ c \notin Processes /\ c # 0
      /\ kstack[current_group] = active_pid[current_group]
  BY DEF TeardownClear, At, TypeOK, DyingOK, StackOK
<1>2. pc'[current_group] = s /\ \A g \in Groups \ {current_group} : pc'[g] = pc[g]
  BY <1>1 DEF TeardownClear, Goto, TypeOK
<1>3. \A p \in Pids \ {c} : pcb'[p] = pcb[p]
  BY DEF TeardownClear, ToClear, TypeOK
<1> HIDE DEF c
<1>4. \A g \in Groups : /\ pc[g] # "t_active" /\ pc'[g] \notin {"t_active", "t_clear"}
                        /\ active_pid[g] \in Pids \ {c}
  BY <1>1, <1>2 DEF SuspendedOK, TableOK, TypeOK, Processes, Present
<1>5. Processes' = Processes
  BY <1>4, SameProcesses DEF TeardownClear
<1>6. \A p \in Processes : /\ p \in Pids \ {c}
                           /\ pcb[p].parent_pid \in Pids \ {c}
  BY <1>1 DEF TableOK, Processes, Present
<1>7. OneChild' /\ LeafActive' /\ DistinctActive' /\ NoOrphan'
  BY <1>3, <1>5, <1>6, SameTree DEF TeardownClear
<1>8. SuspendedOK'
  BY <1>2, <1>3, <1>4 DEF SuspendedOK, TeardownClear
<1>9. StackOK'
  <2>1. UNCHANGED <<kstack, active_pid>>
    BY DEF TeardownClear
  <2>2. \A g \in Groups : pcb'[active_pid[g]] = pcb[active_pid[g]]
    BY <1>3, <1>4
  <2> QED BY <1>1, <1>2, <2>1, <2>2 DEF StackOK, TailPoints, VidmapPoints
<1>10. TableOK'
  <2>1. pcb'[0] = pcb[0] /\ pcb[0].eip = "return_from_exec"
    BY <1>1, <1>3 DEF TableOK, Pids
  <2>2. \A p \in Processes : /\ pcb'[p] = pcb[p]
                             /\ pcb'[pcb[p].parent_pid] = pcb[pcb[p].parent_pid]
    BY <1>3, <1>6
  <2>3. UNCHANGED <<pid_array, active_pid>>
    BY DEF TeardownClear
  <2> QED BY <1>4, <1>5, <2>1, <2>2, <2>3 DEF TableOK
<1>11. DyingOK'
  BY <1>4 DEF DyingOK
<1>12. PageOK'
  BY <1>1, <1>2 DEF PageOK, TeardownClear, mapVars, VidmapPoints, TailPoints
<1> QED
  BY <1>7, <1>8, <1>9, <1>10, <1>11, <1>12 DEF TeardownClear

(* vidmap marks the PCB of the running process and changes no link.          *)
LEMMA MarkStep ==
  ASSUME TypeOK, Core, VidmapMark PROVE Core'
<1> USE DEF Core
<1>1. current_group \in Groups /\ pc[current_group] = "user" /\ Self \in Pids
  BY DEF VidmapMark, At, TypeOK, Self
<1>2. /\ pc'[current_group] \in VidmapPoints
      /\ \A g \in Groups \ {current_group} : pc'[g] = pc[g]
  BY <1>1 DEF VidmapMark, Goto, TypeOK, VidmapPoints
<1>3. \A p \in Pids : /\ pcb'[p].pid = pcb[p].pid
                      /\ pcb'[p].parent_pid = pcb[p].parent_pid
                      /\ pcb'[p].eip = pcb[p].eip
                      /\ pcb'[p].kernel_esp = pcb[p].kernel_esp
  BY <1>1 DEF VidmapMark, TypeOK, PCB
<1>4. \A g \in Groups : active_pid[g] \in Pids
  BY DEF TypeOK
<1>5. Processes' = Processes
  <2>1. \A g \in Groups : pc'[g] = "t_active" <=> pc[g] = "t_active"
    BY <1>1, <1>2 DEF VidmapPoints
  <2> QED BY <2>1, SameProcesses DEF VidmapMark
<1>6. Processes \subseteq Pids
  BY DEF Processes
<1>7. OneChild' /\ LeafActive' /\ DistinctActive' /\ NoOrphan'
  BY <1>3, <1>5, <1>6, SameTree DEF VidmapMark
<1>8. SuspendedOK'
  BY <1>2, <1>3, <1>4 DEF SuspendedOK, VidmapMark
<1>9. StackOK'
  <2>1. UNCHANGED <<kstack, active_pid>>
    BY DEF VidmapMark
  <2> QED BY <1>1, <1>2, <1>3, <1>4, <2>1 DEF StackOK, TailPoints, VidmapPoints
<1>10. TableOK'
  <2>1. UNCHANGED <<pid_array, active_pid, current_group>>
    BY DEF VidmapMark
  <2>2. pcb'[0].pid = 0 /\ pcb'[0].eip = "return_from_exec" /\ 0 \in Pids
    BY <1>1, <1>3 DEF TableOK, Pids
  <2>3. \A g \in Groups : pc'[g] = "t_active" <=> pc[g] = "t_active"
    BY <1>1, <1>2 DEF VidmapPoints
  <2> QED BY <1>3, <1>5, <1>6, <2>1, <2>2, <2>3 DEF TableOK
<1>11. DyingOK'
  <2>1. \A g \in Groups : pc'[g] \in {"t_active", "t_clear"} => pc'[g] = pc[g]
    BY <1>1, <1>2 DEF VidmapPoints
  <2> QED BY <1>5, <2>1 DEF DyingOK, VidmapMark
<1>12. PageOK'
  BY <1>1, <1>2 DEF PageOK, VidmapMark, mapVars, VidmapPoints, TailPoints
<1> QED
  BY <1>7, <1>8, <1>9, <1>10, <1>11, <1>12 DEF VidmapMark

(* A tick outside the windows restores the next group's own context.         *)
LEMMA ScheduleStep ==
  ASSUME TypeOK, Core, schedule_next, ~Torn' PROVE Core'
<1> USE DEF Core
<1> DEFINE new == NextGroup
           p == active_pid[new]
<1>1. new \in Groups /\ new # current_group /\ current_group \in Groups
  BY DEF NextGroup, Groups, TypeOK
<1>2. /\ Self \in Pids /\ p \in Pids /\ p # Self /\ p \in Processes
      /\ pcb[p].kernel_esp = new /\ pc[new] \notin {"t_active", "t_clear", "loop"}
  BY <1>1 DEF TypeOK, Self, DistinctActive, SuspendedOK, StackOK, TableOK, Processes, Present
<1>3. /\ current_group' = new
      /\ pcb' = [[pcb EXCEPT ![Self].kernel_esp = current_group]
                    EXCEPT ![p].kernel_esp = NoContext]
      /\ prog_page' = [pcb EXCEPT ![Self].kernel_esp = current_group][p].pid
      /\ crashed' = ~([pcb EXCEPT ![Self].kernel_esp = current_group][p].kernel_esp = new
                       /\ new \notin clobbered)
      /\ preempted' = preempted \cup WindowOf(current_group)
  BY DEF schedule_next
<1> HIDE DEF new, p
<1>4. /\ pcb'[Self].kernel_esp = current_group
      /\ \A q \in Pids \ {Self, p} : pcb'[q].kernel_esp = pcb[q].kernel_esp
      /\ \A q \in Pids : /\ pcb'[q].pid = pcb[q].pid
                          /\ pcb'[q].parent_pid = pcb[q].parent_pid
                          /\ pcb'[q].eip = pcb[q].eip
  BY <1>2, <1>3 DEF TypeOK, PCB
<1>5. prog_page' = p /\ ~crashed'
  BY <1>2, <1>3 DEF TypeOK, PCB, TableOK
<1>6. /\ pc[current_group] \notin {"t_active", "t_clear", "loop"}
      /\ kstack[current_group] # 0
  <2>1. "tree" \notin preempted' /\ "kernel_stack" \notin preempted'
    BY DEF Torn
  <2>2. "tree" \notin WindowOf(current_group) /\ "kernel_stack" \notin WindowOf(current_group)
    BY <1>3, <2>1
  <2>3. /\ pc[current_group] \notin {"t_active", "t_clear"}
        /\ kstack[current_group] # 0
    BY <2>2 DEF WindowOf, Windows
  <2> QED BY <1>1, <2>3 DEF StackOK
<1>7. UNCHANGED <<pid_array, active_pid, pc, kstack, clobbered, dying>>
  BY DEF schedule_next
<1>8. Processes' = Processes /\ Processes \subseteq Pids
  BY <1>7, SameProcesses DEF Processes
<1>9. OneChild' /\ LeafActive' /\ DistinctActive' /\ NoOrphan'
  BY <1>4, <1>7, <1>8, SameTree
<1>10. \A g \in Groups : active_pid[g] \in Pids
  BY DEF TypeOK
<1>11. SuspendedOK'
  <2> SUFFICES ASSUME NEW g \in Groups \ {new}
               PROVE  /\ pc[g] \notin {"t_active", "t_clear", "loop"}
                      /\ kstack[g] # 0
                      /\ pcb'[active_pid[g]].kernel_esp = g
    BY <1>3, <1>7 DEF SuspendedOK
  <2>1. CASE g = current_group
    BY <1>4, <1>6, <2>1 DEF Self
  <2>2. CASE g # current_group
    <3>1. active_pid[g] # Self /\ active_pid[g] # p
      BY <1>1, <2>2 DEF DistinctActive, Self, p
    <3> QED BY <1>4, <1>10, <2>2, <3>1 DEF SuspendedOK
  <2> QED BY <2>1, <2>2
<1>12. StackOK'
  BY <1>4, <1>7, <1>10 DEF StackOK
<1>13. TableOK'
  <2>1. pcb'[0].pid = 0 /\ pcb'[0].eip = "return_from_exec" /\ 0 \in Pids
    BY <1>4, <1>6 DEF TableOK, Pids
  <2> QED BY <1>4, <1>7, <1>8, <2>1 DEF TableOK
<1>14. DyingOK'
  BY <1>7, <1>8 DEF DyingOK
<1>15. PageOK'
  <2> SUFFICES ASSUME preempted' = {} PROVE PageOK'
    BY DEF PageOK
  <2>1. preempted = {} /\ "page" \notin WindowOf(current_group)
    BY <1>3
  <2>2. pc[current_group] \notin {"t_unmap", "t_free"}
    BY <2>1 DEF WindowOf, Windows
  <2>3. pc[new] \notin TailPoints \ {"t_map"}
    BY <1>1, <1>2, <2>1 DEF PageOK, TailPoints
  <2> QED
    BY <1>3, <1>5, <1>7, <2>1, <2>2, <2>3 DEF PageOK, p
<1> QED
  BY <1>5, <1>7, <1>9, <1>11, <1>12, <1>13, <1>14, <1>15

-----------------------------------------------------------------------------
(* Ticks only ever add windows.                                              *)
LEMMA TornStays ==
  ASSUME [Next]_vars, ~Torn' PROVE ~Torn
<1>1. preempted \subseteq preempted'
  BY DEF Next, vars, ExecuteNoPid, ExecuteBadFile, Execute, Halt, TailMapPage,
         TailUnmapVideo, TeardownFree, TeardownActive, TeardownClear, VidmapMark,
         VidmapMap, schedule_next, switch_term
<1> QED BY <1>1 DEF Torn

(* As long as no tick has torn a teardown or found a group on the kernel's   *)
(* stack, the whole of Core holds.                                           *)
THEOREM Inductive == Spec => []IInv
<1>1. Init => IInv
  BY InitTyped, InitCore DEF IInv
<1>2. IInv /\ [Next]_vars => IInv'
  <2> SUFFICES ASSUME IInv, [Next]_vars PROVE IInv'
    OBVIOUS
  <2>1. TypeOK /\ TypeOK'
    BY Typing DEF IInv
  <2>2. ASSUME ~Torn' PROVE Core'
    <3>1. Core
      BY <2>2, TornStays DEF IInv
    <3>2. CASE UNCHANGED vars
      BY <3>1, <3>2 DEF vars, Core, OneChild, LeafActive, DistinctActive,
           NoOrphan, SuspendedOK, StackOK, TableOK, DyingOK, PageOK, Processes, Present
    <3>3. CASE Next
      BY <2>1, <2>2, <3>1, <3>3, QuietActions, BadFileStep, ExecuteStep, HaltStep,
         FreeStep, ActiveStep, ClearStep, MarkStep, ScheduleStep DEF Next
    <3> QED BY <3>2, <3>3
  <2> QED BY <2>1, <2>2 DEF IInv
<1> QED
  BY <1>1, <1>2, PTL DEF Spec

(* The PCB table is a set of chains, one per group, ending in active_pid: no *)
(* PID is leaked or shared, however the groups' executes and halts are       *)
(* interleaved, unless a tick tears a teardown or shares the kernel's stack. *)
THEOREM TreeIsSound == Spec => []ProcessTree
<1>1. IInv => ProcessTree
  BY DEF IInv, Core, ProcessTree
<1> QED BY <1>1, Inductive, PTL

(* The scheduler restores only contexts that are intact, under the same      *)
(* proviso.                                                                  *)
THEOREM ContextsAreIntact == Spec => []ContextsIntact
<1>1. IInv => ContextsIntact
  BY DEF IInv, Core, ContextsIntact
<1> QED BY <1>1, Inductive, PTL

(* A process in user mode is on its own program page, unless a tick fell in  *)
(* the tail of an execute.                                                   *)
THEOREM PageIsOwn == Spec => []OwnProgramPage
<1>1. IInv => OwnProgramPage
  BY DEF IInv, Core, PageOK, OwnProgramPage, Torn, At, Self
<1> QED BY <1>1, Inductive, PTL

(* VIDEO_USER never shows a group another group's save page: unconditional,  *)
(* under every timing of ticks, vidmap calls and terminal switches.          *)
THEOREM VideoIsIsolated == Spec => []VideoIsolation
<1>1. Init => VideoIsolation
  BY DEF Init, VideoIsolation
<1>2. TypeOK /\ VideoIsolation /\ [Next]_vars => VideoIsolation'
  <2> SUFFICES ASSUME TypeOK, VideoIsolation, [Next]_vars, ~crashed'
               PROVE  video_user' \in {VIDEO_UNMAPPED, VIDEO_KERNEL, SavePage(current_group')}
    BY DEF VideoIsolation, SavePage
  <2> USE DEF VideoIsolation, At, SavePage
  <2>1. CASE schedule_next
    BY <2>1 DEF schedule_next, VideoPage
  <2>2. CASE VidmapMap
    BY <2>2 DEF VidmapMap
  <2>3. CASE TailUnmapVideo
    BY <2>3 DEF TailUnmapVideo
  <2>4. CASE ~crashed /\ UNCHANGED <<video_user, current_group>>
    BY <2>4
  <2> QED
    BY <2>1, <2>2, <2>3, <2>4
       DEF Next, vars, mapVars, ExecuteNoPid, ExecuteBadFile, Execute, Halt,
           TailMapPage, TeardownFree, TeardownActive, TeardownClear, VidmapMark,
           switch_term
<1> QED
  BY <1>1, <1>2, TypeCorrect, PTL DEF Spec
\* A PID handed out while no teardown is half done belongs to no process.
LEMMA NewPidUnused ==
  ASSUME TypeOK, Core, At("user") \/ At("loop"), get_new_pid(pid_array) # FAILURE
  PROVE  get_new_pid(pid_array) \in Pids /\ get_new_pid(pid_array) \notin Processes
<1>1. get_new_pid(pid_array) \in Pids /\ ~pid_array[get_new_pid(pid_array)]
  BY NewPidFree DEF TypeOK
<1>2. \A g \in Groups : pc[g] # "t_active"
  BY DEF Core, SuspendedOK, At
<1> QED BY <1>1, <1>2 DEF Processes, Present

(* No step gives a live process another parent or takes away the address its *)
(* execute returns to, for any number of groups and PIDs, as long as no tick *)
(* tears a teardown: the PCBs that execute fills and pcb_teardown clears     *)
(* belong to no live process.                                                *)
THEOREM ParentsAreStable == Spec => ParentStable
<1> DEFINE Kept == \A p \in Processes \cap Processes' :
                     /\ pcb'[p].parent_pid = pcb[p].parent_pid
                     /\ pcb[p].eip = "return_from_exec" => pcb'[p].eip = pcb[p].eip
<1>1. ASSUME IInv, Next, ~Torn' PROVE Kept
  <2>1. TypeOK /\ Core /\ Processes \subseteq Pids
    BY <1>1, TornStays DEF IInv, Processes
  <2>2. Self \in Pids
    BY <2>1 DEF TypeOK, Self
  <2>3. CASE ExecuteBadFile
    <3> DEFINE child == get_new_pid(pid_array)
    <3>1. child \notin Processes /\ pcb' = [pcb EXCEPT ![child] = ZeroPCB]
      BY <2>1, <2>3, NewPidUnused DEF ExecuteBadFile
    <3> HIDE DEF child
    <3> QED BY <3>1, <2>1 DEF TypeOK
  <2>4. CASE Execute
    <3> DEFINE child == get_new_pid(pid_array)
    <3>1. child \in Pids /\ child \notin Processes /\ pcb' = ExecutePCBs(child)
      BY <2>1, <2>4, NewPidUnused DEF Execute
    <3> HIDE DEF child
    <3>2. \A p \in Pids \ {child} : /\ pcb'[p].parent_pid = pcb[p].parent_pid
                                    /\ pcb'[p].eip \in {pcb[p].eip, "return_from_exec"}
      BY <3>1, <2>1, <2>2 DEF ExecutePCBs, TypeOK, PCB
    <3> QED BY <3>1, <3>2, <2>1
  <2>5. CASE TeardownClear
    <3>1. ToClear \notin Processes
      BY <2>1, <2>5 DEF TeardownClear, At, Core, DyingOK, TypeOK, ToClear
    <3>2. \A p \in Pids \ {ToClear} : pcb'[p] = pcb[p]
      BY <2>1, <2>5 DEF TeardownClear, TypeOK
    <3> QED BY <3>1, <3>2, <2>1
  <2>6. CASE VidmapMark
    <3>1. \A p \in Pids : pcb'[p].parent_pid = pcb[p].parent_pid /\ pcb'[p].eip = pcb[p].eip
      BY <2>1, <2>2, <2>6 DEF VidmapMark, TypeOK, PCB
    <3> QED BY <3>1, <2>1
  <2>7. CASE schedule_next
    <3>1. \A p \in Pids : pcb'[p].parent_pid = pcb[p].parent_pid /\ pcb'[p].eip = pcb[p].eip
      <4> DEFINE q == active_pid[NextGroup]
      <4>1. pcb' = [[pcb EXCEPT ![Self].kernel_esp = current_group]
                       EXCEPT ![q].kernel_esp = NoContext]
        BY <2>7 DEF schedule_next
      <4> HIDE DEF q
      <4> QED BY <4>1, <2>1 DEF TypeOK, PCB
    <3> QED BY <3>1, <2>1
  <2>8. CASE pcb' = pcb
    BY <2>8
  <2> QED
    BY <1>1, <2>3, <2>4, <2>5, <2>6, <2>7, <2>8
       DEF Next, ExecuteNoPid, Halt, TailMapPage, TailUnmapVideo, TeardownFree,
           TeardownActive, VidmapMap, switch_term, procVars
<1>2. IInv /\ [Next]_vars => [~Torn' => Kept]_vars
  BY <1>1
<1> QED BY <1>2, Inductive, PTL DEF Spec, ParentStable
-----------------------------------------------------------------------------
(* The user video page.                                                      *)

\* A step that fills or clears the PCB of a PID no process has, and unmarks no
\* other, leaves g's grant as it was.
LEMMA GrantedKept ==
  ASSUME TypeOK, Core, pcb[0].parent_pid = -1, NEW g \in Groups, Granted(g),
         NEW c, c \notin Processes \cup {0},
         \A p \in Pids \ {c} : /\ pcb'[p].parent_pid = pcb[p].parent_pid
                               /\ pcb[p].vid_map_called => pcb'[p].vid_map_called,
         NEW S \in SUBSET Pids, active_pid[g] \in S \ {c},
         \A p \in S : pcb'[p].parent_pid \in Pids => pcb'[p].parent_pid \in S
  PROVE  \E p \in S : pcb'[p].vid_map_called
<1> DEFINE T == S \cap (Processes \cup {0})
<1>1. \A p \in Processes : /\ p \in Pids /\ pcb[p].parent_pid \in Processes \cup {0}
  BY DEF Core, TableOK, Processes, Present
<1>2. active_pid[g] \in Processes \cup {0}
  BY DEF Core, TableOK, Processes, Present, TypeOK
<1>3. -1 \notin Pids
  BY DEF Pids
<1>4. T \in SUBSET Pids /\ active_pid[g] \in T
  BY <1>2
<1>5. ASSUME NEW p \in T, pcb[p].parent_pid \in Pids PROVE pcb[p].parent_pid \in T
  BY <1>1, <1>3, <1>5
<1>6. PICK p \in T : pcb[p].vid_map_called
  BY <1>4, <1>5 DEF Granted, Ancestral
<1> QED BY <1>6

(* A tick that falls in none of the windows maps VIDEO_USER for a process    *)
(* that has called vidmap, or unmaps it.                                     *)
LEMMA ScheduleVideo ==
  ASSUME TypeOK, Core, VideoOK, schedule_next PROVE VideoOK'
<1> SUFFICES ASSUME preempted' = {} PROVE VideoOK'
  BY DEF VideoOK
<1>0. PICK new \in Groups : new = NextGroup
  BY DEF NextGroup, Groups, TypeOK
<1> DEFINE p == active_pid[new]
<1>1. new \in Groups /\ current_group \in Groups /\ new # current_group /\ current_group' = new
  BY <1>0 DEF NextGroup, Groups, TypeOK, schedule_next
<1>2. Self \in Pids /\ p \in Pids
  BY <1>1 DEF TypeOK, Self
<1>3. pcb' = [[pcb EXCEPT ![Self].kernel_esp = current_group] EXCEPT ![p].kernel_esp = NoContext]
      /\ video_user' = IF [pcb EXCEPT ![Self].kernel_esp = current_group][p].vid_map_called
                       THEN VideoPage(new) ELSE VIDEO_UNMAPPED
  BY <1>0 DEF schedule_next
<1>4. preempted = {} /\ preempted' = preempted \cup WindowOf(current_group)
      /\ UNCHANGED <<active_pid, pc, kstack>>
  BY DEF schedule_next
<1> HIDE DEF p
<1>5. \A q \in Pids : /\ pcb'[q].parent_pid = pcb[q].parent_pid
                       /\ pcb'[q].vid_map_called = pcb[q].vid_map_called
  BY <1>2, <1>3 DEF TypeOK, PCB
<1>6. video_user' # VIDEO_UNMAPPED => pcb'[p].vid_map_called
  BY <1>2, <1>3, <1>5 DEF TypeOK, PCB
<1>7. pc[new] \notin {"t_unmap", "t_free", "t_active", "t_clear"}
  BY <1>1, <1>4 DEF Core, PageOK, SuspendedOK
<1>8. video_user' # VIDEO_UNMAPPED => Granted(new)'
  <2>1. video_user' # VIDEO_UNMAPPED => pcb'[active_pid'[new]].vid_map_called
    BY <1>4, <1>6 DEF p
  <2> QED BY <2>1 DEF Granted, Ancestral
<1>9. 0 \in Pids /\ \A g \in Groups : active_pid[g] \in Pids
  BY DEF Pids, TypeOK
<1>10. /\ pcb'[0].parent_pid = -1
       /\ \A g \in Groups : pc'[g] \in VidmapPoints => pcb'[active_pid'[g]].vid_map_called
  BY <1>4, <1>5, <1>9 DEF VideoOK
<1>11. Granted(current_group)' <=> Granted(new)'
  BY <1>1 DEF Granted, Ancestral
<1> QED BY <1>1, <1>4, <1>7, <1>8, <1>10, <1>11 DEF VideoOK

(* execute: the child starts without a mark of its own, and with its parent's *)
(* grant.                                                                    *)
LEMMA ExecuteVideo ==
  ASSUME TypeOK, Core, VideoOK, Execute \/ ExecuteBadFile PROVE VideoOK'
<1> SUFFICES ASSUME preempted' = {} PROVE VideoOK'
  BY DEF VideoOK
<1>0. PICK me \in Groups : me = current_group
  BY DEF TypeOK
<1>1. PICK c \in Pids : c = get_new_pid(pid_array) /\ c \notin Processes
  BY NewPidUnused DEF Execute, ExecuteBadFile
<1>2. c # 0 /\ c # Self /\ Self \in Pids /\ 0 \in Pids /\ pc[me] \in {"user", "loop"}
  <2>1. ~pid_array[c] /\ pid_array[0] /\ Self \in Pids /\ pc[me] \in {"user", "loop"}
    BY <1>0, <1>1, NewPidFree DEF Execute, ExecuteBadFile, TypeOK, Core, TableOK, Self, At
  <2>2. pid_array[Self]
    BY <1>0, <2>1 DEF Core, TableOK, Self
  <2> QED BY <2>1, <2>2 DEF Pids
<1>3. /\ preempted = {} /\ current_group' = current_group /\ video_user' = video_user
      /\ pc'[me] \in {"user", "loop"}
      /\ \A g \in Groups \ {me} : active_pid'[g] = active_pid[g] /\ pc'[g] = pc[g]
  BY <1>0, <1>2 DEF Execute, ExecuteBadFile, TypeOK, Goto
<1>4. \A p \in Pids \ {c} : /\ pcb'[p].parent_pid = pcb[p].parent_pid
                            /\ pcb'[p].vid_map_called = pcb[p].vid_map_called
  <2>1. CASE Execute
    <3>1. pcb' = ExecutePCBs(c)
      BY <1>1, <2>1 DEF Execute
    <3> QED BY <3>1, <1>2 DEF ExecutePCBs, TypeOK, PCB
  <2>2. CASE ExecuteBadFile
    <3>1. pcb' = [pcb EXCEPT ![c] = ZeroPCB]
      BY <1>1, <2>2 DEF ExecuteBadFile
    <3> QED BY <3>1 DEF TypeOK
  <2> QED BY <2>1, <2>2
<1>5. pcb[0].parent_pid = -1 /\ pcb'[0].parent_pid = -1
  BY <1>2, <1>3, <1>4 DEF VideoOK
<1>6. ASSUME NEW g \in Groups, pc'[g] \in VidmapPoints
      PROVE  pcb'[active_pid'[g]].vid_map_called
  <2>1. g # me
    BY <1>3, <1>6 DEF VidmapPoints
  <2>2. active_pid'[g] = active_pid[g] /\ pcb[active_pid[g]].vid_map_called
    BY <1>3, <1>6, <2>1 DEF VideoOK
  <2>3. active_pid[g] \in Pids /\ active_pid[g] # c
    <3>1. pc[g] # "t_active"
      BY <1>3, <1>6, <2>1 DEF VidmapPoints
    <3>2. pid_array[active_pid[g]] /\ active_pid[g] \in Pids
      BY <3>1 DEF Core, TableOK, TypeOK
    <3> QED BY <3>2, <1>1, <1>2 DEF Processes, Present
  <2> QED BY <1>4, <2>2, <2>3
<1>7. ASSUME video_user' # VIDEO_UNMAPPED PROVE Granted(me)'
  <2>1. Granted(me)
    BY <1>0, <1>2, <1>3, <1>7 DEF VideoOK
  <2> SUFFICES ASSUME NEW S \in SUBSET Pids, active_pid'[me] \in S,
                      \A p \in S : pcb'[p].parent_pid \in Pids => pcb'[p].parent_pid \in S
               PROVE  \E p \in S : pcb'[p].vid_map_called
    BY DEF Granted, Ancestral
  <2>2. active_pid[me] \in S
    <3>1. CASE Execute
      <4>1. active_pid'[me] = c /\ pcb' = ExecutePCBs(c)
        BY <3>1, <1>0, <1>1 DEF Execute, TypeOK
      <4>2. pcb'[c].parent_pid = Self
        BY <4>1, <1>2 DEF ExecutePCBs, TypeOK, ZeroPCB
      <4> QED BY <4>1, <4>2, <1>0, <1>2 DEF Self
    <3>2. CASE ExecuteBadFile
      BY <3>2 DEF ExecuteBadFile
    <3> QED BY <3>1, <3>2
  <2>3. active_pid[me] \in S \ {c} /\ c \notin Processes \cup {0}
    BY <2>2, <1>0, <1>1, <1>2 DEF Self
  <2> QED BY <2>1, <2>3, <1>4, <1>5, GrantedKept
<1>8. video_user' # VIDEO_UNMAPPED => Granted(current_group)'
  BY <1>0, <1>3, <1>7 DEF Granted, Ancestral
<1> QED BY <1>0, <1>3, <1>5, <1>6, <1>8 DEF VideoOK

(* vidmap marks before it maps, and the tail of execute keeps a mapping only  *)
(* for a parent that has called vidmap too.                                  *)
LEMMA OtherVideo ==
  ASSUME TypeOK, Core, VideoOK,
         \/ ExecuteNoPid \/ Halt \/ TailMapPage \/ TailUnmapVideo
         \/ TeardownFree \/ TeardownActive \/ TeardownClear
         \/ VidmapMark \/ VidmapMap
         \/ \E g \in SwitchTargets : switch_term(g)
  PROVE  VideoOK'
<1> SUFFICES ASSUME preempted' = {} PROVE VideoOK'
  BY DEF VideoOK
<1> USE DEF At
<1>0. PICK me \in Groups : me = current_group
  BY DEF TypeOK
<1>1. /\ current_group' = current_group /\ preempted = {}
      /\ 0 \in Pids /\ Self \in Pids /\ Self = active_pid[me]
      /\ \A g \in Groups : active_pid[g] \in Pids
      /\ pcb[0].parent_pid = -1
  BY <1>0, SMTT(30) DEF ExecuteNoPid, Halt, TailMapPage, TailUnmapVideo, TeardownFree, TeardownActive,
         TeardownClear, VidmapMark, VidmapMap, switch_term, TypeOK, Pids, Self, VideoOK
<1>2. \A g \in Groups \ {me} : pc'[g] = pc[g] /\ active_pid'[g] = active_pid[g]
  BY <1>0 DEF ExecuteNoPid, Halt, TailMapPage, TailUnmapVideo, TeardownFree, TeardownActive,
         TeardownClear, VidmapMark, VidmapMap, switch_term, TypeOK, procVars, Goto
<1>3. /\ \A g \in Groups : pc[g] \in VidmapPoints => pcb[active_pid[g]].vid_map_called
      /\ video_user # VIDEO_UNMAPPED =>
           /\ pc[me] \in {"t_free", "t_active", "t_clear"} => pcb[kstack[me]].vid_map_called
           /\ pc[me] \notin {"t_free", "t_active"} => Granted(me)
  BY <1>0, <1>1 DEF VideoOK
<1>4. ASSUME /\ pcb'[0].parent_pid = -1
             /\ \A g \in Groups : pc'[g] \in VidmapPoints => pcb'[active_pid'[g]].vid_map_called
             /\ video_user' # VIDEO_UNMAPPED =>
                  /\ pc'[me] \in {"t_free", "t_active", "t_clear"} => pcb'[kstack'[me]].vid_map_called
                  /\ pc'[me] \notin {"t_free", "t_active"} => Granted(me)'
      PROVE  VideoOK'
  BY <1>0, <1>1, <1>4 DEF VideoOK, Granted, Ancestral
<1>5. CASE ExecuteNoPid \/ \E g \in SwitchTargets : switch_term(g)
  <2>1. UNCHANGED <<pcb, pc, active_pid, kstack, video_user>>
    BY <1>5 DEF ExecuteNoPid, switch_term, procVars, mapVars
  <2> QED BY <2>1, <1>1, <1>3, <1>4 DEF Granted, Ancestral
<1>6. CASE Halt \/ TailMapPage
  <2>1. UNCHANGED <<pcb, active_pid, video_user>> /\ (pc'[me] \in {"t_map", "t_unmap"} \/ pc'[me] = pc[me])
    BY <1>6, <1>0 DEF Halt, TailMapPage, procVars, mapVars, Goto, TypeOK
  <2>2. pc[me] \in {"user", "t_map"}
    BY <1>6, <1>0 DEF Halt, TailMapPage
  <2> QED BY <2>1, <2>2, <1>1, <1>2, <1>3, <1>4 DEF Granted, Ancestral, VidmapPoints
<1>7. CASE TailUnmapVideo
  <2>1. /\ UNCHANGED <<pcb, active_pid, kstack>> /\ pc'[me] = "t_free"
        /\ video_user' # VIDEO_UNMAPPED => pcb[kstack[me]].vid_map_called
    BY <1>7, <1>0 DEF TailUnmapVideo, parent_pcb, procVars, Goto, TypeOK
  <2> QED BY <2>1, <1>1, <1>2, <1>3, <1>4 DEF VidmapPoints
<1>8. CASE TeardownFree
  <2>1. UNCHANGED <<pcb, active_pid, kstack, video_user>> /\ pc'[me] = "t_active" /\ pc[me] = "t_free"
    BY <1>8, <1>0 DEF TeardownFree, mapVars, Goto, TypeOK
  <2> QED BY <2>1, <1>1, <1>2, <1>3, <1>4 DEF VidmapPoints
<1>9. CASE TeardownActive
  <2>1. UNCHANGED <<pcb, kstack, video_user>> /\ pc[me] = "t_active"
    BY <1>9, <1>0 DEF TeardownActive, mapVars
  <2>2. kstack[me] = pcb[active_pid[me]].parent_pid /\ dying[me] = active_pid[me]
    BY <2>1 DEF Core, StackOK, DyingOK, TailPoints
  <2>3. active_pid'[me] = kstack[me] /\ pc'[me] = "t_clear"
    <3>1. kstack[me] \in Pids
      BY DEF TypeOK
    <3> QED BY <1>0, <1>9, <2>2, <3>1 DEF TeardownActive, Goto, TypeOK
  <2>4. video_user' # VIDEO_UNMAPPED => pcb'[kstack'[me]].vid_map_called /\ Granted(me)'
    <3>1. ASSUME video_user' # VIDEO_UNMAPPED
          PROVE  pcb'[kstack'[me]].vid_map_called /\ pcb'[active_pid'[me]].vid_map_called
      BY <3>1, <2>1, <2>3, <1>3
    <3> QED BY <3>1 DEF Granted, Ancestral
  <2> QED BY <2>1, <2>3, <2>4, <1>1, <1>2, <1>3, <1>4 DEF VidmapPoints
<1>10. CASE TeardownClear
  <2>1. /\ pc[me] = "t_clear" /\ pc'[me] \in {"user", "loop"}
        /\ UNCHANGED <<active_pid, kstack, video_user>>
        /\ pcb' = [pcb EXCEPT ![dying[me]] = ZeroPCB]
    BY <1>10, <1>0 DEF TeardownClear, mapVars, Goto, TypeOK, ToClear
  <2>2. dying[me] \notin Processes \cup {0} /\ kstack[me] = active_pid[me]
    BY <2>1 DEF Core, DyingOK, StackOK
  <2>3. \A p \in Pids \ {dying[me]} : pcb'[p] = pcb[p]
    BY <2>1 DEF TypeOK
  <2>4. \A g \in Groups : active_pid[g] \in Pids \ {dying[me]}
    BY <2>2, <1>1 DEF Core, TableOK, Processes, Present
  <2>5. ASSUME video_user' # VIDEO_UNMAPPED PROVE Granted(me)'
    <3>1. pcb'[active_pid'[me]].vid_map_called
      BY <2>1, <2>2, <2>3, <2>4, <2>5, <1>3
    <3> QED BY <3>1 DEF Granted, Ancestral
  <2>6. pcb'[0].parent_pid = -1
    BY <2>2, <2>3, <1>1
  <2> QED BY <2>1, <2>3, <2>4, <2>5, <2>6, <1>2, <1>3, <1>4 DEF VidmapPoints
<1>11. CASE VidmapMark
  <2>1. /\ pc[me] = "user" /\ pc'[me] \in VidmapPoints
        /\ UNCHANGED <<active_pid, kstack, video_user>>
        /\ pcb' = [pcb EXCEPT ![Self].vid_map_called = TRUE]
    BY <1>11, <1>0 DEF VidmapMark, mapVars, Goto, TypeOK, VidmapPoints
  <2>2. /\ pcb'[Self].vid_map_called
        /\ \A p \in Pids : /\ pcb'[p].parent_pid = pcb[p].parent_pid
                           /\ pcb[p].vid_map_called => pcb'[p].vid_map_called
    BY <2>1, <1>1 DEF TypeOK, PCB
  <2>3. Granted(me)'
    BY <2>1, <2>2, <1>1 DEF Granted, Ancestral
  <2> QED BY <2>1, <2>2, <2>3, <1>1, <1>2, <1>3, <1>4 DEF VidmapPoints
<1>12. CASE VidmapMap
  <2>1. pc[me] \in VidmapPoints /\ pc'[me] = "user" /\ UNCHANGED <<pcb, active_pid, kstack>>
    BY <1>12, <1>0 DEF VidmapMap, procVars, Goto, TypeOK, VidmapPoints
  <2>2. pcb'[active_pid'[me]].vid_map_called
    BY <2>1, <1>3
  <2>3. Granted(me)'
    BY <2>2 DEF Granted, Ancestral
  <2> QED BY <2>1, <2>3, <1>1, <1>2, <1>3, <1>4 DEF VidmapPoints
<1> QED BY <1>5, <1>6, <1>7, <1>8, <1>9, <1>10, <1>11, <1>12

(* A process in user mode finds VIDEO_USER mapped only on account of its own  *)
(* vidmap call or an ancestor's, unless a tick fell in the tail of an        *)
(* execute: the mapping of a child that halts does not outlive it.           *)
THEOREM VideoIsGranted == Spec => []VideoGranted
<1>1. Init => VideoOK
  <2> SUFFICES ASSUME Init PROVE VideoOK
    OBVIOUS
  <2>1. 0 \in Pids
    BY DEF Pids
  <2>2. pcb[0] = [ZeroPCB EXCEPT !.parent_pid = -1]
    BY <2>1 DEF Init, BootPCB
  <2> QED BY <2>2 DEF Init, VideoOK, VidmapPoints, ZeroPCB
<1>2. IInv /\ VideoOK /\ [Next]_vars => VideoOK'
  <2> SUFFICES ASSUME IInv, VideoOK, [Next]_vars PROVE VideoOK'
    OBVIOUS
  <2>1. CASE Torn'
    BY <2>1 DEF Torn, VideoOK
  <2>2. CASE ~Torn'
    <3>1. TypeOK /\ Core
      BY <2>2, TornStays DEF IInv
    <3>2. CASE UNCHANGED vars
      BY <3>2 DEF vars, VideoOK, Granted, Ancestral
    <3>3. CASE Next
      BY <3>1, <3>3, ScheduleVideo, ExecuteVideo, OtherVideo DEF Next
    <3> QED BY <3>2, <3>3
  <2> QED BY <2>1, <2>2
<1>3. VideoOK => VideoGranted
  BY DEF VideoOK, VideoGranted, At
<1> QED BY <1>1, <1>2, <1>3, Inductive, PTL DEF Spec

=============================================================================
