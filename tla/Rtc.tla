--------------------------------- MODULE Rtc ---------------------------------
(* The virtual real-time clock of the mp3 kernel (rtc.c).  The chip runs at  *)
(* RTC_FREQ; each process group has its own divider, and rtc_read waits      *)
(* until the interrupt handler has counted RTC_FREQ/divider interrupts for   *)
(* the group.  The three arrays are shared between rtc_read, which runs with *)
(* interrupts on, and rtc_wrapper.                                           *)
(*                                                                           *)
(* disable_irq ends in sti(), so a PIT tick may suspend rtc_wrapper in the   *)
(* group it interrupted: IRQ 8 stays masked until that group runs again, and *)
(* the other groups run meanwhile.  The scheduler appears here only as the   *)
(* freedom of any group to take the next step.                               *)
EXTENDS Integers

CONSTANTS Groups,          \* process groups
          RTC_FREQ,        \* 1024: base frequency of the chip
          RTC_OFFSET,      \* 4: factor applied to the rate a process asks for
          MIN_RTC_RATE,    \* 2
          MAX_RTC_RATE,    \* 32768
          Inputs,          \* bound: the rates processes write
          MaxDepth         \* bound: processes of a group

ASSUME RtcAssumption == /\ Groups \subseteq Nat
                        /\ RTC_FREQ \in Nat \ {0}
                        /\ RTC_OFFSET \in Nat \ {0}
                        /\ MIN_RTC_RATE \in Nat \ {0}
                        /\ MAX_RTC_RATE \in Nat
                        /\ Inputs \subseteq Int
                        /\ MaxDepth \in Nat

NoHandler == -1
RTC_WAITING == 1
RTC_NOT_WAITING == 0

VARIABLES
  rtc_read_waiting,   \* per group: RTC_WAITING or RTC_NOT_WAITING
  rtc_intr_count,
  rtc_freq_divider,
  depth,              \* per group: how many processes deep it is
  holders,            \* per group: the depths of those with an RTC descriptor
  place,                 \* "idle", or where the group is in rtc_read
  handler,            \* the group whose stack carries rtc_wrapper
  counted,            \* history: interrupts handled since this rtc_read began
  raced               \* history: groups in whose read one of them fell between lines 115 and 118

rtcVars == <<rtc_read_waiting, rtc_intr_count, rtc_freq_divider>>
history == <<counted, raced>>
fds == <<depth, holders>>
clockVars == <<rtc_read_waiting, rtc_intr_count, rtc_freq_divider, depth, holders,
          place, handler, counted, raced>>

\* Static arrays start at zero, the divider included.
RtcInit ==
  /\ rtc_read_waiting = [g \in Groups |-> RTC_NOT_WAITING]
  /\ rtc_intr_count = [g \in Groups |-> 0]
  /\ rtc_freq_divider = [g \in Groups |-> 0]
  /\ depth = [g \in Groups |-> 1]
  /\ holders = [g \in Groups |-> {}]
  /\ place = [g \in Groups |-> "idle"]
  /\ handler = NoHandler
  /\ counted = [g \in Groups |-> 0]
  /\ raced = {}

\* The thread of group g can run: rtc_wrapper is not on top of its stack.
Runs(g) == handler # g
Waiting(g) == rtc_read_waiting[g] = RTC_WAITING
Holds(g) == depth[g] \in holders[g]

-----------------------------------------------------------------------------
(* Processes of a group come and go; each has its own descriptors.           *)

Spawn(g) ==
  /\ Runs(g) /\ place[g] = "idle"
  /\ depth[g] < MaxDepth
  /\ depth' = [depth EXCEPT ![g] = @ + 1]
  /\ UNCHANGED <<rtcVars, holders, place, handler, history>>

Exit(g) ==
  /\ Runs(g) /\ place[g] = "idle"
  /\ depth[g] > 1
  /\ depth' = [depth EXCEPT ![g] = @ - 1]
  /\ holders' = [holders EXCEPT ![g] = @ \ {depth[g]}]
  /\ UNCHANGED <<rtcVars, place, handler, history>>

\* Mutant: the divider is left as it was.
rtc_open_no_rate(g) ==
  /\ Runs(g) /\ place[g] = "idle"
  /\ rtc_read_waiting' = [rtc_read_waiting EXCEPT ![g] = RTC_NOT_WAITING]
  /\ rtc_intr_count' = [rtc_intr_count EXCEPT ![g] = 0]
  /\ holders' = [holders EXCEPT ![g] = @ \cup {depth[g]}]
  /\ UNCHANGED <<depth, rtc_freq_divider, place, handler, history>>

\* The descriptor is taken by system_open.  The handler skips a group that is
\* not waiting, so the three assignments need no steps of their own.
rtc_open(g) ==
  /\ Runs(g) /\ place[g] = "idle"
  /\ rtc_freq_divider' = [rtc_freq_divider EXCEPT ![g] = 2]
  /\ rtc_read_waiting' = [rtc_read_waiting EXCEPT ![g] = RTC_NOT_WAITING]
  /\ rtc_intr_count' = [rtc_intr_count EXCEPT ![g] = 0]
  /\ holders' = [holders EXCEPT ![g] = @ \cup {depth[g]}]
  /\ UNCHANGED <<depth, place, handler, counted, raced>>

\* Closing the process's last RTC descriptor.
rtc_close(g) ==
  /\ Runs(g) /\ place[g] = "idle" /\ Holds(g)
  /\ holders' = [holders EXCEPT ![g] = @ \ {depth[g]}]
  /\ UNCHANGED <<depth, rtcVars, place, handler, history>>

\* (input & (input - 1)) == 0, and in range.
PowersOfTwo == {2 ^ k : k \in 0 .. 30}
ValidRate(input) == /\ input \in PowersOfTwo \cup {0}
                    /\ input >= MIN_RTC_RATE
                    /\ input <= MAX_RTC_RATE

\* An invalid rate changes nothing.
rtc_write(g, input) ==
  /\ Runs(g) /\ place[g] = "idle" /\ Holds(g)
  /\ rtc_freq_divider' = IF ValidRate(input)
                         THEN [rtc_freq_divider EXCEPT ![g] = input * RTC_OFFSET]
                         ELSE rtc_freq_divider
  /\ UNCHANGED <<rtc_read_waiting, rtc_intr_count, fds, place, handler,
                 counted, raced>>

-----------------------------------------------------------------------------
(* rtc_read, interrupts on.                                                  *)

\* Line 115: set the waiting flag.
ReadMark(g) ==
  /\ Runs(g) /\ place[g] = "idle" /\ Holds(g)
  /\ rtc_read_waiting' = [rtc_read_waiting EXCEPT ![g] = RTC_WAITING]
  /\ place' = [place EXCEPT ![g] = "marked"]
  /\ UNCHANGED <<rtc_intr_count, rtc_freq_divider, fds, handler, history>>

\* Mutant: the count of the previous read is carried over.
ReadClear_keep(g) ==
  /\ Runs(g) /\ place[g] = "marked"
  /\ place' = [place EXCEPT ![g] = "spin"]
  /\ UNCHANGED <<rtcVars, fds, handler, history>>

\* Line 118: clear the count.
ReadClear(g) ==
  /\ Runs(g) /\ place[g] = "marked"
  /\ rtc_intr_count' = [rtc_intr_count EXCEPT ![g] = 0]
  /\ place' = [place EXCEPT ![g] = "spin"]
  /\ UNCHANGED <<rtc_read_waiting, rtc_freq_divider, fds, handler, history>>

\* Line 121: the loop ends when the flag is down.
ReadReturn(g) ==
  /\ Runs(g) /\ place[g] = "spin"
  /\ ~Waiting(g)
  /\ place' = [place EXCEPT ![g] = "idle"]
  /\ counted' = [counted EXCEPT ![g] = 0]
  /\ raced' = raced \ {g}
  /\ UNCHANGED <<rtcVars, fds, handler>>

-----------------------------------------------------------------------------
(* rtc_wrapper.                                                              *)

Threshold(g) == RTC_FREQ \div rtc_freq_divider[g]

\* IRQ 8 arrives while group g runs: mask it, EOI, and the window of sti().
IrqEnter(g) ==
  /\ handler = NoHandler
  /\ handler' = g
  /\ UNCHANGED <<rtcVars, fds, place, history>>

Done(g) == rtc_intr_count[g] + 1 >= Threshold(g)

\* Mutant: the line is left masked.
enable_irq_skipped == handler' = -2
enable_irq == handler' = NoHandler

\* The loop over the groups, the read of register C and enable_irq.
IrqBody ==
  /\ handler \in Groups
  /\ rtc_intr_count' = [g \in Groups |->
       IF Waiting(g) THEN rtc_intr_count[g] + 1 ELSE rtc_intr_count[g]]
  /\ rtc_read_waiting' = [g \in Groups |->
       IF Waiting(g) /\ ~Done(g) THEN RTC_WAITING ELSE RTC_NOT_WAITING]
  /\ enable_irq
  /\ counted' = [g \in Groups |->
       IF Waiting(g) THEN counted[g] + 1 ELSE counted[g]]
  /\ raced' = raced \cup {g \in Groups : Waiting(g) /\ place[g] = "marked"}
  /\ UNCHANGED <<rtc_freq_divider, fds, place>>

RtcNext ==
  \/ \E g \in Groups :
       \/ Spawn(g) \/ Exit(g)
       \/ rtc_open(g) \/ rtc_close(g)
       \/ \E input \in Inputs : rtc_write(g, input)
       \/ ReadMark(g) \/ ReadClear(g) \/ ReadReturn(g)
       \/ IrqEnter(g)
  \/ IrqBody

RtcSpec == RtcInit /\ [][RtcNext]_clockVars

(* Fairness.  The chip goes on interrupting and its handler is finished,     *)
(* since the scheduler comes back to the group that carries it; a group in   *)
(* rtc_read gets the CPU again and again between interrupts.                 *)
RtcFairSpec ==
  /\ RtcSpec
  /\ WF_clockVars(\E g \in Groups : IrqEnter(g))
  /\ WF_clockVars(IrqBody)
  /\ \A g \in Groups : SF_clockVars(ReadClear(g) \/ ReadReturn(g))

-----------------------------------------------------------------------------
(* Properties.                                                               *)

(* Flags, counts and dividers stay in their types.                           *)
RtcTypeOK ==
  /\ rtc_read_waiting \in [Groups -> {RTC_WAITING, RTC_NOT_WAITING}]
  /\ rtc_intr_count \in [Groups -> Nat]
  /\ rtc_freq_divider \in [Groups -> Nat]
  /\ depth \in [Groups -> Nat]
  /\ holders \in [Groups -> SUBSET Nat]
  /\ place \in [Groups -> {"idle", "marked", "spin"}]
  /\ handler \in Groups \cup {NoHandler}
  /\ counted \in [Groups -> Nat]
  /\ raced \subseteq Groups

(* rtc_wrapper never divides by zero: a group it counts for has opened the   *)
(* RTC in one of its processes, although the divider is zero until then.     *)
DividerSet == \A g \in Groups : Waiting(g) => rtc_freq_divider[g] # 0

\* The flag is down and rtc_read is about to return.
Returning(g) == place[g] = "spin" /\ ~Waiting(g)

(* A read returns after at least one interrupt, and after as many as the     *)
(* divider asks for unless one fell between the flag and the count.          *)
EnoughInterrupts ==
  \A g \in Groups : Returning(g) =>
    /\ counted[g] >= 1
    /\ g \notin raced => counted[g] >= Threshold(g)

(* A read takes no more interrupts than the divider asks for, and less than  *)
(* twice as many when some fall between the flag and the count (the group    *)
(* can lose the CPU there, so it may be many).                               *)
WaitBounded ==
  \A g \in Groups : place[g] # "idle" =>
    \/ counted[g] <= 1
    \/ counted[g] <= Threshold(g)
    \/ g \in raced /\ counted[g] < 2 * Threshold(g)

(* Every read returns, whatever the other groups do and wherever the handler *)
(* is suspended.                                                             *)
ReadReturns == \A g \in Groups : place[g] # "idle" ~> place[g] = "idle"

(* A read waits neither too short nor too long, but for the race at its      *)
(* start.                                                                    *)
WaitExact == EnoughInterrupts /\ WaitBounded

-----------------------------------------------------------------------------
(* The inductive invariant behind DividerSet, EnoughInterrupts and           *)
(* WaitBounded, group by group.                                              *)

\* A group with a descriptor, or in a read, has its divider set.
DividerOK(g) ==
  /\ holders[g] # {} => rtc_freq_divider[g] # 0
  /\ place[g] # "idle" => rtc_freq_divider[g] # 0
  /\ Waiting(g) => place[g] # "idle"

\* What a read has counted is what the handler counted, but for the
\* interrupts before the count was cleared, and those are too few to end it.
CountOK(g) ==
  /\ place[g] = "idle" => counted[g] = 0 /\ g \notin raced
  /\ place[g] = "marked" =>
       /\ g \in raced <=> counted[g] > 0
       /\ Waiting(g) => counted[g] = 0 \/ counted[g] < Threshold(g)
       /\ ~Waiting(g) => g \in raced /\ (counted[g] = 1 \/ counted[g] <= Threshold(g))
       /\ counted[g] <= rtc_intr_count[g]
  /\ place[g] = "spin" /\ Waiting(g) =>
       /\ rtc_intr_count[g] = 0 \/ rtc_intr_count[g] < Threshold(g)
       /\ g \notin raced => counted[g] = rtc_intr_count[g]
       /\ g \in raced => /\ counted[g] > rtc_intr_count[g]
                         /\ counted[g] < rtc_intr_count[g] + Threshold(g)
  /\ place[g] = "spin" /\ ~Waiting(g) =>
       /\ counted[g] >= 1
       /\ counted[g] = 1 \/ counted[g] <= Threshold(g)
            \/ (g \in raced /\ counted[g] < 2 * Threshold(g))
       /\ g \notin raced => counted[g] >= Threshold(g)

RtcInv == RtcTypeOK /\ \A g \in Groups : DividerOK(g) /\ CountOK(g)

=============================================================================
