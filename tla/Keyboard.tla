------------------------------ MODULE Keyboard -------------------------------
(* The PS/2 keyboard driver of the mp3 kernel (device/keyboard.c): the ring  *)
(* of command bytes waiting to be sent, the interrupt handler that reads one *)
(* byte of the keyboard's answers and scan codes at a time, and the key and  *)
(* lock states it keeps.                                                     *)
(*                                                                           *)
(* The keyboard itself is external: it answers each byte it is sent with ACK *)
(* or RESEND, reports keys while scanning is on, and hands its bytes to the  *)
(* driver in order, one interrupt each.  Every function of the driver that   *)
(* touches the ring runs under cli and is one step.  What a key does to the  *)
(* terminals (characters, Ctrl-L, Alt-F1) is in Terminal.                    *)
EXTENDS Integers, Sequences

CONSTANTS CMD_QUEUE_SIZE,   \* 50
          KeyCodes,         \* the keys: "caps", "lctrl", "rctrl" or some of them
          FifoSize,         \* bound: bytes the keyboard holds for the driver
          MaxResends        \* bound: bytes the keyboard fails to understand

ASSUME KeyboardAssumption == /\ CMD_QUEUE_SIZE \in Nat /\ CMD_QUEUE_SIZE > 3
                             /\ KeyCodes \subseteq {"caps", "lctrl", "rctrl"}
                             /\ FifoSize \in Nat /\ MaxResends \in Nat

\* The two controls share a scan code but for the extended prefix; caps is a lock.
Slots == 0 .. CMD_QUEUE_SIZE - 1

\* Command bytes: disable and enable scanning, set LEDs and its data byte.
Commands == {"F5", "F4", "ED", "off", "on"}

\* Bytes from the keyboard.
Byte(t) == [type |-> t, code |-> "none", release |-> FALSE]
Scan(c, r) == [type |-> "scan", code |-> c, release |-> r]

VARIABLES
  cmd_queue, start, end,            \* the ring
  scan_code_extended, keys, lock_states,
  boot,                             \* what keyboard_init does next
  fifo,                             \* external: bytes waiting to be read
  pressed, leds, scanning, data,    \* external: the keyboard
  resends,                          \* external: RESENDs so far
  muted                             \* history: a key moved while not scanning

ringVars   == <<cmd_queue, start, end>>
keyVars    == <<scan_code_extended, keys, lock_states>>
deviceVars == <<fifo, leds, scanning, data, resends>>
vars == <<cmd_queue, start, end, scan_code_extended, keys, lock_states, boot,
          fifo, pressed, leds, scanning, data, resends, muted>>

Init ==
  /\ cmd_queue = [i \in Slots |-> "none"]
  /\ start = 0 /\ end = 0
  /\ scan_code_extended = FALSE
  /\ keys = {}
  /\ lock_states = "off"
  /\ boot = "disable"
  /\ fifo = <<>>
  /\ pressed = {}
  /\ leds = "off"
  /\ scanning = TRUE
  /\ data = FALSE
  /\ resends = 0
  /\ muted = FALSE

-----------------------------------------------------------------------------
(* The keyboard's side of outb(byte, KEY_PORT): it obeys and acknowledges,   *)
(* or asks for the byte again.  f is the queue it appends its answer to.     *)

Obey(byte, f) ==
  /\ fifo' = Append(f, Byte("ack"))
  /\ leds' = IF data THEN byte ELSE leds
  /\ scanning' = IF data \/ byte \notin {"F4", "F5"} THEN scanning
                                                    ELSE byte = "F4"
  /\ data' = (~data /\ byte = "ED")
  /\ UNCHANGED resends

Refuse(f) ==
  /\ resends < MaxResends
  /\ resends' = resends + 1
  /\ fifo' = Append(f, Byte("resend"))
  /\ UNCHANGED <<leds, scanning, data>>

outb(byte, f) == Obey(byte, f) \/ Refuse(f)

NoOutput(f) == fifo' = f /\ UNCHANGED <<leds, scanning, data, resends>>

-----------------------------------------------------------------------------
(* The ring.                                                                 *)

empty(s, e) == s = e
used(s, e) == IF s <= e THEN e - s ELSE CMD_QUEUE_SIZE + e - s
room(s, e) == CMD_QUEUE_SIZE - used(s, e) - 1

inc(i, n) == (i + n) % CMD_QUEUE_SIZE

\* cmd_queue with the bytes of cmd from end on.
Filled(cmd) == [i \in Slots |-> LET k == ((i - end) % CMD_QUEUE_SIZE) + 1
                                IN IF k <= Len(cmd) THEN cmd[k] ELSE cmd_queue[i]]

\* Mutant: the room is tested for each byte.
Queue_bytewise(cmd) ==
  LET fits == SubSeq(cmd, 1, room(start, end))
  IN IF room(start, end) >= Len(cmd)
     THEN cmd_queue' = Filled(cmd) /\ end' = inc(end, Len(cmd))
     ELSE cmd_queue' = Filled(fits) /\ end' = inc(end, Len(fits))

\* Both bytes of a command or neither.
Queue(cmd) ==
  IF room(start, end) > Len(cmd)
  THEN cmd_queue' = Filled(cmd) /\ end' = inc(end, Len(cmd))
  ELSE UNCHANGED <<cmd_queue, end>>

\* An empty ring sends the first byte at once, and keeps it until the ACK.
send_cmd(cmd, f) ==
  /\ IF empty(start, end) THEN outb(cmd[1], f) ELSE NoOutput(f)
  /\ Queue(cmd)
  /\ UNCHANGED start

\* Mutant: nothing is sent.
send_head_none(s, f) == NoOutput(f)

\* The byte sent is that of slot 0, whatever start is.
send_head(s, f) ==
  IF empty(s, end) THEN NoOutput(f) ELSE outb(cmd_queue[0], f)

pop_head == IF empty(start, end) THEN start ELSE inc(start, 1)

-----------------------------------------------------------------------------
(* keyboard_init, with interrupts on between its two commands.               *)

DisableScan ==
  /\ boot = "disable" /\ boot' = "enable"
  /\ send_cmd(<<"F5">>, fifo)
  /\ UNCHANGED <<keyVars, pressed, muted>>

EnableScan ==
  /\ boot = "enable" /\ boot' = "done"
  /\ send_cmd(<<"F4">>, fifo)
  /\ UNCHANGED <<keyVars, pressed, muted>>

(* The keyboard interrupt: one byte, read with inb.                          *)

Read(t) == fifo # <<>> /\ Head(fifo).type = t

HandleAck ==
  /\ Read("ack")
  /\ start' = pop_head
  /\ send_head(pop_head, Tail(fifo))
  /\ UNCHANGED <<cmd_queue, end, keyVars, boot, pressed, muted>>

HandleResend ==
  /\ Read("resend")
  /\ send_head(start, Tail(fifo))
  /\ UNCHANGED <<ringVars, keyVars, boot, pressed, muted>>

HandleExtended ==
  /\ Read("extended")
  /\ scan_code_extended' = TRUE
  /\ NoOutput(Tail(fifo))
  /\ UNCHANGED <<ringVars, keys, lock_states, boot, pressed, muted>>

\* Mutant: the extended half of the map is not used.
scan_map_plain(code) == IF code = "ctrl" THEN "lctrl" ELSE code

\* The extended half holds the right control, and escape (0) for a code that
\* no extended key has.
scan_map(code) ==
  IF scan_code_extended THEN (IF code = "ctrl" THEN "rctrl" ELSE "escape")
                        ELSE (IF code = "ctrl" THEN "lctrl" ELSE code)

Toggle(state) == IF state = "on" THEN "off" ELSE "on"

\* The default case: a key is released, or pressed and a lock toggles the LEDs.
HandleScan ==
  /\ Read("scan")
  /\ LET mapping == scan_map(Head(fifo).code)
         release == Head(fifo).release
         lock    == ~release /\ mapping = "caps"
     IN /\ keys' = IF release THEN keys \ {mapping} ELSE keys \cup {mapping}
        /\ lock_states' = IF lock THEN Toggle(lock_states) ELSE lock_states
        /\ IF lock
           THEN send_cmd(<<"ED", Toggle(lock_states)>>, Tail(fifo))
           ELSE NoOutput(Tail(fifo)) /\ UNCHANGED ringVars
  /\ scan_code_extended' = FALSE
  /\ UNCHANGED <<boot, pressed, muted>>

-----------------------------------------------------------------------------
(* External: the user presses (again, when held down) and releases keys.     *)

CodeOf(k) == IF k = "caps" THEN "caps" ELSE "ctrl"
Report(k, release) ==
  /\ Len(fifo) + 2 <= FifoSize
  /\ fifo' = IF ~scanning THEN fifo
             ELSE fifo \o (IF k = "rctrl" THEN <<Byte("extended")>> ELSE <<>>)
                       \o <<Scan(CodeOf(k), release)>>
  /\ muted' = (muted \/ ~scanning)
  /\ UNCHANGED <<ringVars, keyVars, boot, leds, scanning, data, resends>>

Press(k) == pressed' = pressed \cup {k} /\ Report(k, FALSE)
Release(k) == k \in pressed /\ pressed' = pressed \ {k} /\ Report(k, TRUE)

Handle == HandleAck \/ HandleResend \/ HandleExtended \/ HandleScan

Next == \/ DisableScan \/ EnableScan
        \/ HandleAck \/ HandleResend \/ HandleExtended \/ HandleScan
        \/ \E k \in KeyCodes : Press(k) \/ Release(k)

Spec == Init /\ [][Next]_vars

(* Fairness.  A byte the keyboard holds raises its interrupt until it is     *)
(* read, and entry() gets through keyboard_init.  The user owes nothing.     *)
FairSpec == Spec /\ WF_vars(Handle) /\ WF_vars(DisableScan) /\ WF_vars(EnableScan)

-----------------------------------------------------------------------------
(* Properties.                                                               *)

(* The ring's indices stay inside the array and the rest in its types.       *)
TypeOK ==
  /\ cmd_queue \in [Slots -> Commands \cup {"none"}]
  /\ start \in Slots /\ end \in Slots
  /\ scan_code_extended \in BOOLEAN
  /\ keys \subseteq {"caps", "lctrl", "rctrl", "escape"}
  /\ lock_states \in {"on", "off"}
  /\ boot \in {"disable", "enable", "done"}
  /\ pressed \subseteq KeyCodes
  /\ leds \in Commands
  /\ scanning \in BOOLEAN /\ data \in BOOLEAN /\ muted \in BOOLEAN
  /\ resends \in 0 .. MaxResends

(* The driver's key states are the keyboard's once its bytes are read: no    *)
(* answer to a command, prefix or lost byte confuses left and right control  *)
(* or leaves a key down.                                                     *)
KeysInSync == fifo = <<>> /\ ~muted => keys = pressed

Answers == {i \in 1 .. Len(fifo) : fifo[i].type \in {"ack", "resend"}}

(* Exactly one byte is out while the ring holds any, and none otherwise: a   *)
(* command never overtakes the one before it, and the ring never waits for   *)
(* an answer that is not coming.                                             *)
OneOutstanding ==
  /\ ~empty(start, end) => \E i \in Answers : Answers = {i}
  /\ empty(start, end) => Answers = {}

\* The n-th byte waiting in the ring.
Waiting(n) == cmd_queue[inc(start, n - 1)]

(* A two-byte command is queued whole or not at all: no set-LEDs command     *)
(* waits without its data byte, however full the ring.                       *)
CommandsWhole ==
  \A n \in 1 .. used(start, end) :
    Waiting(n) = "ED" => n < used(start, end) /\ Waiting(n + 1) \in {"on", "off"}

(* Every command is got rid of: the ring drains once the user stops.         *)
RingDrains ==
  []<>empty(start, end) \/ \E k \in KeyCodes : []<><<Press(k)>>_vars

(* The ring is sound: indices inside the array, one byte out at a time and   *)
(* commands whole, whatever the user presses and the device refuses.         *)
RingSound == TypeOK /\ OneOutstanding /\ CommandsWhole

=============================================================================
