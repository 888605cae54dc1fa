-------------------------------- MODULE Tux ---------------------------------
(***************************************************************************)
(* The Tux controller driver: src/mp2/module/tuxctl-ioctl.c and its line   *)
(* discipline, tuxctl-ld.c.  A process issues ioctls; the serial driver's  *)
(* interrupt delivers the controller's bytes and may come between any two  *)
(* steps of the process.  The kernel is uniprocessor and not preemptive,   *)
(* so spin_lock(&l) and spin_lock(&a) exclude nothing, while a section     *)
(* under spin_lock_irqsave is one step.  Both contexts run the same code:  *)
(* an action takes the context c as its parameter, and the process moves   *)
(* only while no interrupt is being served.  Bytes are integers.           *)
(***************************************************************************)
EXTENDS Integers, Sequences, SequencesExt, FiniteSets

CONSTANTS
    TUXCTL_BUFSIZE, \* slots of a ring (64); one stays empty
    PACKET_BUF,     \* bytes data_callback takes at a time (12)
    CHUNK,          \* most bytes one receive interrupt delivers
    SERIAL_ROOM,    \* bytes the serial driver's own buffer holds
    Times,          \* game times, in seconds, that the game shows
    Presses,        \* sets of buttons the player holds down
    MAX_CALLS, MAX_EVENTS,      \* bounds of the model
    MAX_UPSETS      \* bound on resets, lost bytes and driver wakeups together

Buttons == {"start", "a", "b", "c", "up", "left", "down", "right"}
Arrows  == {"up", "left", "down", "right"}

ASSUME TuxAssumption ==
    /\ TUXCTL_BUFSIZE \in Nat /\ TUXCTL_BUFSIZE > 8     \* LED packet and init
    /\ PACKET_BUF \in Nat /\ CHUNK \in Nat \ {0} /\ CHUNK + 2 <= PACKET_BUF
    /\ PACKET_BUF <= TUXCTL_BUFSIZE
    /\ SERIAL_ROOM \in Nat
    /\ Times \subseteq 0..5999 /\ Presses \subseteq SUBSET Buttons
    /\ {MAX_CALLS, MAX_EVENTS, MAX_UPSETS} \subseteq Nat

Ctx == {"proc", "irq"}

VARIABLES
    ack, LED_values, packetB, packetC,      \* tuxctl-ioctl.c
    rx, tx,                                 \* the rings of disc_data
    saved, packet,                          \* tuxctl_ldisc_data_callback
    pc, arg, out, room, ret,                \* the two contexts and their locals
    pb, cmd,                                \* ioctl_tux_buttons: local copy, result
    wire_out, wire_in, leds, bioc,          \* serial line and controller
    asked, sent, handled, since, lost,      \* history
    calls, wakeups                          \* how much has happened

driver == <<ack, LED_values, packetB, packetC>>
ctx    == <<pc, arg, out, room, ret>>
but    == <<pb, cmd, since>>
line   == <<wire_out, wire_in, leds, bioc, sent, lost, wakeups>>
recv   == <<rx, saved, packet, handled>>
vars   == <<driver, tx, ctx, but, line, recv, asked, calls>>

Bit(x, i)    == (x \div 2^i) % 2
Nibble(x, i) == (x \div 2^i) % 16

MTCP_ACK == 64
MTCP_BIOC_EVENT == 65
MTCP_RESET == 70
MTCP_BIOC_ON == 195
MTCP_LED_SET == 198
MTCP_LED_USR == 200

-----------------------------------------------------------------------------
(* The rings. *)

Ring == [buf : [0..TUXCTL_BUFSIZE - 1 -> 0..255], start : 0..TUXCTL_BUFSIZE - 1,
         end : 0..TUXCTL_BUFSIZE - 1]
EmptyRing == [buf |-> [i \in 0..TUXCTL_BUFSIZE - 1 |-> 0], start |-> 0, end |-> 0]

buf_used(r) == IF r.start <= r.end THEN r.end - r.start
                                   ELSE TUXCTL_BUFSIZE + r.end - r.start

buf_room(r) == TUXCTL_BUFSIZE - buf_used(r) - 1

\* As many bytes of s as fit are stored at end; the others are dropped.
Store(r, s) ==
    LET n == IF Len(s) <= buf_room(r) THEN Len(s) ELSE buf_room(r)
        at(k) == (r.end + k) % TUXCTL_BUFSIZE
    IN  [r EXCEPT !.buf = [i \in DOMAIN r.buf |->
                              IF \E k \in 0..n - 1 : at(k) = i
                              THEN s[1 + CHOOSE k \in 0..n - 1 : at(k) = i] ELSE r.buf[i]],
                  !.end = at(n)]

\* The n oldest bytes of a ring, or all of them when there are fewer.
Oldest(r, n) ==
    [k \in 1..(IF n <= buf_used(r) THEN n ELSE buf_used(r)) |->
        r.buf[(r.start + k - 1) % TUXCTL_BUFSIZE]]

Drop(r, n) ==
    [r EXCEPT !.start = (@ + (IF n <= buf_used(r) THEN n ELSE buf_used(r))) % TUXCTL_BUFSIZE]

Content(r) == Oldest(r, TUXCTL_BUFSIZE)

-----------------------------------------------------------------------------
(* The 32-bit argument of TUX_SET_LED and the packet made of it. *)

\* mazegame.c: minutes and seconds as four digits, the decimal point of LED2
\* always on, the fourth LED only when it has something to show.
convertTime(t) ==
    LET mins == t \div 60
        secs == t % 60
    IN  4 * 2^24 + (IF mins \div 10 # 0 THEN 15 ELSE 7) * 2^16
        + (mins \div 10) * 2^12 + (mins % 10) * 2^8 + (secs \div 10) * 2^4 + (secs % 10)

ledHEX == <<231, 6, 203, 143, 46, 173, 237, 134, 239, 174, 238, 109, 225, 79, 233, 232>>

\* The segments of LED i, with its decimal point, if it is to be lit.
LedByte(a, i) ==
    LET seg == ledHEX[Nibble(a, 4 * i) + 1]
    IN  IF Bit(a, 16 + i) = 0 THEN <<>>
        ELSE IF Bit(a, 24 + i) = 1 /\ Bit(seg, 4) = 0 THEN <<seg + 16>> ELSE <<seg>>

LedPacket(a) ==
    <<MTCP_LED_SET, Nibble(a, 16)>> \o LedByte(a, 0) \o LedByte(a, 1) \o LedByte(a, 2) \o LedByte(a, 3)

-----------------------------------------------------------------------------
(* The controller, outside the repository: what mtcp.h documents.  A byte  *)
(* takes a millisecond on the line, so nothing moves on it while an        *)
(* interrupt is being served.                                              *)
LineMoves == pc["irq"] = "idle"

Segment == <<"D", "B", "C", "G", "dp", "F", "E", "A">>
Lit(byte) == {Segment[i] : i \in {j \in 1..8 : Bit(byte, j - 1) = 1}}

CommandLength(s) ==
    IF Head(s) = MTCP_LED_SET
    THEN IF Len(s) < 2 THEN 2 ELSE 2 + Cardinality({i \in 0..3 : Bit(s[2], i) = 1})
    ELSE 1

Sent(op) == Cardinality({i \in DOMAIN sent : sent[i][1] = op})

Upsets == Sent(MTCP_RESET) + lost + wakeups

Say(p) == sent' = Append(sent, p) /\ wire_in' = wire_in \o p

Obey ==
    /\ LineMoves /\ wire_out # <<>> /\ Len(wire_out) >= CommandLength(wire_out)
    /\ LET n == CommandLength(wire_out)
           on == SelectSeq(<<0, 1, 2, 3>>, LAMBDA i : Bit(wire_out[2], i) = 1)
       IN  /\ wire_out' = SubSeq(wire_out, n + 1, Len(wire_out))
           /\ leds' = IF Head(wire_out) = MTCP_LED_SET
                      THEN [i \in 0..3 |-> IF Contains(on, i)
                                THEN Lit(wire_out[2 + CHOOSE k \in 1..Len(on) : on[k] = i])
                                ELSE leds[i]]
                      ELSE leds
           /\ bioc' = (bioc \/ Head(wire_out) = MTCP_BIOC_ON)
           /\ IF Head(wire_out) \in {MTCP_LED_SET, MTCP_BIOC_ON}
              THEN Say(<<MTCP_ACK, 128, 128>>) ELSE UNCHANGED <<sent, wire_in>>
    /\ UNCHANGED <<driver, tx, ctx, but, recv, asked, calls, lost, wakeups>>

\* The RESET button: the controller forgets its display and its modes.
ResetButton ==
    /\ LineMoves /\ Upsets < MAX_UPSETS
    /\ leds' = [i \in 0..3 |-> {}] /\ bioc' = FALSE
    /\ Say(<<MTCP_RESET, 128, 128>>)
    /\ UNCHANGED <<driver, tx, ctx, but, recv, asked, calls, lost, wakeups, wire_out>>

\* Bits of the two button bytes, clear while the button is held.
Held(press, names) ==
    240 + 15 - (IF names[1] \in press THEN 1 ELSE 0) - (IF names[2] \in press THEN 2 ELSE 0)
             - (IF names[3] \in press THEN 4 ELSE 0) - (IF names[4] \in press THEN 8 ELSE 0)

EventOf(press) == <<MTCP_BIOC_EVENT, Held(press, <<"start", "a", "b", "c">>),
                    Held(press, <<"up", "left", "down", "right">>)>>

PressButtons ==
    /\ LineMoves /\ bioc /\ Sent(MTCP_BIOC_EVENT) < MAX_EVENTS
    /\ \E press \in Presses : Say(EventOf(press))
    /\ UNCHANGED <<driver, tx, ctx, but, recv, asked, calls, lost, wakeups, wire_out, leds, bioc>>

\* A byte of the controller is lost on the line.
LoseByte ==
    /\ LineMoves /\ wire_in # <<>> /\ lost = 0 /\ Upsets < MAX_UPSETS
    /\ wire_in' = Tail(wire_in) /\ lost' = lost + 1
    /\ UNCHANGED <<driver, tx, ctx, but, recv, asked, calls, wakeups, wire_out, leds, bioc, sent>>

-----------------------------------------------------------------------------
(* tuxctl_ldisc_put and tuxctl_ldisc_write_wakeup, in either context. *)

Runs(c) == c = "proc" => pc["irq"] = "idle"
Go(c, l) == pc' = [pc EXCEPT ![c] = l]

put(c) ==
    /\ Runs(c) /\ pc[c] = "put"
    /\ tx' = Store(tx, out[c])
    /\ Go(c, "room")
    /\ UNCHANGED <<driver, recv, arg, out, room, ret, but, line, asked, calls>>

\* The room is read before the ring is locked.
write_room(c) ==
    /\ Runs(c) /\ pc[c] = "room"
    /\ room' = [room EXCEPT ![c] = SERIAL_ROOM - Len(wire_out)]
    /\ Go(c, "pull")
    /\ UNCHANGED <<driver, tx, recv, arg, out, ret, but, line, asked, calls>>

\* Mutant: the first byte is skipped.
pull_off_by_one(c) ==
    /\ Runs(c) /\ pc[c] = "pull"
    /\ out' = [out EXCEPT ![c] = Oldest(Drop(tx, 1), room[c])]
    /\ tx' = Drop(tx, room[c] + 1)
    /\ Go(c, "write")
    /\ UNCHANGED <<driver, recv, arg, room, ret, but, line, asked, calls>>

\* The test is n <= room, so that one byte more than the room may be taken.
pull(c) ==
    /\ Runs(c) /\ pc[c] = "pull"
    /\ out' = [out EXCEPT ![c] = Oldest(tx, room[c] + 1)]
    /\ tx' = Drop(tx, room[c] + 1)
    /\ Go(c, "write")
    /\ UNCHANGED <<driver, recv, arg, room, ret, but, line, asked, calls>>

\* The serial driver takes what it has room for.
write(c) ==
    /\ Runs(c) /\ pc[c] = "write"
    /\ LET free == SERIAL_ROOM - Len(wire_out)
       IN  wire_out' = wire_out \o SubSeq(out[c], 1, IF Len(out[c]) < free THEN Len(out[c]) ELSE free)
    /\ Go(c, ret[c]) /\ out' = [out EXCEPT ![c] = <<>>]
    /\ UNCHANGED <<driver, tx, recv, arg, room, ret, but, asked, calls,
                   wire_in, leds, bioc, sent, lost, wakeups>>

\* ioctl_tux_init: put LED_USR and BIOC_ON, then go on at l.
StartInit(c, l) ==
    /\ out' = [out EXCEPT ![c] = <<MTCP_LED_USR, MTCP_BIOC_ON>>]
    /\ ret' = [ret EXCEPT ![c] = l]
    /\ Go(c, "put")

-----------------------------------------------------------------------------
(* ioctl_tux_leds, in either context. *)

save(c) ==
    /\ Runs(c) /\ pc[c] = "save"
    /\ LED_values' = arg[c]
    /\ Go(c, "test")
    /\ UNCHANGED <<ack, packetB, packetC, tx, recv, arg, out, room, ret, but, line, asked, calls>>

test(c) ==
    /\ Runs(c) /\ pc[c] = "test"
    /\ Go(c, IF ack = 1 THEN "clear" ELSE IF c = "irq" THEN "parse" ELSE "idle")
    /\ UNCHANGED <<driver, tx, recv, arg, out, room, ret, but, line, asked, calls>>

\* Mutant: ack is cleared although nothing is sent.
clear_unsent(c) ==
    /\ Runs(c) /\ pc[c] = "clear"
    /\ ack' = 0
    /\ Go(c, IF c = "irq" THEN "parse" ELSE "idle")
    /\ UNCHANGED <<LED_values, packetB, packetC, tx, recv, arg, out, ret, room, but, line, asked, calls>>

clear(c) ==
    /\ Runs(c) /\ pc[c] = "clear"
    /\ ack' = 0
    /\ out' = [out EXCEPT ![c] = LedPacket(arg[c])]
    /\ ret' = [ret EXCEPT ![c] = IF c = "irq" THEN "parse" ELSE "idle"]
    /\ Go(c, "put")
    /\ UNCHANGED <<LED_values, packetB, packetC, tx, recv, arg, room, but, line, asked, calls>>

-----------------------------------------------------------------------------
(* The ioctls of the process. *)

Call == pc["irq"] = "idle" /\ pc["proc"] = "idle" /\ calls' = calls + 1

TUX_INIT ==
    /\ Call /\ calls = 0
    /\ StartInit("proc", "idle")
    /\ UNCHANGED <<driver, tx, recv, arg, room, but, line, asked>>

TUX_SET_LED ==
    /\ Call /\ calls \in 1..MAX_CALLS
    /\ \E t \in Times : /\ arg' = [arg EXCEPT !["proc"] = convertTime(t)]
                        /\ asked' = asked \cup {t}
    /\ Go("proc", "save")
    /\ UNCHANGED <<driver, tx, recv, out, room, ret, but, line>>

\* packetB is copied, then packetC.
TUX_BUTTONS ==
    /\ Call /\ calls \in 1..MAX_CALLS
    /\ pb' = packetB /\ since' = Len(handled)
    /\ Go("proc", "packetC")
    /\ UNCHANGED <<driver, tx, recv, arg, out, room, ret, cmd, line, asked>>

\* Mutant: left and down are not exchanged.
buttons_byte_rdlu(b, p) == 16 * (p % 16) + (b % 16)

\* rdlu of the controller becomes rldu: the low byte of the result.
buttons_byte(b, p) ==
    16 * (8 * Bit(p, 3) + Bit(p, 0) + 2 * Bit(p, 2) + 4 * Bit(p, 1)) + (b % 16)

ioctl_tux_buttons ==
    /\ Runs("proc") /\ pc["proc"] = "packetC"
    /\ cmd' = buttons_byte(pb, packetC)
    /\ Go("proc", "idle")
    /\ UNCHANGED <<driver, tx, recv, arg, out, room, ret, pb, since, line, asked, calls>>

-----------------------------------------------------------------------------
(* The receive interrupt. *)

\* Any number of the bytes that have arrived are stored in the receive ring.
rcv_buf ==
    /\ pc["irq"] = "idle" /\ wire_in # <<>>
    /\ \E n \in 1..(IF CHUNK <= Len(wire_in) THEN CHUNK ELSE Len(wire_in)) :
          /\ rx' = Store(rx, SubSeq(wire_in, 1, n))
          /\ wire_in' = SubSeq(wire_in, n + 1, Len(wire_in))
    /\ Go("irq", "callback")
    /\ UNCHANGED <<driver, tx, saved, packet, handled, arg, out, room, ret, but,
                   wire_out, leds, bioc, sent, lost, wakeups, asked, calls>>

\* The bytes left over from the last time, then what the ring holds.
data_callback ==
    /\ pc["irq"] = "callback"
    /\ packet' = saved \o Oldest(rx, PACKET_BUF - Len(saved))
    /\ rx' = Drop(rx, PACKET_BUF - Len(saved))
    /\ Go("irq", "parse")
    /\ UNCHANGED <<driver, tx, saved, handled, arg, out, room, ret, but, line, asked, calls>>

\* Mutant: the third byte is not looked at.
Framed_two(p) == p[1] < 128 /\ p[2] >= 128

\* The framing bits: clear in the first byte of a packet, set in the others.
Framed(p) == p[1] < 128 /\ p[2] >= 128 /\ p[3] >= 128

\* ~c & MASK_LAST_4
response_bioc(p) == packetC' = 15 - (p[3] % 16) /\ packetB' = 15 - (p[2] % 16)

handle_packet(p) ==
    /\ handled' = Append(handled, p)
    /\ packet' = SubSeq(packet, 4, Len(packet))
    /\ \/ p[1] = MTCP_RESET /\ StartInit("irq", "restore") /\ UNCHANGED driver
       \/ /\ p[1] = MTCP_ACK /\ ack' = 1
          /\ UNCHANGED <<LED_values, packetB, packetC, pc, out, ret>>
       \/ p[1] = MTCP_BIOC_EVENT /\ response_bioc(p) /\ UNCHANGED <<ack, LED_values, pc, out, ret>>
       \/ /\ p[1] \notin {MTCP_RESET, MTCP_ACK, MTCP_BIOC_EVENT}
          /\ UNCHANGED <<driver, pc, out, ret>>
    /\ UNCHANGED <<saved, arg>>

\* One turn of the loop of data_callback; the last two bytes are kept.
parse ==
    /\ pc["irq"] = "parse"
    /\ \/ /\ Len(packet) > 2 /\ Framed(packet) /\ handle_packet(SubSeq(packet, 1, 3))
       \/ /\ Len(packet) > 2 /\ ~Framed(packet) /\ packet' = Tail(packet)
          /\ UNCHANGED <<driver, handled, saved, pc, arg, out, ret>>
       \/ /\ Len(packet) <= 2 /\ saved' = packet /\ packet' = <<>> /\ Go("irq", "idle")
          /\ UNCHANGED <<driver, handled, arg, out, ret>>
    /\ UNCHANGED <<tx, rx, room, but, line, asked, calls>>

\* response_reset once the controller is initialised again.
response_reset ==
    /\ pc["irq"] = "restore"
    /\ arg' = [arg EXCEPT !["irq"] = LED_values]
    /\ Go("irq", "save")
    /\ UNCHANGED <<driver, tx, recv, out, room, ret, but, line, asked, calls>>

\* The serial driver calls write_wakeup when it can take more.
DriverWakeup ==
    /\ pc["irq"] = "idle" /\ Content(tx) # <<>> /\ Upsets < MAX_UPSETS
    /\ Go("irq", "room") /\ ret' = [ret EXCEPT !["irq"] = "idle"]
    /\ wakeups' = wakeups + 1
    /\ UNCHANGED <<driver, tx, recv, arg, out, room, but, asked, calls,
                   wire_out, wire_in, leds, bioc, sent, lost>>

-----------------------------------------------------------------------------
Init ==
    /\ ack = 0 /\ LED_values = 0 /\ packetB = 0 /\ packetC = 0
    /\ rx = EmptyRing /\ tx = EmptyRing /\ saved = <<>> /\ packet = <<>>
    /\ pc = [c \in Ctx |-> "idle"] /\ arg = [c \in Ctx |-> 0]
    /\ out = [c \in Ctx |-> <<>>] /\ room = [c \in Ctx |-> 0]
    /\ ret = [c \in Ctx |-> "idle"]
    /\ pb = 0 /\ cmd = 0 /\ since = 0
    /\ wire_out = <<>> /\ wire_in = <<>> /\ leds = [i \in 0..3 |-> {}] /\ bioc = FALSE
    /\ asked = {} /\ sent = <<>> /\ handled = <<>> /\ lost = 0 /\ calls = 0 /\ wakeups = 0

Put(c)  == put(c) \/ write_room(c) \/ pull(c) \/ write(c)
Leds(c) == save(c) \/ test(c) \/ clear(c)
Interrupt == data_callback \/ parse \/ response_reset

Next ==
    \/ TUX_INIT \/ TUX_SET_LED \/ TUX_BUTTONS \/ ioctl_tux_buttons
    \/ \E c \in Ctx : Put(c) \/ Leds(c)
    \/ rcv_buf \/ Interrupt \/ DriverWakeup
    \/ Obey \/ ResetButton \/ PressButtons \/ LoseByte

\* A program that opened the controller calls TUX_INIT, a call in progress and
\* an interrupt go on, the line delivers, and the controller obeys.
Fairness ==
    /\ WF_vars(TUX_INIT) /\ WF_vars(ioctl_tux_buttons)
    /\ \A c \in Ctx : WF_vars(Put(c)) /\ WF_vars(Leds(c))
    /\ WF_vars(rcv_buf) /\ WF_vars(Interrupt) /\ WF_vars(Obey)

Spec == Init /\ [][Next]_vars /\ Fairness

-----------------------------------------------------------------------------
(* Properties. *)

\* Every variable keeps its type: the driver's bytes and nibbles, the rings
\* and the at most two bytes kept between interrupts.
TypeOK ==
    /\ ack \in 0..1 /\ LED_values \in Nat /\ {packetB, packetC, pb} \subseteq 0..15 /\ cmd \in 0..255
    /\ rx \in Ring /\ tx \in Ring
    /\ Len(saved) <= 2 /\ Len(packet) <= PACKET_BUF
    /\ pc["proc"] \in {"idle", "put", "room", "pull", "write", "save", "test", "clear", "packetC"}
    /\ pc["irq"] \in {"idle", "put", "room", "pull", "write", "save", "test", "clear",
                      "callback", "parse", "restore"}
    /\ \A c \in Ctx : arg[c] \in Nat /\ room[c] \in Int /\ ret[c] \in {"idle", "parse", "restore"}
                      /\ Len(out[c]) < TUXCTL_BUFSIZE
    /\ leds \in [0..3 -> SUBSET Range(Segment)] /\ bioc \in BOOLEAN /\ asked \subseteq Times

\* What LED i has to show at time t.
Digit(t, i) == <<t % 10, (t % 60) \div 10, (t \div 60) % 10, t \div 600>>[i + 1]
Shape == <<{"A", "B", "C", "D", "E", "F"}, {"B", "C"}, {"A", "B", "D", "E", "G"},
           {"A", "B", "C", "D", "G"}, {"B", "C", "F", "G"}, {"A", "C", "D", "F", "G"},
           {"A", "C", "D", "E", "F", "G"}, {"A", "B", "C"},
           {"A", "B", "C", "D", "E", "F", "G"}, {"A", "B", "C", "F", "G"}>>
Lights(t, i) == leds[i] = Shape[Digit(t, i) + 1] \cup (IF i = 2 THEN {"dp"} ELSE {})

\* The mask of a time below ten minutes leaves out LED 3.  The code passes it on
\* as the mask of MTCP_LED_SET, the LEDs to write, and not "which LEDs should be
\* turned on" (tuxctl-ioctl.c:150): LED 3 then stays as it was, dark or with the
\* leftmost digit of a time asked for earlier.
Shows(t) ==
    /\ \A i \in 0..2 : Lights(t, i)
    /\ IF t >= 600 THEN Lights(t, 3)
       ELSE leds[3] = {} \/ \E u \in asked : u >= 600 /\ Lights(u, 3)

\* Whatever the process and the interrupt write, and in whatever order their
\* packets reach the line, the controller is dark or shows what a time the
\* game asked for lights, digit by digit: commands are never mixed or cut. The
\* LED a command leaves out may still show the digit of an earlier time.
LedsGenuine == (\A i \in 0..3 : leds[i] = {}) \/ \E t \in asked : Shows(t)

\* The packets the driver acts on are the ones the controller sent, in order;
\* a lost byte costs at most the packet it belongs to.
Without(s, i) == SubSeq(s, 1, i - 1) \o SubSeq(s, i + 1, Len(s))
FramingSound ==
    \/ IsPrefix(handled, sent)
    \/ lost > 0 /\ \E i \in DOMAIN sent : IsPrefix(handled, Without(sent, i))

\* The byte TUX_BUTTONS returns: each half is that of an event the driver knew
\* when the call began or learned during it, the arrows not older than the
\* rest, and the buttons are the ones held down.
ByteButtons == <<"start", "a", "b", "c", "up", "down", "left", "right">>
Pressed(byte) == {ByteButtons[i] : i \in {j \in 1..8 : Bit(byte, j - 1) = 1}}
HeldAfter(n) ==
    LET ev == {i \in 1..n : handled[i][1] = MTCP_BIOC_EVENT}
    IN  IF ev = {} THEN {}
        ELSE CHOOSE press \in Presses :
                EventOf(press) = handled[CHOOSE i \in ev : \A j \in ev : j <= i]
ButtonsGenuine ==
    [][ioctl_tux_buttons =>
         \E i \in since..Len(handled) :
            Pressed(cmd') = (HeldAfter(i) \ Arrows) \cup (HeldAfter(Len(handled)) \cap Arrows)]_vars

\* The driver is not left waiting: unless a byte is lost, the acknowledgement
\* that lets the next TUX_SET_LED through comes.
AckReturns == (ack = 0) ~> (ack = 1 \/ lost > 0)

\* The rings of the line discipline are FIFO queues of TUXCTL_BUFSIZE - 1 bytes:
\* what arrives over the line is written to one, what a caller puts to the other.
RxQueue == INSTANCE Fifo WITH
    Capacity <- TUXCTL_BUFSIZE - 1, Writers <- {"rcv_buf"}, Readers <- {"callback"},
    offered <- [w \in {"rcv_buf"} |-> wire_in], buf <- Content(rx),
    out <- [r \in {"callback"} |-> SubSeq(packet, Len(saved) + 1, Len(packet))]
TxQueue == INSTANCE Fifo WITH
    Capacity <- TUXCTL_BUFSIZE - 1, Writers <- Ctx, Readers <- Ctx,
    offered <- out, buf <- Content(tx), out <- out

\* tuxctl_ldisc_rcv_buf and tuxctl_ldisc_get keep the receive ring a queue.
RxFifo == RxQueue!Spec

\* tuxctl_ldisc_put and write_wakeup, called by the process and by interrupts
\* between its steps, keep the transmit ring a queue.
TxFifo == TxQueue!Spec

\* What the two sides send reaches the other whole: the driver acts on the
\* controller's packets, and the LEDs show what was asked for.
PacketsSound == TypeOK /\ FramingSound /\ LedsGenuine

\* Both rings of the line discipline implement a queue.
RingsAreQueues == RxFifo /\ TxFifo

=============================================================================
