------------------------------- MODULE Input -------------------------------
(***************************************************************************)
(* kernel/drivers/keyboard.c: the PS/2 controller, the keyboard and the    *)
(* mouse.  An interrupt handler runs between any two memory accesses of    *)
(* the task that reads, and as a whole: both rings are shared without a    *)
(* lock.  The port protocol is its answers; the bounded waits for it, the  *)
(* LEDs, the statistics and kbd_extended, which nothing reads, are left    *)
(* out.  A character is the key and whether it is shifted.                 *)
(***************************************************************************)
EXTENDS Integers, Sequences, FiniteSets, TLC

CONSTANTS KEYBOARD_BUFFER_SIZE, MOUSE_BUFFER_SIZE,
          Scancodes,   \* bound: the keys in use
          MouseBytes   \* bound: the bytes the mouse sends

ASSUME InputAssumption ==
    /\ {KEYBOARD_BUFFER_SIZE, MOUSE_BUFFER_SIZE} \subseteq Nat \ {0}
    /\ Scancodes \subseteq 0 .. 127 /\ MouseBytes \subseteq 0 .. 255

VARIABLES ps2,      \* the machine: self-test and kind of mouse; devices ready, interrupts enabled, wheel
          keys,     \* the modifiers that are down and the locks that are on
          packet,   \* mouse_packet up to mouse_packet_idx
          ring,     \* kbd_buffer and mouse_buffer
          reader,   \* the task that reads each of them
          arrived   \* history: what was put into each ring and not read

InputVars == <<ps2, keys, packet, ring, reader, arrived>>

Devices == {"keyboard", "mouse"}
SizeOf == [keyboard |-> KEYBOARD_BUFFER_SIZE, mouse |-> MOUSE_BUFFER_SIZE]
Blank == <<0>>

InputInit ==
    /\ ps2 \in [selftest : BOOLEAN, wheelmouse : BOOLEAN, initialized : {FALSE}, ready : {{}}, irq : {{}}, wheel : {FALSE}]
    /\ keys = [modifiers |-> {}, locks |-> {}]
    /\ packet = <<>>
    /\ ring = [d \in Devices |-> [buffer |-> [i \in 0 .. (SizeOf[d] - 1) |-> Blank], head |-> 0, tail |-> 0]]
    /\ reader = [d \in Devices |-> [pc |-> "idle", item |-> Blank]]
    /\ arrived = [d \in Devices |-> <<>>]
-----------------------------------------------------------------------------
\* The controller.  Every operation is a function of its state and the device's answers.

ps2_init(p) == IF p.initialized THEN p ELSE [p EXCEPT !.irq = {}, !.initialized = p.selftest]

\* The result of ps2_init is not used.
KeyboardReady(p, ack) ==
    LET q == [ps2_init(p) EXCEPT !.irq = @ \cup {"keyboard"}]
    IN  IF ack THEN [q EXCEPT !.ready = @ \cup {"keyboard"}] ELSE q

MouseReady(p, ack) ==
    LET q == [ps2_init(p) EXCEPT !.irq = @ \cup {"mouse"}]
    IN  IF ack THEN [q EXCEPT !.ready = @ \cup {"mouse"}, !.wheel = p.wheelmouse] ELSE q

OnPs2(p) == ps2' = p /\ UNCHANGED <<keys, packet, ring, reader, arrived>>

keyboard_init(ack) == OnPs2(KeyboardReady(ps2, ack))
mouse_init(ack) == OnPs2(MouseReady(ps2, ack))

input_init(kack, mack) ==
    OnPs2(IF ~ps2_init(ps2).initialized THEN ps2_init(ps2)
          ELSE IF ~kack THEN KeyboardReady(ps2_init(ps2), FALSE)
          ELSE MouseReady(KeyboardReady(ps2_init(ps2), TRUE), mack))
-----------------------------------------------------------------------------
\* The handlers put into a ring what they made of the device's bytes, unless it is full.
RingNextOf(d, i) == (i + 1) % SizeOf[d]

\* Mutant: the last slot is used too, so that a full ring looks empty.
Put_last(d, item) ==
    LET r == ring[d] IN
    /\ ring' = [ring EXCEPT ![d].buffer[r.head] = item, ![d].head = RingNextOf(d, r.head)]
    /\ arrived' = [arrived EXCEPT ![d] = Append(@, item)]

Put(d, item) ==
    LET r == ring[d]
        next == RingNextOf(d, r.head)
    IN  IF next # r.tail
        THEN /\ ring' = [ring EXCEPT ![d].buffer[r.head] = item, ![d].head = next]
             /\ arrived' = [arrived EXCEPT ![d] = Append(@, item)]
        ELSE UNCHANGED <<ring, arrived>>

ModifierOf == (42 :> "LSHIFT") @@ (54 :> "RSHIFT") @@ (29 :> "LCTRL")

\* 30 is KBD_SCAN_A: the key of the letter, not the caps lock key.
LockOf == (30 :> "caps") @@ (69 :> "num") @@ (70 :> "scroll")

TableLength == 88   \* of kbd_us_normal and kbd_us_shift

\* Scan codes from that of A to that of Z are not the letters: they are two rows of the keyboard.
scancode_to_ascii(key) ==
    LET held    == keys.modifiers \cap {"LSHIFT", "RSHIFT"} # {}
        shifted == held \/ ("caps" \in keys.locks /\ key \in 30 .. 44)
    IN  IF key < TableLength THEN <<key, shifted>> ELSE Blank

Toggle(S, x) == IF x \in S THEN S \ {x} ELSE S \cup {x}

keyboard_interrupt_handler(key, pressed) ==
    /\ "keyboard" \in ps2.irq
    /\ IF key \in DOMAIN ModifierOf
       THEN /\ keys' = [keys EXCEPT !.modifiers = IF pressed THEN @ \cup {ModifierOf[key]} ELSE @ \ {ModifierOf[key]}]
            /\ UNCHANGED <<ring, arrived>>
       ELSE IF key \in DOMAIN LockOf
       THEN /\ keys' = IF pressed THEN [keys EXCEPT !.locks = Toggle(@, LockOf[key])] ELSE keys
            /\ UNCHANGED <<ring, arrived>>
       ELSE /\ IF pressed THEN Put("keyboard", scancode_to_ascii(key)) ELSE UNCHANGED <<ring, arrived>>
            /\ UNCHANGED keys
    /\ UNCHANGED <<ps2, packet, reader>>

int8(b) == IF b >= 128 THEN b - 256 ELSE b
HasBit(b, bit) == (b \div bit) % 2 = 1

\* Buttons, dx, dy and dz of a complete packet.  The three movements have 8 bits, in
\* which the 256 of a sign bit vanishes.  mouse_packet has three bytes; in the build,
\* which keeps the variables in the order of their declarations, the fourth byte of a
\* packet with a wheel is the low byte of mouse_packet_idx: it is written over an index
\* that ends the packet either way, and reads as the 0 just stored there.
MouseEvent(p) == <<p[1] % 8, int8(p[2]), int8((256 - p[3]) % 256), 0>>

\* Every byte without bit 3 starts a packet anew, not only a first one.
mouse_interrupt_handler(data) ==
    LET p == Append(packet, data) IN
    /\ "mouse" \in ps2.irq
    /\ IF ~HasBit(data, 8) THEN packet' = <<>> /\ UNCHANGED <<ring, arrived>>
       ELSE IF Len(p) < (IF ps2.wheel THEN 4 ELSE 3) THEN packet' = p /\ UNCHANGED <<ring, arrived>>
       ELSE packet' = <<>> /\ Put("mouse", MouseEvent(p))
    /\ UNCHANGED <<ps2, keys, reader>>
-----------------------------------------------------------------------------
\* The tasks that read, one memory access at a time.
Step(d, pc, item) ==
    /\ reader' = [reader EXCEPT ![d] = [pc |-> pc, item |-> item]]
    /\ UNCHANGED <<ps2, keys, packet>>

\* keyboard_getchar waits for a ring that is not empty; keyboard_getchar_nb and
\* mouse_get_event give up when it is empty.
StartRead(d) ==
    /\ reader[d].pc = "idle" /\ ring[d].head # ring[d].tail
    /\ Step(d, "take", Blank) /\ UNCHANGED <<ring, arrived>>

TakeItem(d) ==
    /\ reader[d].pc = "take"
    /\ Step(d, "advance", ring[d].buffer[ring[d].tail])
    /\ UNCHANGED <<ring, arrived>>

Advance(d) ==
    /\ reader[d].pc = "advance"
    /\ ring' = [ring EXCEPT ![d].tail = RingNextOf(d, @)]
    /\ arrived' = [arrived EXCEPT ![d] = Tail(@)]
    /\ Step(d, "idle", Blank)

keyboard_getchar == StartRead("keyboard") \/ TakeItem("keyboard") \/ Advance("keyboard")
mouse_get_event == StartRead("mouse") \/ TakeItem("mouse") \/ Advance("mouse")

\* keyboard_clear_buffer and mouse_clear_buffer: head is reset before tail.
ClearHead(d) ==
    /\ reader[d].pc = "idle"
    /\ ring' = [ring EXCEPT ![d].head = 0]
    /\ arrived' = [arrived EXCEPT ![d] = <<>>]
    /\ Step(d, "clear", Blank)

ClearTail(d) ==
    /\ reader[d].pc = "clear"
    /\ ring' = [ring EXCEPT ![d].tail = 0]
    /\ Step(d, "idle", Blank) /\ UNCHANGED arrived

\* The devices share only the controller, so a behaviour exercises the controller or
\* one of the devices.
ControllerNext ==
    \/ \E ack \in BOOLEAN : keyboard_init(ack)
    \/ \E ack \in BOOLEAN : mouse_init(ack)
    \/ \E kack, mack \in BOOLEAN : input_init(kack, mack)

KeyboardNext ==
    \/ \E ack \in BOOLEAN : keyboard_init(ack)
    \/ \E key \in Scancodes, pressed \in BOOLEAN : keyboard_interrupt_handler(key, pressed)
    \/ keyboard_getchar \/ ClearHead("keyboard") \/ ClearTail("keyboard")

MouseNext ==
    \/ \E ack \in BOOLEAN : mouse_init(ack)
    \/ \E data \in MouseBytes : mouse_interrupt_handler(data)
    \/ mouse_get_event \/ ClearHead("mouse") \/ ClearTail("mouse")
-----------------------------------------------------------------------------
\* The items of a ring from index i up to head.
Contents(d, i) ==
    LET n == (ring[d].head - i + SizeOf[d]) % SizeOf[d]
    IN  [k \in 1 .. n |-> ring[d].buffer[(i + k - 1) % SizeOf[d]]]

\* Handlers and readers share head, tail and the slots without a lock: whatever the
\* interrupts come between, a reader takes the characters and the events in the order
\* in which they were put, none twice, none lost and none half written; what comes
\* while a buffer is being cleared is the first of the new contents.
InputInOrder ==
    \A d \in Devices :
        /\ arrived[d] = Contents(d, IF reader[d].pc = "clear" THEN 0 ELSE ring[d].tail)
        /\ reader[d].pc \in {"take", "advance"} => arrived[d] # <<>>
        /\ reader[d].pc = "advance" => reader[d].item = Head(arrived[d])
=============================================================================
