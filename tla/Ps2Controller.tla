----------------------------- MODULE Ps2Controller -----------------------------
(***************************************************************************)
(* The 8042, and drivers/ps2.c's dialogue with it.  The controller has an  *)
(* input buffer for commands, which it empties in its own time, and one    *)
(* output buffer for its answers and the keyboard's bytes alike: which of  *)
(* the two a read gets is a question of order.  The mouse is silent (no    *)
(* driver has asked it to report).                                         *)
(***************************************************************************)
EXTENDS Sequences

VARIABLES
    todo,               \* ps2_init's port accesses still to be made
    config,             \* its local variable: the byte it took for the configuration
    ibuf, obuf,         \* the buffers; "none" if empty
    kbd_on,             \* the keyboard's bytes are passed on
    irq_on              \* the output buffer raises IRQ 1

ps2Vars == <<todo, config, ibuf, obuf, kbd_on, irq_on>>

ps2_read_config == <<"20", "read">>

ps2_write_config == <<"60", "data">>

(* Mutant of SetUp: no flush. *)
SetUpNoFlush == <<"AD", "A7">> \o ps2_read_config \o ps2_write_config

(* ps2_init before it routes the interrupt, and after.                     *)
SetUp == <<"AD", "A7", "flush">> \o ps2_read_config \o ps2_write_config

SwitchOn(mouse) == IF mouse THEN <<"AE", "A8">> ELSE <<"AE">>

(* Waits until the input buffer is empty.                                  *)
ps2_write ==
    /\ todo # << >> /\ Head(todo) \notin {"flush", "read"}
    /\ ibuf = "none"
    /\ ibuf' = Head(todo)
    /\ todo' = Tail(todo)
    /\ UNCHANGED <<config, obuf, kbd_on, irq_on>>

ps2_read_no_wait ==
    /\ todo # << >> /\ Head(todo) = "flush"
    /\ obuf' = "none"
    /\ todo' = Tail(todo)
    /\ UNCHANGED <<config, ibuf, kbd_on, irq_on>>

(* Waits until there is a byte.                                            *)
ps2_read ==
    /\ todo # << >> /\ Head(todo) = "read"
    /\ obuf # "none"
    /\ config' = obuf /\ obuf' = "none"
    /\ todo' = Tail(todo)
    /\ UNCHANGED <<ibuf, kbd_on, irq_on>>

(* The controller takes a command; the answer to 0x20 waits for room.      *)
Obey ==
    /\ ibuf # "none"
    /\ ibuf = "20" => obuf = "none"
    /\ ibuf' = "none"
    /\ obuf' = IF ibuf = "20" THEN "config" ELSE obuf
    /\ kbd_on' = CASE ibuf = "AD" -> FALSE [] ibuf = "AE" -> TRUE [] OTHER -> kbd_on
    /\ irq_on' = (irq_on \/ ibuf = "data")
    /\ UNCHANGED <<todo, config>>

KeyByte ==
    /\ kbd_on /\ obuf = "none"
    /\ obuf' = "key"
    /\ UNCHANGED <<todo, config, ibuf, kbd_on, irq_on>>

(* _handle_keyboard's read of the port.                                    *)
TakeByte ==
    /\ obuf' = "none"
    /\ UNCHANGED <<todo, config, ibuf, kbd_on, irq_on>>
=============================================================================
