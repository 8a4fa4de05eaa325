--------------------------------- MODULE Kbd --------------------------------
(***************************************************************************)
(* The keyboard: kbdgetc() of kbd.c decodes the bytes that the controller  *)
(* queues for keys pressed and released, and keeps what it knows of the    *)
(* modifier keys in shift.                                                 *)
(***************************************************************************)
EXTENDS Naturals, Sequences

CONSTANT MaxBytes \* bound: bytes the controller holds

VARIABLES down,   \* the keys that are pressed
          locked, \* whether caps lock was pressed an odd number of times
          double, \* modifiers for which two keys were pressed together, until both are released
          bytes,  \* the bytes in the controller, each with the state of the keys when it was sent
          shift,  \* the driver's static variable: a set of flags
          decoded \* the last character, with the state of the keys when it was sent

kbdVars == <<down, locked, double, bytes, shift, decoded>>

\* Keys: shift and control on both sides (the right control key sends an E0 byte
\* first), caps lock, and a letter.  Alt is like control.
KbdKey == {"lshift", "rshift", "lctl", "rctl", "caps", "a"}
Escaped == {"rctl"}

\* shiftcode, indexed by what a key sends: the right control key's entry is 0x9D.
shiftcode(k) == CASE k \in {"lshift", "rshift"} -> {"SHIFT"}
                  [] k \in {"lctl", "rctl"} -> {"CTL"}
                  [] OTHER -> {}
togglecode(k) == IF k = "caps" THEN {"CAPSLOCK"} ELSE {}

\* charcode[shift & (CTL | SHIFT)] for the letter key, with caps lock.
Letter(sh) == CASE "CTL" \in sh -> "C-a"
                [] ("SHIFT" \in sh) # ("CAPSLOCK" \in sh) -> "A"
                [] OTHER -> "a"

\* The flags that a set of keys stands for.
FlagsOf(held) == UNION {shiftcode(k) : k \in held}

KbdInit == down = {} /\ locked = FALSE /\ double = {} /\ bytes = <<>> /\ shift = {} /\ decoded = <<>>

-----------------------------------------------------------------------------
\* The keyboard sends a make or a break code, after E0 for an escaped key.
Send(k, release) ==
  LET b == [code |-> k, up |-> release, held |-> FlagsOf(down'), caps |-> locked', double |-> double']
  IN  IF k \in Escaped THEN <<[b EXCEPT !.code = "E0"], b>> ELSE <<b>>

Press(k) ==
  /\ k \notin down /\ Len(bytes) < MaxBytes
  /\ down' = down \cup {k}
  /\ locked' = (locked # (k = "caps"))
  /\ double' = double \cup (shiftcode(k) \cap FlagsOf(down))
  /\ bytes' = bytes \o Send(k, FALSE)
  /\ UNCHANGED <<shift, decoded>>

Lift(k) ==
  /\ k \in down /\ Len(bytes) < MaxBytes
  /\ down' = down \ {k} /\ UNCHANGED locked
  /\ double' = double \cap FlagsOf(down')
  /\ bytes' = bytes \o Send(k, TRUE)
  /\ UNCHANGED <<shift, decoded>>

\* What the byte of key k means to the driver: without the escape, the code of
\* the right control key is that of the left one.
Seen(k, sh) == IF k = "rctl" /\ "E0ESC" \notin sh THEN "lctl" ELSE k

\* Fault: a break code leaves the escape flag.
ReleasedKeeps(k, sh) == sh \ shiftcode(Seen(k, sh))

Released(k, sh) == sh \ (shiftcode(Seen(k, sh)) \cup {"E0ESC"})

Toggle(sh, f) == (sh \cup f) \ (sh \cap f)

Pressed(k, sh) == Toggle((sh \ {"E0ESC"}) \cup shiftcode(Seen(k, sh)), togglecode(k))

Kbdgetc ==
  /\ bytes # <<>>
  /\ LET b == Head(bytes)
     IN  /\ bytes' = Tail(bytes)
         /\ shift' = CASE b.code = "E0" -> shift \cup {"E0ESC"}
                       [] b.code # "E0" /\ b.up -> Released(b.code, shift)
                       [] OTHER -> Pressed(b.code, shift)
         /\ decoded' = IF b.code = "a" /\ ~b.up THEN <<[ch |-> Letter(shift'), as |-> b]>> ELSE decoded
  /\ UNCHANGED <<down, locked, double>>

KbdNext == Kbdgetc \/ \E k \in KbdKey : Press(k) \/ Lift(k)

KbdSpec == KbdInit /\ [][KbdNext]_kbdVars

-----------------------------------------------------------------------------
(***************************************************************************)
(* Properties.                                                             *)
(***************************************************************************)
\* Once every key is released and every byte is read, no modifier and no escape
\* is left in shift, and caps lock is on exactly if it was pressed an odd number
\* of times: no order of presses and releases leaves a modifier behind.
NothingStuck ==
  bytes = <<>> /\ down = {} => shift = IF locked THEN {"CAPSLOCK"} ELSE {}

\* A letter is decoded with the modifiers that were down when it was typed, not
\* with those of the moment the byte is read, as long as nobody holds two keys
\* for one modifier (the release of either clears the flag).
TypedAsHeld ==
  decoded # <<>> /\ decoded[1].as.double = {} =>
    LET k == decoded[1].as
    IN  decoded[1].ch = Letter(k.held \cup (IF k.caps THEN {"CAPSLOCK"} ELSE {}))

\* What kbdgetc returns is what was typed: with the modifiers of that moment, and
\* none left over from an earlier one.
KeysDecoded == NothingStuck /\ TypedAsHeld
=============================================================================
