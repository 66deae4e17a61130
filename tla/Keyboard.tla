------------------------------ MODULE Keyboard ------------------------------
(***************************************************************************)
(* devices/kbd.c: the interrupt handler that turns scancodes into          *)
(* characters of the input buffer (devices/input.c).  A scancode is a key, *)
(* pressed or released; characters are ASCII codes.  The keys are a sample *)
(* of each keymap and all the shift keys.                                  *)
(***************************************************************************)
EXTENDS Integers, Sequences

CONSTANTS BufferSize

VARIABLES
  shift_state,  \* left_shift .. right_ctrl
  caps_lock,
  input_buffer, \* devices/input.c
  rebooted,
  down          \* the shift keys that are really held down

kbdVars == <<shift_state, caps_lock, input_buffer, rebooted, down>>

ShiftKey == {"left_shift", "right_shift", "left_alt", "right_alt", "left_ctrl", "right_ctrl"}
invariant_keymap == [a |-> 65, delete |-> 127, space |-> 32]
unshifted_keymap == [two |-> 50, bracket |-> 91]
shifted_keymap == [two |-> 64, bracket |-> 123]
Key == ShiftKey \cup DOMAIN invariant_keymap \cup DOMAIN unshifted_keymap \cup {"caps", "f1"}

tolower(c) == IF c \in 65..90 THEN c + 32 ELSE c

InitKeyboard ==
  /\ shift_state = [k \in ShiftKey |-> FALSE]
  /\ caps_lock = FALSE
  /\ input_buffer = <<>>
  /\ rebooted = FALSE
  /\ down = {}

Either(a, b) == shift_state[a] \/ shift_state[b]

\* The first keymap that has the key; -1 if none has.
map_key(k, shift) ==
  IF k \in DOMAIN invariant_keymap THEN invariant_keymap[k]
  ELSE IF ~shift /\ k \in DOMAIN unshifted_keymap THEN unshifted_keymap[k]
  ELSE IF shift /\ k \in DOMAIN shifted_keymap THEN shifted_keymap[k] ELSE -1

\* input_putc, unless the buffer is full.
PutKey(c) ==
  input_buffer' = IF Len(input_buffer) < BufferSize THEN Append(input_buffer, c)
                                                    ELSE input_buffer

\* Mutant: releasing one of two shift keys turns shift off.
keyboard_interrupt_Pair(k, release) ==
  LET shift == Either("left_shift", "right_shift")
      c == map_key(k, shift)
  IN  IF k = "caps"
        THEN /\ caps_lock' = IF release THEN caps_lock ELSE ~caps_lock
             /\ UNCHANGED <<shift_state, input_buffer, rebooted>>
      ELSE IF c # -1
        THEN /\ IF release THEN UNCHANGED input_buffer
                ELSE PutKey(IF shift = caps_lock THEN tolower(c) ELSE c)
             /\ UNCHANGED <<shift_state, caps_lock, rebooted>>
      ELSE /\ shift_state' = IF k \in {"left_shift", "right_shift"}
                               THEN [shift_state EXCEPT !["left_shift"] = ~release,
                                                        !["right_shift"] = ~release]
                               ELSE shift_state
           /\ UNCHANGED <<caps_lock, input_buffer, rebooted>>

keyboard_interrupt(k, release) ==
  LET shift == Either("left_shift", "right_shift")
      alt == Either("left_alt", "right_alt")
      ctrl == Either("left_ctrl", "right_ctrl")
      c == map_key(k, shift)
      plain == IF ctrl /\ c >= 64 /\ c < 96 THEN c - 64
               ELSE IF shift = caps_lock THEN tolower(c) ELSE c
  IN  IF k = "caps"
        THEN /\ caps_lock' = IF release THEN caps_lock ELSE ~caps_lock
             /\ UNCHANGED <<shift_state, input_buffer, rebooted>>
      ELSE IF c # -1
        THEN /\ IF release THEN UNCHANGED <<input_buffer, rebooted>>
                ELSE IF c = 127 /\ ctrl /\ alt
                  THEN rebooted' = TRUE /\ UNCHANGED input_buffer
                ELSE /\ PutKey(IF alt THEN plain + 128 ELSE plain)
                     /\ UNCHANGED rebooted
             /\ UNCHANGED <<shift_state, caps_lock>>
      ELSE /\ shift_state' = IF k \in ShiftKey THEN [shift_state EXCEPT ![k] = ~release]
                                               ELSE shift_state
           /\ UNCHANGED <<caps_lock, input_buffer, rebooted>>

\* A key that is held down repeats its scancode; a key goes up once.
Press(k) ==
  /\ ~rebooted
  /\ keyboard_interrupt(k, FALSE)
  /\ down' = down \cup ({k} \cap ShiftKey)
Release(k) ==
  /\ ~rebooted /\ (k \in ShiftKey => k \in down)
  /\ keyboard_interrupt(k, TRUE)
  /\ down' = down \ {k}

\* input_getc of a reader.
input_getc ==
  /\ ~rebooted /\ input_buffer # <<>>
  /\ input_buffer' = Tail(input_buffer)
  /\ UNCHANGED <<shift_state, caps_lock, rebooted, down>>

NextKeyboard == input_getc \/ \E k \in Key : Press(k) \/ Release(k)

-----------------------------------------------------------------------------
\* What a key press should mean, by the keys that are held down at the time.
Held(a, b) == a \in down \/ b \in down
Letter(k) ==
  LET shift == Held("left_shift", "right_shift")
      upper == shift # caps_lock
      base == CASE k = "a" -> IF Held("left_ctrl", "right_ctrl") THEN 1
                              ELSE IF upper THEN 65 ELSE 97
                [] k = "space" -> 32
                [] k = "delete" -> 127
                [] k = "two" -> IF ~shift THEN 50
                                ELSE IF Held("left_ctrl", "right_ctrl") THEN 0 ELSE 64
                [] k = "bracket" -> IF shift THEN 123
                                    ELSE IF Held("left_ctrl", "right_ctrl") THEN 27 ELSE 91
  IN  IF Held("left_alt", "right_alt") THEN base + 128 ELSE base

\* Each press of a key appends the character that belongs to the modifier keys
\* held down at that moment, with one key or both keys of a pair and in any
\* order of presses, releases and repeats, and drops it if the buffer is full;
\* nothing else appends, and Ctrl+Alt+Del, and only that, reboots.
KeysTyped ==
  [][ LET reboot == Held("left_ctrl", "right_ctrl") /\ Held("left_alt", "right_alt")
          printing == Key \ (ShiftKey \cup {"caps", "f1"})
      IN  /\ \A k \in printing :
               Press(k) => IF k = "delete" /\ reboot THEN rebooted'
                           ELSE Len(input_buffer) < BufferSize =>
                                  input_buffer' = Append(input_buffer, Letter(k))
          /\ Len(input_buffer') > Len(input_buffer) => \E k \in printing : Press(k)
          /\ Len(input_buffer') <= BufferSize
          /\ rebooted' # rebooted => reboot ]_kbdVars
=============================================================================
