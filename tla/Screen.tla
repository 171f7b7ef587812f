------------------------------- MODULE Screen -------------------------------
(***************************************************************************)
(* The two ends of a console: devices/vga.c, the text display, and         *)
(* devices/kbd.c, which turns scancodes into characters.  Terminal has the *)
(* queues and locks between them.  Characters are their codes.             *)
(***************************************************************************)
EXTENDS Integers, SequencesExt, FiniteSetsExt

CONSTANTS
  COL_CNT, ROW_CNT,             \* 80 and 25 in the code
  TabStop,                      \* 8 in the code
  Shown,                        \* the characters written to the display
  Scancode,                     \* the scancodes of the keys in use
  Keycap,                       \* what is on the caps of those that type: alone and with Shift
  MaxChars, MaxEvents           \* bounds: characters written, keys moved

VARIABLES
  fb, cx, cy,                   \* the framebuffer's rows, and the cursor
  paper,                        \* history: all rows since the screen was cleared
  shift_state, caps_lock,       \* the shift keys that are down; Caps Lock
  held,                         \* history: the keys that are really down
  caps_presses,                 \* history: how often Caps Lock went down, modulo 2
  key, due,                     \* the character queued last; history: what was typed then
  chars, events                 \* characters written and keys moved so far
vga == <<fb, cx, cy, paper, chars>>
kbd == <<shift_state, caps_lock, held, caps_presses, key, due, events>>

ASSUME ScreenAssumption ==
  COL_CNT \in Nat \ {0} /\ ROW_CNT \in Nat \ {0} /\ TabStop \in Nat \ {0} /\ COL_CNT % TabStop = 0

Blank_ == [x \in 0 .. COL_CNT - 1 |-> 32]
-----------------------------------------------------------------------------
(* A display is its rows and cursor. *)
clear_row(d, y) == [d EXCEPT !.fb[y] = Blank_]
cls(d) == [fb |-> [y \in DOMAIN d.fb |-> Blank_], cx |-> 0, cy |-> 0]
scroll(d) == [d EXCEPT !.fb = [y \in DOMAIN @ |-> IF y < ROW_CNT - 1 THEN @[y + 1] ELSE Blank_]]

(* Mutant: the screen does not scroll, and its last row is used again. *)
NewlineStays(d) == LET y == Min({d.cy + 1, ROW_CNT - 1}) IN clear_row([d EXCEPT !.cx = 0, !.cy = y], y)

newline(d) ==
  IF d.cy + 1 >= ROW_CNT THEN scroll([d EXCEPT !.cx = 0, !.cy = ROW_CNT - 1])
  ELSE [d EXCEPT !.cx = 0, !.cy = @ + 1]

vga_putc(d, c) ==
  CASE c = 10 -> newline(d)
    [] c = 12 -> cls(d)
    [] c = 8 -> [d EXCEPT !.cx = IF @ > 0 THEN @ - 1 ELSE @]
    [] c = 13 -> [d EXCEPT !.cx = 0]
    [] c = 7 -> d
    [] c = 9 -> LET x == (d.cx \div TabStop + 1) * TabStop
                IN  IF x >= COL_CNT THEN newline(d) ELSE [d EXCEPT !.cx = x]
    [] OTHER -> LET w == [d EXCEPT !.fb[d.cy][d.cx] = c, !.cx = @ + 1]
                IN  IF w.cx >= COL_CNT THEN newline(w) ELSE w

Controls == {7, 8, 9, 10, 12, 13}

(* The same on paper, which is endless: rows are only ever added. *)
OnPaper(c) ==
  LET n == Len(paper)
      row == IF c \in Controls THEN paper ELSE [paper EXCEPT ![n][cx] = c]
      ends == \/ c = 10
              \/ c = 9 /\ cx >= COL_CNT - TabStop
              \/ c \notin Controls /\ cx = COL_CNT - 1
  IN  IF c = 12 THEN <<Blank_>> ELSE IF ends THEN Append(row, Blank_) ELSE row

VgaPutc(c) ==
  LET d == vga_putc([fb |-> fb, cx |-> cx, cy |-> cy], c)
  IN  /\ chars < MaxChars
      /\ fb' = d.fb /\ cx' = d.cx /\ cy' = d.cy
      /\ paper' = OnPaper(c)
      /\ chars' = chars + 1
-----------------------------------------------------------------------------
Keymap(first, c) == [code \in first .. first + Len(c) - 1 |-> c[code - first + 1]]
Union2(f, g) == [x \in DOMAIN f \cup DOMAIN g |-> IF x \in DOMAIN f THEN f[x] ELSE g[x]]
Keymaps(maps) == FoldLeft(Union2, <<>>, maps)

invariant_keymap == Keymaps(<<
  Keymap(1, <<27>>), Keymap(14, <<8>>),
  Keymap(15, <<9, 81, 87, 69, 82, 84, 89, 85, 73, 79, 80>>), Keymap(28, <<13>>),
  Keymap(30, <<65, 83, 68, 70, 71, 72, 74, 75, 76>>),
  Keymap(44, <<90, 88, 67, 86, 66, 78, 77>>),
  Keymap(55, <<42>>), Keymap(57, <<32>>), Keymap(83, <<127>>)>>)
unshifted_keymap == Keymaps(<<
  Keymap(2, <<49, 50, 51, 52, 53, 54, 55, 56, 57, 48, 45, 61>>),
  Keymap(26, <<91, 93>>), Keymap(39, <<59, 39, 96>>), Keymap(43, <<92>>), Keymap(51, <<44, 46, 47>>)>>)
shifted_keymap == Keymaps(<<
  Keymap(2, <<33, 64, 35, 36, 37, 94, 38, 42, 40, 41, 95, 43>>),
  Keymap(26, <<123, 125>>), Keymap(39, <<58, 34, 126>>), Keymap(43, <<124>>), Keymap(51, <<60, 62, 63>>)>>)

(* Right Alt and right Ctrl have the prefix 0xe0. *)
Prefixed == 57344
left_shift == 42
right_shift == 54
left_alt == 56
right_alt == Prefixed + 56
left_ctrl == 29
right_ctrl == Prefixed + 29
shift_keys == {left_shift, right_shift, left_alt, right_alt, left_ctrl, right_ctrl}
CapsLock == 58

tolower(c) == IF c \in 65..90 THEN c + 32 ELSE c

(* The character of a key that was pressed. *)
Character(code, down, caps) ==
  LET shift == down \cap {left_shift, right_shift} # {}
      alt == down \cap {left_alt, right_alt} # {}
      ctrl == down \cap {left_ctrl, right_ctrl} # {}
      keys == Union2(invariant_keymap, IF shift THEN shifted_keymap ELSE unshifted_keymap)
      c == keys[code]
      plain == IF ctrl /\ c \in 64..95 THEN c - 64 ELSE IF shift = caps THEN tolower(c) ELSE c
  IN  IF alt THEN plain + 128 ELSE plain

IsCharacter(code) == code \in DOMAIN invariant_keymap \cup DOMAIN unshifted_keymap
Delete == 83

(* What a key types by its cap: a letter is a capital if just one of Shift *)
(* and Caps Lock is on, Ctrl makes a control character of what has one,    *)
(* and Alt sets the high bit.                                              *)
Types(cap, down, caps) ==
  LET shift == down \cap {left_shift, right_shift} # {}
      ctrl == down \cap {left_ctrl, right_ctrl} # {}
      letter == cap[1] \in 97..122
      c == cap[IF (IF letter THEN shift # caps ELSE shift) THEN 2 ELSE 1]
  IN  (IF ctrl /\ letter THEN cap[2] - 64 ELSE IF ctrl /\ c \in 64..95 THEN c - 64 ELSE c)
        + (IF down \cap {left_alt, right_alt} # {} THEN 128 ELSE 0)

(* Mutant: the release of a shift key is not noticed. *)
ShiftStuck(code, release) == IF code \in shift_keys THEN shift_state \cup {code} ELSE shift_state

(* The shift keys known to be down after a key moves. *)
ShiftState(code, release) ==
  IF code \notin shift_keys THEN shift_state
  ELSE IF release THEN shift_state \ {code} ELSE shift_state \cup {code}

(* keyboard_interrupt, for the scancode of a key that is pressed, or held  *)
(* long enough to repeat, or released.  Ctrl+Alt+Del reboots; a character  *)
(* is dropped when the input buffer is full.                               *)
KeyEvent(code, release, full) ==
  LET reboot == /\ code = Delete /\ ~release
                /\ shift_state \cap {left_ctrl, right_ctrl} # {}
                /\ shift_state \cap {left_alt, right_alt} # {}
      queued == IsCharacter(code) /\ ~release /\ ~reboot /\ ~full
  IN  /\ events < MaxEvents
      /\ release => code \in held
      /\ held' = IF release THEN held \ {code} ELSE held \cup {code}
      /\ caps_presses' = IF code = CapsLock /\ ~release THEN 1 - caps_presses ELSE caps_presses
      /\ caps_lock' = IF code = CapsLock /\ ~release THEN ~caps_lock ELSE caps_lock
      /\ key' = IF queued THEN Character(code, shift_state, caps_lock) ELSE key
      /\ due' = IF queued THEN Types(Keycap[code], held, caps_presses = 1) ELSE due
      /\ shift_state' = ShiftState(code, release)
      /\ events' = IF reboot THEN MaxEvents ELSE events + 1

ScreenInit ==
  /\ fb = [y \in 0 .. ROW_CNT - 1 |-> Blank_] /\ cx = 0 /\ cy = 0
  /\ paper = <<Blank_>>
  /\ shift_state = {} /\ caps_lock = FALSE /\ held = {}
  /\ caps_presses = 0
  /\ key = 0 /\ due = 0
  /\ chars = 0 /\ events = 0

DisplayNext == \E c \in Shown : VgaPutc(c)
KeyboardNext == \E code \in Scancode, release, full \in BOOLEAN : KeyEvent(code, release, full)

(* The display shows the last rows of what was written, with the cursor    *)
(* inside it, however lines wrap, are tabbed or scroll; and the character  *)
(* queued is the one on the cap of the key typed, for the shift keys that  *)
(* were really down, in whatever order they went up and down, repeated or  *)
(* moved while the buffer was full.                                        *)
ConsoleRight ==
  LET n == Len(paper)
      first == Max({0, n - ROW_CNT})
  IN  /\ cx \in 0 .. COL_CNT - 1
      /\ cy = n - first - 1
      /\ key = due
      /\ \A y \in 0 .. ROW_CNT - 1 : fb[y] = IF first + y + 1 <= n THEN paper[first + y + 1] ELSE Blank_
=============================================================================
