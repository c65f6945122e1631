------------------------------ MODULE Terminal ------------------------------
(***************************************************************************)
(* terminal.c: text output with wrap and scroll, the input line below it,  *)
(* and the commands.  Columns are counted in glyphs and rows in pixels, so *)
(* that a text line is GlyphHeight pixel rows, the last of them padding.   *)
(* A pixel row of the frame buffer holds what it shows in each column.     *)
(*                                                                         *)
(* The kernel loop is the only caller, so each call is a step.  Colours    *)
(* are left out, and so is the cursor: nothing calls term_cblink, so it    *)
(* stays invisible, and _clear_cursor only touches a pixel column left of  *)
(* the first glyph.  Key releases and keys without a character do nothing. *)
(***************************************************************************)
EXTENDS Integers, Sequences, SequencesExt

CONSTANTS
    Keys,           \* characters that can be typed
    Cols,           \* glyphs in a line
    GlyphHeight,    \* pixel rows of a line
    Height,         \* pixel rows of the frame buffer
    MaxInput,       \* bound: characters in the input line
    Messages,       \* what the boot code prints, each ending in a newline
    Leftovers,      \* what tprintf's buffer may hold behind an empty string
    Hello, Cls, Time, Stime     \* the commands, over Keys

NL == "newline"
NUL == "nul"
SPACE == "space"

ASSUME ScreenAssumption ==
    /\ MaxInput \in Nat /\ Cols \in Nat /\ Cols >= MaxInput + 2
    /\ GlyphHeight \in Nat /\ GlyphHeight >= 2
    /\ Height \in Nat /\ Height >= 2 * GlyphHeight

(* Texts are strings of any characters.  Three boot messages without a     *)
(* newline are followed by a halt, and are not among Messages; nvme_init's *)
(* is followed by the rest of its line, and the two are one message.       *)
ASSUME TextAssumption ==
    /\ \A msg \in Messages : msg \in Seq(Range(msg)) /\ msg # << >> /\ Last(msg) = NL
    /\ \A left \in Leftovers : left \in Seq(Range(left))

VARIABLES
    term,       \* the frame buffer and the positions in it
    input_str,
    looping,    \* boot is over
    log         \* history: the lines written so far that should be visible

vars == <<term, input_str, looping, log>>

Ys == 0 .. Height - 1
Xs == 0 .. Cols - 1
EmptyRow == [x \in Xs |-> SPACE]
Prompt == <<"#", SPACE>>

-----------------------------------------------------------------------------
(* Drawing.  Each operator takes the terminal and returns it changed.      *)

(* memset from fbindex(0, from) to fbindex(width, to): row to is included, *)
(* and may lie behind the frame buffer.                                    *)
BlankRows(t, from, to) ==
    [t EXCEPT !.screen = [y \in Ys |-> IF from <= y /\ y <= to THEN EmptyRow ELSE @[y]],
              !.overrun = @ \/ to >= Height]

_clear_screen(t) == BlankRows(t, 0, Height)

_render_glyph(t, ch, x, y) ==
    [t EXCEPT !.screen = [r \in Ys |-> IF y <= r /\ r < y + GlyphHeight - 1
                                         THEN [@[r] EXCEPT ![x] = ch] ELSE @[r]]]

(* Mutant of _shift_screen_up: the last line is blanked, nothing moves. *)
ShiftNothing(t) == BlankRows(t, Height - GlyphHeight, Height)

_shift_screen_up(t) ==
    BlankRows([t EXCEPT !.screen = [y \in Ys |-> IF y + GlyphHeight < Height
                                                   THEN @[y + GlyphHeight] ELSE @[y]]],
              Height - GlyphHeight, Height)

_render_input_line(t) ==
    LET y == IF t.render_x > 0 THEN t.render_y + GlyphHeight ELSE t.render_y
    IN  [_render_glyph(_render_glyph(t, "#", 0, y), SPACE, 1, y)
            EXCEPT !.input_render_x = 2, !.input_render_y = y]

AtBottom(y) == y > Height - GlyphHeight

_move_to_next_line(t) ==
    LET left == IF t.render_x = 0 THEN BlankRows(t, t.render_y, t.render_y + GlyphHeight) ELSE t
        down == [left EXCEPT !.render_x = 0, !.render_y = @ + GlyphHeight]
        fit  == IF AtBottom(down.render_y)
                  THEN [_shift_screen_up(down) EXCEPT !.render_y = @ - GlyphHeight]
                  ELSE down
    IN  _render_input_line(BlankRows(fit, fit.render_y, fit.render_y + GlyphHeight))

PutChar(t, ch) ==
    LET drawn == [_render_glyph(t, ch, t.render_x, t.render_y) EXCEPT !.render_x = @ + 1]
    IN  CASE ch = NL -> _move_to_next_line(t)
          [] ch # NL /\ drawn.render_x = Cols -> _move_to_next_line(drawn)
          [] ch # NL /\ drawn.render_x # Cols -> drawn

(* The text tprintf draws: its loop tests for the end of the string only   *)
(* after the first character, so that an empty one yields its terminator   *)
(* and whatever the buffer, which is not initialised, holds behind it.     *)
Drawn(str, left) == IF str = << >> THEN <<NUL>> \o left ELSE str

tprintf(t, str) ==
    FoldLeft(PutChar,
             IF t.render_x = 0 THEN BlankRows(t, t.render_y, t.render_y + GlyphHeight) ELSE t,
             str)

term_clear(t) ==
    _render_input_line([_clear_screen(t) EXCEPT !.render_x = 0, !.render_y = 0])

-----------------------------------------------------------------------------
(* strcmp(l, r) == 0: the strings agree as far as the shorter one goes.    *)
strcmp(l, r) == \A i \in (1 .. Len(l)) \cap (1 .. Len(r)) : l[i] = r[i]

(* The first command that the input matches, in _handle_cmd's order.       *)
Chosen(str) ==
    LET cmds == <<Hello, Cls, Time, Stime>>
    IN  SelectInSeq(cmds, LAMBDA c : strcmp(str, c))

Output(str) ==
    CASE Chosen(str) = 1 -> <<"World!", NL>>
      [] Chosen(str) = 2 -> << >>
      [] Chosen(str) = 3 -> <<"Kerner", SPACE, "Time:", SPACE, "ms", NL>>
      [] Chosen(str) = 4 -> <<"Kerner", SPACE, "Time:", SPACE, "s", NL>>
      [] Chosen(str) = 0 -> <<"Unknown", SPACE, "command.", NL>>

_handle_cmd(t, str) == IF Chosen(str) = 2 THEN term_clear(t) ELSE tprintf(t, Output(str))

(* The reference for the screen: text broken into lines, a line ending at  *)
(* a newline or when it is full; the last Visible of them are kept.        *)
Visible == (Height \div GlyphHeight) - 1
AddChar(l, ch) ==
    LET cur == IF ch = NL THEN l.cur ELSE Append(l.cur, ch)
    IN  IF ch = NL \/ Len(cur) = Cols
          THEN [done |-> Append(l.done, cur), cur |-> << >>]
          ELSE [l EXCEPT !.cur = cur]
LogWith(text) ==
    LET all == FoldLeft(AddChar, [done |-> log, cur |-> << >>], text).done
    IN  SubSeq(all, IF Len(all) > Visible THEN Len(all) - Visible + 1 ELSE 1, Len(all))

-----------------------------------------------------------------------------
(* term_init: the frame buffer is as the boot loader left it, and only the *)
(* prompt is drawn.                                                        *)
Init ==
    /\ \E ch \in {SPACE, "?"} :
           term = _render_input_line(
                      [screen |-> [y \in Ys |-> [x \in Xs |-> ch]], overrun |-> FALSE,
                       render_x |-> 0, render_y |-> 0,
                       input_render_x |-> 0, input_render_y |-> 0])
    /\ input_str = << >>
    /\ looping = FALSE
    /\ log = << >>

(* kernel_main's messages; the loop starts after at least one of them.     *)
kprintf(msg, last) ==
    /\ ~looping
    /\ term' = tprintf(term, msg)
    /\ log' = LogWith(msg)
    /\ looping' = last
    /\ UNCHANGED input_str

(* term_keyevent, one action for each kind of key.                         *)
KeyChar(k) ==
    /\ looping
    /\ Len(input_str) < MaxInput
    /\ term' = [_render_glyph(term, k, term.input_render_x, term.input_render_y)
                   EXCEPT !.input_render_x = @ + 1]
    /\ input_str' = Append(input_str, k)
    /\ UNCHANGED <<looping, log>>

(* Mutant of KeyBackspace: the glyph stays on the screen. *)
BackspaceKeepsGlyph ==
    /\ looping
    /\ input_str # << >>
    /\ input_str' = Front(input_str)
    /\ term' = [term EXCEPT !.input_render_x = @ - 1]
    /\ UNCHANGED <<looping, log>>

KeyBackspace ==
    /\ looping
    /\ input_str # << >>
    /\ input_str' = Front(input_str)
    /\ LET x == term.input_render_x - 1
           y == term.input_render_y
       IN  term' = [term EXCEPT
                !.screen = [r \in Ys |-> IF y <= r /\ r < y + GlyphHeight
                                           THEN [@[r] EXCEPT ![x] = SPACE] ELSE @[r]],
                !.input_render_x = x]
    /\ UNCHANGED <<looping, log>>

KeyEnter(left) ==
    /\ looping
    /\ LET command == Drawn(input_str, left)
           echoed  == tprintf(tprintf(tprintf(term, Prompt), command), <<NL>>)
       IN  /\ term' = _handle_cmd(echoed, input_str)
           /\ log' = IF Chosen(input_str) = 2
                       THEN << >>
                       ELSE LogWith(Prompt \o command \o <<NL>> \o Output(input_str))
    /\ input_str' = << >>
    /\ UNCHANGED looping

Next ==
    \/ \E msg \in Messages, last \in BOOLEAN : kprintf(msg, last)
    \/ \E k \in Keys : KeyChar(k)
    \/ KeyBackspace
    \/ \E left \in Leftovers : KeyEnter(left)

Spec == Init /\ [][Next]_vars

-----------------------------------------------------------------------------
(* Properties.                                                             *)

RowOf(line) == [x \in Xs |-> IF x < Len(line) THEN line[x + 1] ELSE SPACE]
LineAt(y, line) == \A r \in y .. y + GlyphHeight - 2 : term.screen[r] = RowOf(line)

(* Once the user can type, the line at the input position shows the prompt *)
(* and input_str, nothing else, and the next key is drawn behind it; the   *)
(* command that Enter runs is the one on the screen.                       *)
InputLineShown ==
    looping =>
        /\ term.render_x = 0 /\ term.input_render_y = term.render_y
        /\ term.input_render_x = 2 + Len(input_str)
        /\ LineAt(term.input_render_y, Prompt \o input_str)

(* Above it, the screen shows the last lines that were printed or echoed,  *)
(* in order, through wraps, scrolls and cls; and the output position is    *)
(* always a whole line of the screen: nothing is drawn beyond its edges.   *)
OutputShown ==
    /\ term.render_x \in Xs
    /\ term.render_y \in 0 .. Height - GlyphHeight /\ term.render_y % GlyphHeight = 0
    /\ term.render_y = Len(log) * GlyphHeight
    /\ \A i \in 1 .. Len(log) : LineAt((i - 1) * GlyphHeight, log[i])

(* "Blank the last row": blanking touches the frame buffer only.           *)
BlankStaysOnScreen == ~term.overrun
=============================================================================
