------------------------------ MODULE Widgets ------------------------------
(***************************************************************************)
(* Where the widgets of src/crates/thistle-tk are and what they paint:     *)
(* the flexbox of layout.rs, scrolling, the controls and the text field of *)
(* input.rs, and the extents of what render.rs draws, as apps set them by  *)
(* src/components/kernel_rs/src/tk_wm.rs.  One container stands for the    *)
(* tree (Toolkit has the tree itself); colours and glyphs are left out,    *)
(* and so is text, but for the words of a label and the cursor of a field. *)
(*                                                                         *)
(* There are six parts that do not affect each other: the layout of a      *)
(* container, its scrolling, a control by itself, a text field, a label,   *)
(* and the strip of apps on a tiny screen.                                 *)
(***************************************************************************)
EXTENDS Integers, Sequences, FiniteSets, SequencesExt, FiniteSetsExt

CONSTANTS
    Width, Height, \* of the container
    Sizes,         \* what tk_wm_widget_set_size is given
    Weights,       \* what tk_wm_widget_set_flex_grow is given
    Spans,         \* widths and heights a control is given
    Values,        \* what tk_wm_widget_set_progress is given
    Room,          \* the bytes a text field holds
    Texts,         \* texts, as the sequences of the bytes their characters take
    Phrases,       \* labels, as the sequences of the widths of their words
    Displays       \* the sizes of displays

VARIABLES
    box,     \* the container: row, gap, align, cross
    kids,    \* its children: wide, high, at, shown
    placed,  \* where the last layout put them
    offset,  \* scroll_offset of the container
    shrunk,  \* history: the content got smaller than it was scrolled
    control, \* a widget by itself
    finger,  \* history: where the finger last moved the slider as it is, -1 for nowhere
    text,    \* the bytes of each character of a text field
    cursor,  \* cursor_pos
    strayed, \* history: what took the cursor out of the text, "no" for nothing
    words,   \* the widths of the words of a label
    oneLine, \* max_lines is 1
    strip    \* tk_wm's LayoutMode, the apps of a tiny screen and the one on it

layoutVars == <<box, kids, placed>>
scrollVars == <<offset, shrunk>>
controlVars == <<control, finger>>
fieldVars == <<text, cursor, strayed>>
labelVars == <<words, oneLine>>
stripVars == <<strip>>

Max0(n) == IF n < 0 THEN 0 ELSE n
Least(a, b) == IF a < b THEN a ELSE b
Clamped(n, low, high) == IF n < low THEN low ELSE IF n > high THEN high ELSE n
Total(s) == FoldLeft(LAMBDA a, b : a + b, 0, s)
Rect(x, y, w, h) == [x |-> x, y |-> y, w |-> w, h |-> h]

Auto == [is |-> "auto", n |-> 0]
Fixed(n) == [is |-> "fixed", n |-> n]
Full == [is |-> "percent", n |-> 100]
Flex(n) == [is |-> "flex", n |-> n]
Nowhere == [x |-> -1, y |-> -1]

\* The widgets, with the sizes they ask for by themselves.
Asks ==
    [container |-> <<Auto, Auto>>, label |-> <<Auto, Auto>>, button |-> <<Auto, Auto>>,
     input |-> <<Auto, Auto>>, image |-> <<Auto, Auto>>, item |-> <<Auto, Fixed(40)>>,
     progress |-> <<Auto, Fixed(8)>>, divider |-> <<Auto, Fixed(1)>>,
     spacer |-> <<Auto, Flex(1)>>, status |-> <<Auto, Fixed(16)>>,
     switch |-> <<Fixed(44), Fixed(24)>>, checkbox |-> <<Auto, Fixed(20)>>,
     slider |-> <<Fixed(120), Fixed(24)>>, dropdown |-> <<Auto, Fixed(28)>>]
Kinds == DOMAIN Asks

Kid(kind) == [wide |-> Asks[kind][1], high |-> Asks[kind][2], at |-> Nowhere, shown |-> TRUE]

-----------------------------------------------------------------------------
(* The layout: layout.rs                                                   *)

\* resolve_hint
Resolved(hint, parent) ==
    CASE hint.is = "fixed" -> hint.n
      [] hint.is = "percent" -> (parent * hint.n) \div 100
      [] OTHER -> parent

Main(b, wh) == IF b.row THEN wh[1] ELSE wh[2]
Across(b, wh) == IF b.row THEN wh[2] ELSE wh[1]
HintsOf(kid) == <<kid.wide, kid.high>>
MainTotal(b) == Main(b, <<Width, Height>>)

\* The children in the flow, and those with a position of their own.
Flow(ks) == SelectSeq([i \in DOMAIN ks |-> i], LAMBDA i : ks[i].shown /\ ks[i].at = Nowhere)

Gaps(b, flow) == b.gap * Max0(Len(flow) - 1)

\* layout_children, what each child gets along the container: what is fixed first, then the
\* rest by weight.  A child that asks for its own size gets nothing.
Shares(b, ks, flow) ==
    LET hint(i) == Main(b, HintsOf(ks[i]))
        fixed == [j \in DOMAIN flow |->
                     IF hint(flow[j]).is \in {"fixed", "percent"}
                     THEN Resolved(hint(flow[j]), MainTotal(b)) ELSE 0]
        weight == [j \in DOMAIN flow |-> IF hint(flow[j]).is = "flex" THEN hint(flow[j]).n ELSE 0]
        rest == Max0(MainTotal(b) - (Total(fixed) + Gaps(b, flow)))
    IN  [j \in DOMAIN flow |->
            IF weight[j] > 0 THEN (rest * weight[j]) \div Total(weight) ELSE fixed[j]]

\* layout_children, where each child is
Slots(b, ks) ==
    LET flow == Flow(ks)
        share == Shares(b, ks, flow)
        extra == Max0(MainTotal(b) - (Total(share) + Gaps(b, flow)))
        first == CASE b.align = "center" -> extra \div 2
                   [] b.align = "end" -> extra
                   [] OTHER -> 0
        between == IF b.align = "between" /\ Len(flow) > 1 THEN extra \div (Len(flow) - 1) ELSE 0
        along(j) == first + Total(SubSeq(share, 1, j - 1)) + (j - 1) * (b.gap + between)
        crossTotal == Across(b, <<Width, Height>>)
        size(j) == Resolved(Across(b, HintsOf(ks[flow[j]])), crossTotal)
        aside(j) == CASE b.cross = "center" -> Max0(crossTotal - size(j)) \div 2
                      [] b.cross = "end" -> Max0(crossTotal - size(j))
                      [] OTHER -> 0
    IN  [j \in DOMAIN flow |->
            IF b.row THEN Rect(along(j), aside(j), share[j], size(j))
            ELSE Rect(aside(j), along(j), size(j), share[j])]

\* layout_node: a child takes its size from its place once more, and what is not shown stays
\* where it was.
Layout(b, ks, old) ==
    LET flow == Flow(ks)
        slots == Slots(b, ks)
        own(kid, r) == Rect(r.x, r.y, Resolved(kid.wide, r.w), Resolved(kid.high, r.h))
    IN  [i \in DOMAIN ks |->
            IF ~ks[i].shown THEN old[i]
            ELSE IF ks[i].at # Nowhere
            THEN own(ks[i], Rect(ks[i].at.x, ks[i].at.y, Resolved(ks[i].wide, Width), Resolved(ks[i].high, Height)))
            ELSE own(ks[i], slots[SelectInSeq(flow, LAMBDA k : k = i)])]

Unplaced(ks) == [i \in DOMAIN ks |-> Rect(0, 0, 0, 0)]

\* What apps set, one call at a time (tk_wm_widget_set_*).
SetLayout(row) == box' = [box EXCEPT !.row = row] /\ UNCHANGED kids
SetAlign(align, cross) == box' = [box EXCEPT !.align = align, !.cross = cross] /\ UNCHANGED kids
SetGap(gap) == box' = [box EXCEPT !.gap = Max0(gap)] /\ UNCHANGED kids

Asked(n, hint) ==
    CASE n = -1 -> Full [] n = -2 -> Auto [] n > 0 -> Fixed(n) [] OTHER -> hint
SetSize(i, w, h) ==
    /\ i \in DOMAIN kids
    /\ kids' = [kids EXCEPT ![i].wide = Asked(w, @), ![i].high = Asked(h, @)] /\ UNCHANGED box

\* In the direction the container has now.
SetFlexGrow(i, weight) ==
    /\ i \in DOMAIN kids
    /\ kids' = IF box.row THEN [kids EXCEPT ![i].wide = Flex(Max0(weight))]
               ELSE [kids EXCEPT ![i].high = Flex(Max0(weight))]
    /\ UNCHANGED box
SetPos(i, at) == i \in DOMAIN kids /\ kids' = [kids EXCEPT ![i].at = at] /\ UNCHANGED box
SetVisible(i, shown) == i \in DOMAIN kids /\ kids' = [kids EXCEPT ![i].shown = shown] /\ UNCHANGED box

\* A call and the rendering after it.
LayoutNext ==
    /\ \/ \E row \in BOOLEAN : SetLayout(row)
       \/ \E align \in {"start", "center", "end", "between"}, cross \in {"start", "center", "end"} :
              SetAlign(align, cross)
       \/ \E i \in 1 .. 2, w, h \in Sizes : SetSize(i, w, h)
       \/ \E i \in 1 .. 2, weight \in Weights : SetFlexGrow(i, weight)
       \/ SetPos(2, [x |-> 5, y |-> 7])
    /\ placed' = Layout(box', kids', placed)
    /\ UNCHANGED <<scrollVars, controlVars, fieldVars, labelVars, stripVars>>

-----------------------------------------------------------------------------
(* Scrolling: apply_scroll and draw_scrollbar                              *)

ContentHeight(ps) == Max({0} \cup {ps[i].y + ps[i].h : i \in DOMAIN ps})
Reach(ps) == Max0(ContentHeight(ps) - Height)

\* dispatch_touch_move on the container or one of its children
Drag(delta) ==
    /\ delta # 0 /\ ContentHeight(placed) > Height
    /\ offset' = Clamped(offset + delta, 0, Reach(placed))
    /\ UNCHANGED <<layoutVars, shrunk>>

\* The next frame.  Nothing brings the offset back into what is left.
Render ==
    /\ placed' = Layout(box, kids, placed)
    /\ shrunk' = (shrunk \/ Reach(placed') < Reach(placed))
    /\ UNCHANGED <<box, kids, offset>>

\* tk_wm_widget_destroy: the last child takes the place.
DestroyKid(i) ==
    LET kept(s) == [j \in 1 .. Len(s) - 1 |-> IF j = i THEN Last(s) ELSE s[j]]
    IN  /\ i \in DOMAIN kids
        /\ kids' = kept(kids) /\ placed' = kept(placed)
        /\ shrunk' = (shrunk \/ Reach(placed') < Reach(placed))
        /\ UNCHANGED <<box, offset>>

\* draw_scrollbar: top and height of its thumb, nothing when all is seen
Thumb ==
    LET content == ContentHeight(placed)
        h == Max({10, (Height * Height) \div content})
    IN  [y |-> (offset * (Height - h)) \div (content - Height), h |-> h]

ScrollNext ==
    /\ \/ \E delta \in {-30, 30} : Drag(delta)
       \/ Render
       \/ \E i \in 1 .. 4 : DestroyKid(i)
       \/ \E i \in 1 .. 4, shown \in BOOLEAN : SetVisible(i, shown) /\ UNCHANGED <<placed, scrollVars>>
    /\ UNCHANGED <<controlVars, fieldVars, labelVars, stripVars>>

-----------------------------------------------------------------------------
(* A control: input.rs and the drawing functions of render.rs              *)

Left == 20
Top == 20
Focusable == {"button", "input", "switch", "checkbox", "slider", "dropdown"}
Options == 2

\* A widget as it is created, in a place of a screen.
NewControl(kind) ==
    [kind |-> kind, w |-> Resolved(Asks[kind][1], Width), h |-> Resolved(Asks[kind][2], Height),
     value |-> IF kind = "slider" THEN 50 ELSE 0, on |-> FALSE, open |-> FALSE, selected |-> 0,
     pressed |-> FALSE, focused |-> FALSE, border |-> 0, ground |-> FALSE, icon |-> FALSE]

Inside(x, y) ==
    x \in Left .. Left + control.w - 1 /\ y \in Top .. Top + control.h - 1

Become(c) == control' = c /\ UNCHANGED finger

\* tk_wm_widget_set_size, set_border_width, set_bg_color and set_button_icon
Resize(w, h) == control' = [control EXCEPT !.w = w, !.h = h] /\ finger' = -1
SetBorderWidth(n) == Become([control EXCEPT !.border = Max0(n)])
SetBgColor == Become([control EXCEPT !.ground = TRUE])
SetIcon == control.kind = "button" /\ Become([control EXCEPT !.icon = TRUE])

\* tk_wm_widget_set_progress: as u8 and at most 100, so that -1 is the whole bar
SetProgress(n) == control.kind = "progress" /\ Become([control EXCEPT !.value = Least(n % 256, 100)])

SetSelected(on) == control.kind = "item" /\ Become([control EXCEPT !.on = on])

\* update_slider_value, from 0 to 100
Slide(c, x) ==
    IF c.w = 0 THEN c ELSE [c EXCEPT !.value = (Clamped(x - Left, 0, c.w) * 100) \div c.w]

\* close_open_dropdowns_if_outside
Close(c, x, y) ==
    LET within == x \in Left .. Left + c.w - 1 /\ y \in Top .. Top + c.h + c.h * Options - 1
    IN  [c EXCEPT !.open = @ /\ within]

\* dispatch_touch_down
Down(x, y) ==
    LET closed == Close(control, x, y)
        focused == [closed EXCEPT !.focused = @ \/ control.kind \in Focusable]
    IN  IF ~Inside(x, y) THEN Become(closed)
        ELSE IF control.kind = "slider"
        THEN control' = Slide(focused, x) /\ finger' = x
        ELSE Become([focused EXCEPT !.pressed = TRUE])

\* dispatch_touch_move on a slider
Move(x, y) ==
    /\ control.kind = "slider" /\ Inside(x, y)
    /\ control' = Slide(control, x) /\ finger' = x

\* handle_dropdown_tap.  The list hangs below the widget, where no finger hits it.
Tapped(c, y) ==
    LET option == (y - (Top + c.h)) \div c.h
    IN  IF ~c.open THEN [c EXCEPT !.open = TRUE]
        ELSE IF y >= Top + c.h /\ option < Options
        THEN [c EXCEPT !.selected = option, !.open = FALSE]
        ELSE [c EXCEPT !.open = FALSE]

\* dispatch_touch_up
Up(x, y) ==
    LET lifted == [control EXCEPT !.pressed = FALSE]
    IN  Become(IF ~Inside(x, y) THEN lifted
               ELSE IF control.kind \in {"switch", "checkbox"} THEN [lifted EXCEPT !.on = ~@]
               ELSE IF control.kind = "dropdown" THEN Tapped(lifted, y)
               ELSE lifted)

\* handle_enter
Enter ==
    /\ control.focused
    /\ \/ control.kind \in {"switch", "checkbox"} /\ Become([control EXCEPT !.on = ~@])
       \/ control.kind = "dropdown" /\ Become([control EXCEPT !.open = ~@])

ControlNext ==
    /\ \/ \E w, h \in Spans : Resize(w, h)
       \/ SetBorderWidth(3) \/ SetBgColor \/ SetIcon \/ Enter
       \/ \E n \in Values : SetProgress(n)
       \/ \E on \in BOOLEAN : SetSelected(on)
       \/ \E x \in {19, 20, 27, 63, 139}, y \in {20, 31, 50} : Down(x, y) \/ Move(x, y) \/ Up(x, y)
    /\ UNCHANGED <<layoutVars, scrollVars, fieldVars, labelVars, stripVars>>

Whole(c) == Rect(Left, Top, c.w, c.h)
Grown(r, n) == Rect(r.x - n, r.y - n, r.w + 2 * n, r.h + 2 * n)
Middle(outer, inner) == IF outer < inner THEN -((inner - outer) \div 2) ELSE (outer - inner) \div 2

\* Half of a line around a rectangle is outside of it.
Outline(c, width) == Grown(Whole(c), width \div 2)

\* draw_widget_bg_and_border
Frame(c) ==
    (IF c.ground \/ c.pressed THEN {Whole(c)} ELSE {})
    \cup (IF c.border > 0 THEN {Outline(c, c.border)} ELSE {})
    \cup (IF c.focused THEN {Outline(c, 2)} ELSE {})

\* draw_button, with the square of draw_icon above the text
ButtonInk(c) ==
    LET side == Least(Least(c.w, Max0(c.h - 16)), 28)
    IN  {Whole(c)} \cup (IF c.border > 0 THEN {Outline(c, c.border)} ELSE {})
        \cup (IF c.icon /\ side >= 8
              THEN {Rect(Left + Middle(c.w, side), Top + 4, side, side)} ELSE {})

InputInk(c) == {Outline(c, IF c.focused THEN 2 ELSE 1)}
ItemInk(c) == IF c.on THEN {Whole(c)} ELSE {}

\* draw_progress_bar
ProgressInk(c) == {Whole(c), Rect(Left, Top, (c.w * Least(c.value, 100)) \div 100, c.h)}

\* draw_divider: a line with both its ends
DividerInk(c) == {Rect(Left, Top, c.w + 1, 1)}

\* draw_switch
SwitchInk(c) ==
    LET thumb == Max0(c.h - 4)
    IN  {Whole(c), Rect(IF c.on THEN Left + c.w - thumb - 2 ELSE Left + 2, Top + 2, thumb, thumb)}

CheckboxInk(c) == {Rect(Left, Top + Max0(Middle(c.h, 16)), 16, 16)}

\* draw_slider: where its thumb is, and all of it
Filled(c) == (c.w * c.value) \div 100
SliderInk(c) ==
    LET thumb == Least(c.h, 16)
        track == Top + Middle(c.h, 4)
    IN  {Rect(Left, track, c.w, 4), Rect(Left, track, Filled(c), 4),
         Rect(Left + Filled(c) - (thumb \div 2), Top + Middle(c.h, thumb), thumb, thumb)}

\* draw_dropdown
DropdownInk(c) ==
    LET list == Rect(Left, Top + c.h, c.w, c.h * Options)
    IN  {Whole(c), Outline(c, 1)}
        \cup (IF c.open THEN {list, Grown(list, 1 \div 2), Rect(Left, Top + c.h + c.selected * c.h, c.w, c.h)} ELSE {})

\* render_node: what is painted, in rectangles
Ink(c) ==
    Frame(c) \cup
    CASE c.kind = "button" -> ButtonInk(c)
      [] c.kind = "input" -> InputInk(c)
      [] c.kind = "item" -> ItemInk(c)
      [] c.kind = "progress" -> ProgressInk(c)
      [] c.kind = "divider" -> DividerInk(c)
      [] c.kind = "status" -> {Whole(c)}
      [] c.kind = "switch" -> SwitchInk(c)
      [] c.kind = "checkbox" -> CheckboxInk(c)
      [] c.kind = "slider" -> SliderInk(c)
      [] c.kind = "dropdown" -> DropdownInk(c)
      [] OTHER -> {}

-----------------------------------------------------------------------------
(* A text field and a label                                                *)

Bytes(t) == Total(t)
Fits(t) == Bytes(t) <= Room

\* push, as often as there is room
Pushed(t, c) == IF Fits(Append(t, c)) THEN Append(t, c) ELSE t

\* dispatch_char: the cursor counts characters here and bytes there.
Char(c) ==
    LET at == cursor + 1
        split == FoldLeft(LAMBDA t, i : Pushed(IF i = at THEN Pushed(t, c) ELSE t, text[i]), <<>>,
                          [i \in DOMAIN text |-> i])
        added == IF cursor >= Bytes(text) THEN Pushed(split, c) ELSE split
    IN  /\ IF cursor <= Bytes(text) THEN text' = added /\ cursor' = cursor + 1
           ELSE UNCHANGED <<text, cursor>>
        /\ strayed' = IF cursor > Bytes(text) THEN strayed
                      ELSE IF c > 1 THEN "wide"
                      ELSE IF ~Fits(Append(text, c)) /\ strayed = "no" THEN "full" ELSE strayed
    
\* handle_backspace
Backspace ==
    /\ cursor > 0
    /\ text' = IF cursor \in DOMAIN text THEN RemoveAt(text, cursor) ELSE text
    /\ cursor' = cursor - 1
    /\ UNCHANGED strayed

\* handle_cursor_move
CursorMove(by) ==
    /\ cursor + by \in 0 .. Bytes(text) /\ cursor' = cursor + by
    /\ UNCHANGED <<text, strayed>>

\* tk_wm_widget_set_text: the cursor stays where it was.
SetText(t) ==
    /\ text' = IF Fits(t) THEN t ELSE <<>>
    /\ strayed' = IF cursor > 0 THEN "replaced" ELSE IF \E c \in ToSet(t) : c > 1 THEN "wide" ELSE strayed
    /\ UNCHANGED cursor

FieldNext ==
    /\ \/ \E c \in {1, 2} : Char(c)
       \/ \E by \in {-1, 1} : CursorMove(by)
       \/ Backspace
       \/ \E t \in Texts : SetText(t)
    /\ UNCHANGED <<layoutVars, scrollVars, controlVars, labelVars, stripVars>>

\* draw_text_input takes the text before the cursor, which panics unless a character begins
\* there.
CanBeDrawn ==
    text = <<>> \/ \E n \in 0 .. Len(text) : cursor = Bytes(SubSeq(text, 1, n))

\* draw_label, word by word: a word that is too long for its line begins the next one,
\* unless it is "first_word_on_line", which the second word of a later line is too.
LineWidth(line) == Total(line) + Max0(Len(line) - 1)
Lines ==
    LET add(acc, w) ==
            LET longer == Append(acc.line, w)
            IN  IF LineWidth(longer) > Width /\ ~acc.first
                THEN [lines |-> Append(acc.lines, acc.line), line |-> <<w>>, first |-> TRUE]
                ELSE [acc EXCEPT !.line = longer, !.first = FALSE]
        all == FoldLeft(add, [lines |-> <<>>, line |-> <<>>, first |-> TRUE], words)
        lines == IF all.line = <<>> THEN all.lines ELSE Append(all.lines, all.line)
    IN  IF oneLine /\ lines # <<>> THEN <<Head(lines)>> ELSE lines

\* tk_wm_widget_set_text and tk_wm_widget_set_one_line
SetLabel(ws, one) == words' = ws /\ oneLine' = one

LabelNext ==
    /\ \E ws \in Phrases, one \in BOOLEAN : SetLabel(ws, one)
    /\ UNCHANGED <<layoutVars, scrollVars, controlVars, fieldVars, stripVars>>

-----------------------------------------------------------------------------
(* The strip of apps of a tiny screen: tk_wm.rs                            *)

\* LayoutMode::from_dimensions
Mode(w, h) ==
    IF w <= 160 \/ h <= 80 THEN "micro" ELSE IF w <= 260 \/ h <= 160 THEN "compact" ELSE "full"

\* tk_wm_micro_set_app_count
SetAppCount(n) ==
    strip' = [strip EXCEPT !.apps = n, !.at = IF @ >= n THEN 0 ELSE @]

\* tk_wm_micro_next and tk_wm_micro_prev
Step(by) ==
    /\ strip.mode = "micro" /\ strip.apps > 0
    /\ strip' = [strip EXCEPT !.at = (@ + by + strip.apps) % strip.apps]

StripNext ==
    /\ \/ \E n \in -1 .. 3 : SetAppCount(n)
       \/ \E by \in {-1, 1} : Step(by)
    /\ UNCHANGED <<layoutVars, scrollVars, controlVars, fieldVars, labelVars>>

-----------------------------------------------------------------------------
\* A container with two widgets and a spacer, or with a list of items.
Init ==
    /\ box = [row |-> FALSE, gap |-> 3, align |-> "start", cross |-> "start"]
    /\ kids \in {<<Kid("label"), Kid("button"), Kid("spacer")>>, [i \in 1 .. 4 |-> Kid("item")]}
    /\ placed = Layout(box, kids, Unplaced(kids))
    /\ offset = 0 /\ shrunk = FALSE
    /\ \E kind \in Kinds : control = NewControl(kind)
    /\ finger = -1
    /\ text = <<>> /\ cursor = 0 /\ strayed = "no" /\ words = <<>> /\ oneLine = FALSE
    /\ strip \in {[mode |-> Mode(d[1], d[2]), apps |-> 0, at |-> 0] : d \in Displays}

TypeOK ==
    /\ box.row \in BOOLEAN /\ box.gap \in Nat
    /\ Len(placed) = Len(kids)
    /\ \A i \in DOMAIN placed : placed[i] \in [x : Int, y : Int, w : Nat, h : Nat]
    /\ offset \in Nat /\ shrunk \in BOOLEAN
    /\ control.kind \in Kinds /\ control.value \in 0 .. 100 /\ control.selected \in 0 .. Options - 1
    /\ finger \in Int /\ cursor \in Nat /\ Fits(text)
    /\ strayed \in {"no", "full", "wide", "replaced"}

\* Once laid out, the widgets of a container are one after the other with the gap between them,
\* and if what is fixed fits they are all inside it; the flexible ones leave less than a pixel
\* each (layout_children).
LayoutIsSound ==
    LET flow == Flow(kids)
        share == Shares(box, kids, flow)
        at(j) == LET r == placed[flow[j]] IN Main(box, <<r.x, r.y>>)
        size(j) == share[j]
        hint(j) == Main(box, HintsOf(kids[flow[j]]))
        fixed == [j \in DOMAIN flow |->
                     IF hint(j).is \in {"fixed", "percent"} THEN Resolved(hint(j), MainTotal(box)) ELSE 0]
        last == Len(flow)
        fresh == placed = Layout(box, kids, placed)
    IN  /\ fresh => \A j \in 1 .. last - 1 : at(j) + size(j) + box.gap <= at(j + 1)
        /\ fresh /\ last > 0 /\ Total(fixed) + Gaps(box, flow) <= MainTotal(box) =>
               /\ at(1) >= 0 /\ at(last) + size(last) <= MainTotal(box)
               /\ (\E j \in 1 .. last : hint(j).is = "flex" /\ hint(j).n > 0) =>
                      at(last) + size(last) > MainTotal(box) - last

\* What is scrolled can be scrolled to, and the thumb is on its track, unless the content got
\* smaller since (apply_scroll, draw_scrollbar, tk_wm_widget_destroy, tk_wm_widget_set_visible).
ScrollStaysInContent ==
    ~shrunk =>
        /\ offset <= Reach(placed)
        /\ ContentHeight(placed) > Height => Thumb.y >= 0 /\ Thumb.y + Thumb.h <= Height

\* A widget is painted where it is hit: in its rectangle, but for half of the lines around it,
\* an open list, the thumb of a slider and what is larger than a widget made too small for it
\* (render.rs).
PaintStaysAtHome ==
    LET c == control
        slack == CASE c.kind = "slider" -> 8
                   [] c.kind = "divider" -> 1
                   [] c.kind = "checkbox" /\ (c.w < 16 \/ c.h < 16) -> 16
                   [] c.kind = "switch" /\ c.w < c.h -> c.h
                   [] c.kind = "dropdown" /\ c.open -> c.h * Options
                   [] OTHER -> 0
        home == Grown(Whole(c), Max({slack, c.border \div 2, IF c.focused THEN 1 ELSE 0}))
    IN  \A r \in Ink(c) :
            r.w > 0 /\ r.h > 0 =>
                /\ r.x >= home.x /\ r.x + r.w <= home.x + home.w
                /\ r.y >= home.y /\ r.y + r.h <= home.y + home.h

\* The thumb of a slider is under the finger that moved it, but for the rounding
\* (update_slider_value, draw_slider).
SliderFollowsFinger ==
    control.kind = "slider" /\ finger >= 0 =>
        Clamped(finger - Left, 0, control.w) - Filled(control) \in 0 .. (control.w \div 100) + 1

\* A field can be drawn, unless its text was replaced behind the cursor, is full, or has
\* characters of more than a byte (dispatch_char, draw_text_input, tk_wm_widget_set_text).
FieldCanBeDrawn == strayed = "no" => CanBeDrawn

\* All words of a label are drawn, once and in order, the first line of them no longer than the
\* label unless it is one word, the others unless they are two (draw_label).
WordsAreKept ==
    /\ FlattenSeq(Lines) = (IF oneLine /\ Lines # <<>> THEN SubSeq(words, 1, Len(Lines[1])) ELSE words)
    /\ \A n \in DOMAIN Lines :
           LineWidth(Lines[n]) <= Width \/ Len(Lines[n]) <= (IF n = 1 THEN 1 ELSE 2)

\* The app on a tiny screen is one of them (tk_wm_micro_next, _prev, _set_app_count).
StripIsOnAnApp == strip.apps > 0 => strip.at \in 0 .. strip.apps - 1
=============================================================================
