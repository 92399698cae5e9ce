------------------------------- MODULE Widgets -------------------------------
(***************************************************************************)
(* The widgets the screens are built from (app/screens/components): a list *)
(* that scrolls or follows a selection, a dropdown that picks a filter, a  *)
(* search bar.  None has a lock or a thread of its own: each is a record,  *)
(* and each of its methods an operator from the record before to the one   *)
(* after.  Drawing is left out.                                            *)
(***************************************************************************)
EXTENDS Integers, Sequences, FiniteSetsExt

CONSTANTS
    Characters,  \* the keys that are characters
    NameOrder,   \* the names that are listed, in alphabetical order
    All          \* what selectedValue returns for "All": the empty string

Sorted(names) == SelectSeq(NameOrder, LAMBDA name : name \in names)

-----------------------------------------------------------------------------
(* ScrollableList.  Lists without a selection follow their end at first. *)

NewList(selecting) ==
    [selecting |-> selecting, selected |-> 0, offset |-> 0, count |-> 0,
     height |-> 20, auto |-> ~selecting]

Shape(list, height, count) ==
    [list EXCEPT !.height = Max({1, height}), !.count = count]

MaxOffset(list) == Max({0, list.count - list.height})

\* The rows on the screen: from start up to, but not including, end.
VisibleRange(list) ==
    LET start == IF ~list.selecting /\ list.auto
                 THEN MaxOffset(list)
                 ELSE Min({list.offset, MaxOffset(list)})
    IN  [start |-> start, end |-> Min({start + list.height, list.count})]

InSight(list) ==
    list.selected \in VisibleRange(list).start .. VisibleRange(list).end - 1

EnsureSelectedVisible(list) ==
    [list EXCEPT !.offset = Min({Max({@, list.selected - list.height + 1}), list.selected})]

\* Mistake: the rows do not follow the selection up.
SelectUpOnly(list, lines) == [list EXCEPT !.selected = Max({0, @ - lines})]

SelectUp(list, lines) ==
    LET selected == Max({0, list.selected - lines})
    IN  [list EXCEPT !.selected = selected, !.offset = Min({@, selected})]

SelectDown(list, lines) ==
    EnsureSelectedVisible(
        [list EXCEPT !.selected = Min({@ + lines, Max({0, list.count - 1})})])

ScrollUp(list, lines) ==
    [list EXCEPT !.auto = FALSE, !.offset = Max({0, @ - lines})]

ScrollDown(list, lines) ==
    [list EXCEPT !.auto = FALSE, !.offset = Min({@ + lines, MaxOffset(list)})]

Up(list, lines) == IF list.selecting THEN SelectUp(list, lines) ELSE ScrollUp(list, lines)

Down(list, lines) == IF list.selecting THEN SelectDown(list, lines) ELSE ScrollDown(list, lines)

Home(list) ==
    [list EXCEPT !.offset = 0,
                 !.selected = IF list.selecting THEN 0 ELSE @,
                 !.auto = FALSE]

End(list) ==
    IF list.selecting
    THEN EnsureSelectedVisible([list EXCEPT !.selected = Max({0, list.count - 1})])
    ELSE [list EXCEPT !.auto = TRUE, !.offset = MaxOffset(list)]

\* The keys a list takes, and what they do to it (k and j are up and down).
ListKeys == {"up", "down", "pageup", "pagedown", "home", "end", "wheelup", "wheeldown"}

PressList(list, key) ==
    CASE key = "up"        -> Up(list, 1)
      [] key = "down"      -> Down(list, 1)
      [] key = "pageup"    -> Up(list, list.height)
      [] key = "pagedown"  -> Down(list, list.height)
      [] key = "home"      -> Home(list)
      [] key = "end"       -> End(list)
      [] key = "wheelup"   -> Up(list, 3)
      [] key = "wheeldown" -> Down(list, 3)

-----------------------------------------------------------------------------
(* FilterDropdown.  Entry 0 is "All", entry i is options[i]. *)

NewDropdown == [options |-> <<>>, selected |-> 0, cursor |-> 0, open |-> FALSE]

\* The selection is an index: other options under it are another choice.
SetOptions(dropdown, options) ==
    [dropdown EXCEPT !.options = options,
                     !.selected = IF @ > Len(options) THEN 0 ELSE @]

DropdownTakes(dropdown, trigger, key) == dropdown.open \/ key = trigger

PressDropdown(dropdown, key) ==
    CASE ~dropdown.open   -> [dropdown EXCEPT !.open = TRUE, !.cursor = dropdown.selected]
      [] dropdown.open /\ key = "escape" ->
            [dropdown EXCEPT !.open = FALSE, !.cursor = dropdown.selected]
      [] dropdown.open /\ key = "return" ->
            [dropdown EXCEPT !.open = FALSE, !.selected = dropdown.cursor]
      [] dropdown.open /\ key = "up" ->
            [dropdown EXCEPT !.cursor = Max({0, @ - 1})]
      [] dropdown.open /\ key = "down" ->
            [dropdown EXCEPT !.cursor = IF @ < Len(dropdown.options) THEN @ + 1 ELSE @]
      [] OTHER -> dropdown

SelectedValue(dropdown) ==
    IF dropdown.selected \in DOMAIN dropdown.options
    THEN dropdown.options[dropdown.selected]
    ELSE All

-----------------------------------------------------------------------------
(* SearchBar.  All searches are for beginnings of one word, so that the text
   is the number of its characters typed. *)

NewSearch == [active |-> FALSE, text |-> 0]

SearchTakes(search, key) ==
    IF search.active
    THEN key \in {"escape", "return", "backspace"} \union Characters
    ELSE key = "/"

PressSearch(search, key) ==
    CASE ~search.active -> [active |-> TRUE, text |-> 0]
      [] search.active /\ key \in {"escape", "return"} -> [search EXCEPT !.active = FALSE]
      [] search.active /\ key = "backspace" -> [search EXCEPT !.text = Max({0, @ - 1})]
      [] search.active /\ key \in Characters -> [search EXCEPT !.text = @ + 1]
=============================================================================
