----------------------------- MODULE MCTuiRunner -----------------------------
(***************************************************************************)
(* An instance of TuiRunner: scenarios that each keep one screen busy.     *)
(***************************************************************************)
EXTENDS TuiRunner

A == [source |-> "a", level |-> 1, text |-> 1]
B == [source |-> "b", level |-> 2, text |-> 0]

Nothing ==
    [keys |-> <<>>, lines |-> <<>>, changes |-> 0, starts |-> 0, work |-> 0, exits |-> 0,
     signals |-> 0, resizes |-> 0, rows |-> 15, gpu |-> FALSE,
     graph |-> [n \in Nodes |-> "absent"]]

MCScenarios == {
    \* the terminal: quitting and signals at any moment
    [Nothing EXCEPT !.signals = 2, !.keys = <<{"tab", "q", "G"}, {"q", "2", "backtab"}>>],
    \* the launch screen: moving about in profiles of different lengths
    [Nothing EXCEPT !.resizes = 1,
        !.keys = <<{"end", "down", "pagedown"}, {"p", "wheeldown", "e"}, {"up", "pageup", "home"},
                   {"p", "wheelup", "r"}, {"up", "end"}>>],
    \* processes start, work, end, and their pids are used again
    [Nothing EXCEPT !.starts = 2, !.work = 1, !.exits = 1],
    \* the GPU
    [Nothing EXCEPT !.starts = 1, !.exits = 1, !.gpu = TRUE],
    \* the log screen: a source is chosen while others come
    [Nothing EXCEPT !.lines = <<{B}, {A}>>, !.keys = <<{"G"}, {"f"}, {"down"}, {"return"}>>],
    \* other filters
    [Nothing EXCEPT !.lines = <<{A, B}>>, !.graph = [@ EXCEPT !["b"] = "plain"],
        !.keys = <<{"G"}, {"v", "n"}, {"down"}, {"return", "escape"}>>],
    \* searching
    [Nothing EXCEPT !.lines = <<{B}>>,
        !.keys = <<{"2"}, {"/", "space"}, {"x", "down"}, {"return", "backspace", "c"}>>],
    \* the node screen: nodes come and go while both threads refresh
    [Nothing EXCEPT !.changes = 1, !.graph = [@ EXCEPT !["b"] = "lifecycle"],
        !.keys = <<{"N"}, {"r"}, {"down"}>>]}

MCProfiles == <<<<"a", "b", "c", "d", "e">>, <<"a">>>>
MCNameOrder == <<"a", "b">>
MCLevels == <<"INFO", "WARN">>
MCCharacters == {"x", "f", "v", "n", "c", "q", "/"}
=============================================================================
