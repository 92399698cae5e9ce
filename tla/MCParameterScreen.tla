------------------------- MODULE MCParameterScreen --------------------------
(* Instances of ParameterScreen for TLC. *)
EXTENDS ParameterScreen, TLC

CONSTANTS n1, n2, low, high

\* A node with a boolean and one without parameters.
ToggleKind == n1 :> "bool" @@ n2 :> "none"
ToggleRange == n1 :> {low, high} @@ n2 :> {}

\* A node with a number.
SingleKind == n1 :> "number"
SingleRange == n1 :> {low}

\* Two nodes with a number each, of different ranges.
NumberKind == n1 :> "number" @@ n2 :> "number"
NumberRange == n1 :> {low, high} @@ n2 :> {low}

OneNode == <<n1>>
TwoNodes == <<n1, n2>>
=============================================================================
