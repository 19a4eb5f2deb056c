--------------------------- MODULE ClassificationMC ---------------------------
(* An instance of Classification for TLC.                                  *)
EXTENDS Classification

\* What the user types: the label of a default, again, in other case or with a blank, and one
\* of his own.
TypedLabels == {<<1, "recased">>, <<1, "padded">>, <<3, "plain">>}
=============================================================================
