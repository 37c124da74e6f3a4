------------------------------ MODULE MCDeckInput ------------------------------
\* A profile for checking DeckInput: X, a paddle, L1, L3, A and the menu button.
EXTENDS DeckInput, TLC

CONSTANTS xButton, paddle, l1, l3, aButton, menu

MCButtonDoes ==
  xButton :> "close" @@ paddle :> "repeat" @@ l1 :> "startup" @@ l3 :> "focus"
    @@ aButton :> "sequence" @@ menu :> "catalog"
MCDeckChords ==
  {[buttons |-> {l1, xButton}, does |-> "admin"], [buttons |-> {l1, l3}, does |-> "halt"],
   [buttons |-> {l3, paddle}, does |-> "controls"]}
=============================================================================
