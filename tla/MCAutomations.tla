---------------------------- MODULE MCAutomations ----------------------------
(* Two workspaces, and a document that changes what it reacts to. *)
EXTENDS Automations

CONSTANTS a1, a2, x, y, t1, t2

TwoRows == {a1, a2}
MCWorkspaces == {x, y}
TwoTickers == {t1, t2}

(* On x run y, and the same name edited to call a webhook on y; and on        *)
(* anything run y, which parse refuses.                                       *)
Forth == [name |-> "forth", on |-> {x}, when |-> Terminal, acts |-> <<y>>]
Turned == [name |-> "forth", on |-> {y}, when |-> Terminal, acts |-> <<Http>>]
Selfish == [name |-> "selfish", on |-> {x, y}, when |-> Terminal, acts |-> <<y>>]
TurningDocuments == {Forth, Turned, Selfish}
OneOutcome == {"complete"}
=============================================================================
