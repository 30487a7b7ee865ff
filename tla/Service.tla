------------------------------- MODULE Service -------------------------------
(***************************************************************************)
(* What the daemon promises to its clients: each has the module for itself *)
(* from its first command to its answer, in the order they came, and never *)
(* while the module's contexts are being restored.                         *)
(***************************************************************************)
CONSTANT Clients

VARIABLES
    here,      \* clients that came and are neither answered nor gone
    ahead,     \* pairs of them: the first came before the second
    hungUp,    \* those that closed their connection
    begun,     \* those of which a command was started
    restoring  \* contexts are being restored, or about to be

vars == <<here, ahead, hungUp, begun, restoring>>

Init ==
    /\ here = {} /\ ahead = {} /\ hungUp = {} /\ begun = {}
    /\ restoring = FALSE

Arrive(c) ==
    /\ c \notin here
    /\ here' = here \cup {c}
    /\ ahead' = ahead \cup (here \X {c})
    /\ UNCHANGED <<hungUp, begun, restoring>>

HangUp(c) ==
    /\ c \in here
    /\ hungUp' = hungUp \cup {c}
    /\ UNCHANGED <<here, ahead, begun, restoring>>

InTurn(c) ==
    /\ c \in here \ hungUp
    /\ \A d \in here : <<d, c>> \notin ahead
    /\ ~restoring

Begin(c) ==
    /\ InTurn(c)
    /\ begun' = begun \cup {c}
    /\ UNCHANGED <<here, ahead, hungUp, restoring>>

Goes(c) ==
    /\ here' = here \ {c}
    /\ ahead' = {pair \in ahead : c \notin {pair[1], pair[2]}}
    /\ hungUp' = hungUp \ {c}
    /\ begun' = begun \ {c}
    /\ UNCHANGED restoring

Answer(c) == InTurn(c) /\ Goes(c)

Leave(c) == c \in hungUp /\ Goes(c)

Restore ==
    /\ restoring' = ~restoring
    /\ UNCHANGED <<here, ahead, hungUp, begun>>

Die ==
    /\ here' = {} /\ ahead' = {} /\ hungUp' = {} /\ begun' = {}
    /\ restoring' = FALSE

Next ==
    \/ \E c \in Clients : Arrive(c) \/ HangUp(c) \/ Begin(c) \/ Answer(c) \/ Leave(c)
    \/ Restore
    \/ Die

Spec == Init /\ [][Next]_vars
=============================================================================
