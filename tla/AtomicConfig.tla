--------------------------- MODULE AtomicConfig ---------------------------
(* What the configuration store gives its callers (src/src/config.rs:158,    *)
(* 203): the saved settings change one update at a time, each update         *)
(* changing its own field of what was saved before, and survive restarts;    *)
(* but a start that cannot read them takes the defaults, all at once, for    *)
(* what was saved (config.rs:171).                                           *)

CONSTANTS Fields, Vals, DefaultVal

VARIABLE saved

Defaults == [f \in Fields |-> DefaultVal]

Init == saved = Defaults

Set(f, v) == saved' = [saved EXCEPT ![f] = v]

Forget == saved' = Defaults

Next ==
    \/ \E f \in Fields, v \in Vals : Set(f, v)
    \/ Forget

Spec == Init /\ [][Next]_saved

=============================================================================
