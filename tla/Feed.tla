-------------------------------- MODULE Feed ---------------------------------
(***************************************************************************)
(* What the push server promises: who is connected when a downlink is      *)
(* recognised gets it, once and after the earlier ones.  Downlinks are     *)
(* numbered as the module printed them.  One that nobody recognises is     *)
(* skipped: the next one published may have any later number.              *)
(***************************************************************************)
EXTENDS Integers, Sequences

CONSTANTS Subscribers, MaxDownlinks

VARIABLES subs, last, got

vars == <<subs, last, got>>

Init == subs = {} /\ last = 0 /\ got = [s \in Subscribers |-> << >>]

Subscribe(s) ==
    /\ s \notin subs
    /\ subs' = subs \cup {s}
    /\ got' = [got EXCEPT ![s] = << >>]
    /\ UNCHANGED last

Leave(s) == s \in subs /\ subs' = subs \ {s} /\ UNCHANGED <<last, got>>

\* To all of them at once
Publish(d) ==
    /\ d \in (last + 1)..MaxDownlinks
    /\ last' = d
    /\ got' = [s \in Subscribers |-> IF s \in subs THEN Append(got[s], d) ELSE got[s]]
    /\ UNCHANGED subs

\* The daemon ends, the subscribers with it
Fail == subs' = {} /\ UNCHANGED <<last, got>>

Next ==
    \/ \E s \in Subscribers : Subscribe(s) \/ Leave(s)
    \/ \E d \in 1..MaxDownlinks : Publish(d)
    \/ Fail

Spec == Init /\ [][Next]_vars
=============================================================================
