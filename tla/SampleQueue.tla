---------------------------- MODULE SampleQueue ----------------------------
(***************************************************************************)
(* What the reader of the perf buffer promises: samples, numbered in the   *)
(* order in which the counter overflowed, wait until the oldest is taken   *)
(* or all of them are discarded.  No sample is taken twice or after a      *)
(* later one.                                                              *)
(***************************************************************************)
EXTENDS Integers

VARIABLES waiting,  (* samples written and not yet taken or discarded      *)
          taken     (* the sample taken last, 0 for none                   *)

vars == <<waiting, taken>>

Init == waiting = {} /\ taken = 0

(* The kernel adds the sample of a later overflow.                         *)
Put(n) ==
    /\ n > taken
    /\ \A w \in waiting : n > w
    /\ waiting' = waiting \cup {n}
    /\ UNCHANGED taken

Take(n) ==
    /\ n \in waiting
    /\ \A w \in waiting : n <= w
    /\ waiting' = waiting \ {n}
    /\ taken' = n

Discard == waiting' = {} /\ UNCHANGED taken

(* No more than one sample is added at a time, so the next number is the   *)
(* one the step added.                                                     *)
Next ==
    \/ \E n \in waiting' : Put(n)
    \/ \E n \in waiting : Take(n)
    \/ Discard

Spec == Init /\ [][Next]_vars

=============================================================================
