----------------------------- MODULE CodeIndex -----------------------------
(***************************************************************************)
(* What the code cache manager promises to signal handlers, without locks, *)
(* versions or range sets: a map from addresses to live code that changes  *)
(* one whole piece of code at a time.  A handler holds what the map said   *)
(* at one moment, and a piece of code leaves the map only when no handler  *)
(* holds it.                                                               *)
(***************************************************************************)
EXTENDS Integers

CONSTANTS Threads,  (* who looks addresses up                              *)
          Addrs,    (* machine addresses                                   *)
          Code,     (* pieces of code, each with a range s..e              *)
          NoCode    (* no code at this address, nothing held               *)

VARIABLES index,    (* the code at each address                            *)
          held      (* the code each handler works on                      *)

vars == <<index, held>>

Init ==
    /\ index = [a \in Addrs |-> NoCode]
    /\ held = [t \in Threads |-> NoCode]

(* A compiled method appears at all its addresses, which were free.        *)
Publish(c) ==
    /\ \A a \in c.s..c.e : index[a] = NoCode
    /\ index' = [a \in Addrs |-> IF a \in c.s..c.e THEN c ELSE index[a]]
    /\ UNCHANGED held

(* It disappears from all of them, and nobody is using it.                 *)
Withdraw(c) ==
    /\ \A t \in Threads : held[t] # c
    /\ index' = [a \in Addrs |-> IF index[a] = c THEN NoCode ELSE index[a]]
    /\ UNCHANGED held

Lookup(t, a) ==
    /\ held' = [held EXCEPT ![t] = index[a]]
    /\ UNCHANGED index

Drop(t) ==
    /\ held' = [held EXCEPT ![t] = NoCode]
    /\ UNCHANGED index

Next ==
    \/ \E c \in Code : Publish(c) \/ Withdraw(c)
    \/ \E t \in Threads : Drop(t) \/ \E a \in Addrs : Lookup(t, a)

Spec == Init /\ [][Next]_vars

=============================================================================
