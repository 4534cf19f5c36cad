----------------------------- MODULE FdbClient -----------------------------
(***************************************************************************)
(* What the switch promises a client that keeps its own copy of the *)
(* forwarding database: a copy that applies the notifications in order, *)
(* and the client's own successful calls, is never behind the table. Every *)
(* step that changes the table changes the copy in the same way. *)
(***************************************************************************)
EXTENDS Naturals

CONSTANTS
  Macs,
  Ports,
  NoPort          \* the MAC has no entry

VARIABLES
  table,          \* MAC -> port and type of the entry
  copy            \* the client's copy of it

vars == <<table, copy>>

Binding == [port : Ports, static : BOOLEAN]
Nothing == [port |-> NoPort, static |-> FALSE]
Entry == Binding \cup {Nothing}

Init == /\ table = [m \in Macs |-> Nothing]
        /\ copy = table

(* Entries are written, by a learning report or by the client. A step *)
(* writes or forgets, as a notification is of one kind. *)
Write(new) == /\ table' = [m \in Macs |-> IF m \in DOMAIN new THEN new[m] ELSE table[m]]
              /\ copy' = [m \in Macs |-> IF m \in DOMAIN new THEN new[m] ELSE copy[m]]

(* Entries disappear, by age, by a flush or by the client. *)
Forget(S) == /\ table' = [m \in Macs |-> IF m \in S THEN Nothing ELSE table[m]]
             /\ copy' = [m \in Macs |-> IF m \in S THEN Nothing ELSE copy[m]]

Next == \/ \E S \in SUBSET Macs : \E new \in [S -> Binding] : Write(new)
        \/ \E S \in SUBSET Macs : Forget(S)

Spec == Init /\ [][Next]_vars
=============================================================================
