---------------------------- MODULE VersionedEntry ----------------------------
(***************************************************************************)
(* What the admin API promises about the text of an entry, without its     *)
(* statements, its stores and its workers: an entry is created once, a     *)
(* draft save replaces the text and keeps the version, and a publication   *)
(* moves to the next version and files its text under that number, in one  *)
(* step. Filed texts never change and no number is skipped.                *)
(***************************************************************************)
EXTENDS Naturals

CONSTANTS Texts, NoText, LastVersion

VARIABLES version, text, filed

vars == <<version, text, filed>>

Init ==
    /\ version = 0
    /\ text = NoText
    /\ filed = [v \in 1 .. LastVersion |-> NoText]

Create(t) ==
    /\ version = 0
    /\ version' = 1
    /\ text' = t
    /\ UNCHANGED filed

Save(t) ==
    /\ version > 0
    /\ text' = t
    /\ UNCHANGED <<version, filed>>

Publish(t) ==
    /\ version > 0
    /\ version < LastVersion
    /\ version' = version + 1
    /\ text' = t
    /\ filed' = [filed EXCEPT ![version + 1] = t]

Next == \E t \in Texts : Create(t) \/ Save(t) \/ Publish(t)

Spec == Init /\ [][Next]_vars
=============================================================================
