------------------------------ MODULE MCOrganize ------------------------------
(* A small instance of Organize for TLC: the assets share their work.      *)
EXTENDS Organize

MCWorkOf == [i \in Items |-> 1]
=============================================================================
