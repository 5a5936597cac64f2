-------------------------------- MODULE MCCloud --------------------------------
(* Instances of CloudBridge for TLC. *)
EXTENDS CloudBridge

TwoCommands == 1..2

\* Two commands and one Bridge object whose owner switches cloud control; one
\* command, two objects and an owner who also unpairs.
CommandsOrObjects ==
    {[commands |-> 1..2, bridges |-> 1, owner |-> {"control"}],
     [commands |-> {1}, bridges |-> 2, owner |-> {"control", "pairing"}]}

=============================================================================
