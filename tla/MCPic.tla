------------------------------- MODULE MCPic -------------------------------
(* Small instances of Pic for TLC: four inputs per chip, input 2 the cascade. *)
EXTENDS Pic

\* An ISA line above and a PCI line below the cascade; a line of the slave
\* that the PCI router and ACPI share, and one below it.
MCWired == {<<"master", 1, "ISA">>, <<"master", 3, "PIRQ">>,
            <<"slave", 1, "PIRQ">>, <<"slave", 1, "SCI">>, <<"slave", 2, "ISA">>}
MCNested == Chips \X {"imr", "eoi", "seoi"}

\* One line per chip; either chip is re-initialised at any moment, the master
\* is polled and masked specially, the slave rotates its priorities.
MCWiredModes == {<<"master", 1, "ISA">>, <<"slave", 0, "PIRQ">>}
MCCommands ==
  (Chips \X {"icw1", "imr"})
    \union ({"master"} \X {"eoi", "special_mask", "poll", "reset"})
    \union ({"slave"} \X {"eoi_rotate", "seoi_rotate", "set_priority", "rotate_auto"})

MCMasks == {{}, {1}}
MCLevels == {<<"master", {}>>, <<"slave", {}>>, <<"slave", {1, 2}>>}
=============================================================================
