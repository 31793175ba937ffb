-------------------------- MODULE MCSchedulerLiveness --------------------------
(* An instance of SchedulerLiveness for TLC.  A tick is 2.5 minutes; the   *)
(* times are those of the code, a refresh takes up to one tick and one     *)
(* heartbeat in a row may misfire.                                         *)
EXTENDS SchedulerLiveness

MCBeat      == 2
MCMaxMisses == 1
MCCheck     == 2
MCSlack     == 1
MCStale     == 6
MCTtl       == 12
MCDownLimit == 6
=============================================================================
