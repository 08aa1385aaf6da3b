--------------------------- MODULE MCCommandServer --------------------------
(* Instances of CommandServer for TLC.                                     *)
EXTENDS CommandServer

AnyLine    == AllKinds
NoConfig   == AllKinds \ {"config"}
StopAndRun == {"stop", "config"}

JoinReturns == {"returns"}
JoinEither  == {"returns", "faults"}

ThePutCommands == Commands \cup {NULL}
=============================================================================
