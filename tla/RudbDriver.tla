----------------------------- MODULE RudbDriver -----------------------------
(***************************************************************************)
(* rudb as a library: `Rudb` of rudb.rs.  One database is held across      *)
(* statements, with the optimizer passes the engine was built without      *)
(* turned off in it; a file may name connections, each opened the first    *)
(* time it is named, and reconnect the one it has.  A database is the      *)
(* number of times one has been opened.                                    *)
(***************************************************************************)
EXTENDS Naturals

CONSTANTS
  Optimizers,    (* The passes, by name.                                   *)
  Connections    (* The connections a file may name.                       *)

VARIABLES
  optimizer,     (* "on", "off", or the one pass that is left on.          *)
  database,      (* The database that is open.                             *)
  disabled,      (* `disabled_optimizers` of that database.                *)
  current,       (* The database the unnamed connection is to, or None.    *)
  named          (* The database each named connection is to, or None.     *)

driverVars == <<optimizer, database, disabled, current, named>>

None == 0

TurnedOff(how) ==
  CASE how = "on"         -> {}
    [] how = "off"        -> Optimizers
    [] how \in Optimizers -> Optimizers \ {how}

\* A new engine, with everything a reset would give it.
Opened(how) ==
  /\ optimizer' = how
  /\ database' = database + 1
  /\ disabled' = TurnedOff(how)
  /\ current' = None
  /\ named' = [c \in Connections |-> None]

\* Mutant: the connections of the last file stay open.
ResetKeepingNamed ==
  /\ database' = database + 1
  /\ disabled' = TurnedOff(optimizer)
  /\ current' = None
  /\ UNCHANGED <<optimizer, named>>

\* `reset`: a new database, with the passes off as before and no connection.
Reset ==
  /\ database' = database + 1
  /\ disabled' = TurnedOff(optimizer)
  /\ current' = None
  /\ named' = [c \in Connections |-> None]
  /\ UNCHANGED optimizer

Reconnect ==
  /\ current' = database
  /\ UNCHANGED <<optimizer, database, disabled, named>>

\* A statement that sets the passes sets them on the database.
Disable(passes) ==
  /\ disabled' = passes
  /\ UNCHANGED <<optimizer, database, current, named>>

\* A statement on the unnamed connection or on a named one.
RunUnnamed == UNCHANGED driverVars

RunOn(c) ==
  /\ named' = [named EXCEPT ![c] = IF @ = None THEN database ELSE @]
  /\ UNCHANGED <<optimizer, database, disabled, current>>

\* The database a connection leads to.
Reached(open) == IF open = None THEN database ELSE open
=============================================================================
