-------------------------------- MODULE Schema --------------------------------
(***************************************************************************)
(* migrate.py, migrations/env.py and the one revision there is: how the    *)
(* tables come to be.  Alembic makes its own table, the revision makes     *)
(* two, and the database is stamped, all in one transaction: `_run` in     *)
(* env.py begins it, and Postgres makes and drops tables in transactions   *)
(* like rows.                                                              *)
(*                                                                         *)
(* Deployments may migrate at the same time, and die at any statement.     *)
(***************************************************************************)
EXTENDS Naturals, Sequences

CONSTANTS Migrators,
          None

(* In the order in which they are created. *)
Created == <<"alembic_version", "agent_definitions", "agent_environment_bindings">>
Tables == {Created[i] : i \in DOMAIN Created}
HeadRevision == "0001_agent_registry"

VARIABLES tables,     \* what everybody sees
          revision,   \* the stamp everybody sees
          migration,  \* migration[m]: where a process is in `migrate`
          made        \* made[m]: how many of Created it has seen to
schemaVars == <<tables, revision, migration, made>>

ASSUME SchemaAssumption == None # HeadRevision

SchemaTypeOK ==
    /\ tables \subseteq Tables
    /\ revision \in {None, HeadRevision}
    /\ migration \in [Migrators -> {"out", "begun", "upgrading"}]
    /\ made \in [Migrators -> 0..Len(Created)]

SchemaInit ==
    /\ tables = {}
    /\ revision = None
    /\ migration = [m \in Migrators |-> "out"]
    /\ made = [m \in Migrators |-> 0]

(* Done, failed or dead: what it had not committed is no more. *)
Ends(m) ==
    /\ migration' = [migration EXCEPT ![m] = "out"]
    /\ made' = [made EXCEPT ![m] = 0]

(* It asks for a URL, and for no event loop to be running: it begins one,  *)
(* and a transaction in it.                                                *)
StartMigration(m, url, looping) ==
    /\ migration[m] = "out"
    /\ url /\ ~looping
    /\ migration' = [migration EXCEPT ![m] = "begun"]
    /\ UNCHANGED <<tables, revision, made>>

(* Nothing is done to a database that is at the revision. *)
ReadRevision(m) ==
    /\ migration[m] = "begun"
    /\ \/ revision = HeadRevision /\ Ends(m)
       \/ /\ revision # HeadRevision
          /\ migration' = [migration EXCEPT ![m] = "upgrading"]
          /\ UNCHANGED made
    /\ UNCHANGED <<tables, revision>>

(* A name that another transaction has taken is waited for. *)
IsFree(i) == \A m \in Migrators : made[m] < i

(* Mutant: each statement commits. *)
CreateAndCommit(m) ==
    LET i == made[m] + 1 IN
    /\ migration[m] = "upgrading" /\ i \in DOMAIN Created /\ IsFree(i)
    /\ IF i > 1 /\ Created[i] \in tables
       THEN Ends(m) /\ UNCHANGED tables
       ELSE /\ made' = [made EXCEPT ![m] = i]
            /\ tables' = tables \cup {Created[i]}
            /\ UNCHANGED migration
    /\ UNCHANGED revision

(* A table that exists is an error, but for Alembic's own. *)
CreateTable(m) ==
    LET i == made[m] + 1 IN
    /\ migration[m] = "upgrading" /\ i \in DOMAIN Created /\ IsFree(i)
    /\ IF i > 1 /\ Created[i] \in tables
       THEN Ends(m)
       ELSE made' = [made EXCEPT ![m] = i] /\ UNCHANGED migration
    /\ UNCHANGED <<tables, revision>>

CommitMigration(m) ==
    /\ migration[m] = "upgrading" /\ made[m] = Len(Created)
    /\ tables' = tables \cup Tables
    /\ revision' = HeadRevision
    /\ Ends(m)

(* A statement fails, or the process dies. *)
MigrationFails(m) ==
    /\ migration[m] # "out"
    /\ Ends(m)
    /\ UNCHANGED <<tables, revision>>

Migrate(m, url) ==
    \/ \E looping \in BOOLEAN : StartMigration(m, url, looping)
    \/ ReadRevision(m) \/ CreateTable(m) \/ CommitMigration(m) \/ MigrationFails(m)

-----------------------------------------------------------------------------
(* The tables are all there or none is, and the stamp says which, whoever  *)
(* migrates at the same time and wherever a migration dies: it can always  *)
(* be run again (migrate.py:27, "safe to call again").                     *)
SchemaIsWholeOrAbsent ==
    \/ tables = {} /\ revision = None
    \/ tables = Tables /\ revision = HeadRevision
=============================================================================
