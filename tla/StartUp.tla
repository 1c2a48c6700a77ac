------------------------------ MODULE StartUp ------------------------------
(***************************************************************************)
(* How a process prepares the database before it serves                    *)
(* (src/shared/database.py, src/run.py): the rebuild of kbdocument, the    *)
(* columns an older version lacks, the missing tables, the full text       *)
(* mirror of the chunks, and in the UI process the first account and the   *)
(* owner of ownerless rows.                                                *)
(*                                                                         *)
(* The rebuild and the mirror are transactions; a statement that changes   *)
(* the schema outside them is committed at once.  Two processes may        *)
(* prepare the same file, an orphaned Agent and the new UI, and each may   *)
(* die at any step and be started again.                                   *)
(***************************************************************************)
EXTENDS Naturals, FiniteSets

CONSTANTS Agents,       \* Agent processes; "ui" is the UI's
          MaxColumns,   \* columns the settings table has gained since its first version
          MaxFragments,      \* fragments written while an Agent serves
          MaxFailures   \* crashes, and statements that find the database locked

ASSUME StartAssumption == MaxColumns \in Nat /\ MaxFragments \in Nat /\ MaxFailures \in Nat

VARIABLES file,     \* what the database file holds
          procs,    \* process -> [at, column, saw]
          written,  \* the fragments that were ever indexed and not removed
          passwordShown,    \* the password of the first account was printed
          failures

startVars == <<file, procs, written, passwordShown, failures>>

Procs == Agents \cup {"ui"}
Tables == {"settings", "kbdocument", "kbchunk"}
Columns == 1 .. MaxColumns
NoMirror == [rows |-> {}, there |-> FALSE]

ProcAt(p, at) == procs' = [procs EXCEPT ![p].at = at]
Exits(p) == ProcAt(p, "down")

\* A file of an older version, with ownerless rows, or none at all.
StartInit ==
  /\ \E columns \in SUBSET Columns, old \in BOOLEAN, rows \in SUBSET {1}, fresh \in BOOLEAN :
       file = IF fresh
              THEN [tables |-> {}, columns |-> {}, unique |-> FALSE, chunks |-> {},
                    mirror |-> NoMirror, users |-> {}, ownerless |-> FALSE]
              ELSE [tables |-> Tables, columns |-> columns, unique |-> old, chunks |-> rows,
                    mirror |-> NoMirror, users |-> {}, ownerless |-> TRUE]
  /\ procs = [p \in Procs |-> [at |-> "down", column |-> 1, saw |-> {}]]
  /\ written = file.chunks /\ passwordShown = FALSE /\ failures = 0

Starts(p) ==
  /\ procs[p].at = "down"
  /\ procs' = [procs EXCEPT ![p] = [at |-> "looks", column |-> 1, saw |-> {}]]
  /\ UNCHANGED <<file, written, passwordShown, failures>>

-----------------------------------------------------------------------------
(* migrate_kbdocument_drop_sha_unique *)

LooksAtDocuments(p) ==
  /\ procs[p].at = "looks"
  /\ ProcAt(p, IF "kbdocument" \in file.tables /\ file.unique THEN "rebuilds" ELSE "columns")
  /\ UNCHANGED <<file, written, passwordShown, failures>>

(* Mutant: the foreign keys stay on, and the old table takes its fragments with it. *)
RebuildsKeyed(p) ==
  /\ procs[p].at = "rebuilds"
  /\ file' = [file EXCEPT !.unique = FALSE, !.chunks = {}, !.mirror.rows = {}]
  /\ ProcAt(p, "columns") /\ UNCHANGED <<written, passwordShown, failures>>

\* Foreign keys are off meanwhile, so dropping the old table removes no fragment.
Rebuilds(p) ==
  /\ procs[p].at = "rebuilds"
  /\ file' = [file EXCEPT !.unique = FALSE]
  /\ ProcAt(p, "columns") /\ UNCHANGED <<written, passwordShown, failures>>

-----------------------------------------------------------------------------
(* The columns, one at a time; a table that is not there yet is created whole later. *)

ReadsColumns(p) ==
  /\ procs[p].at = "columns"
  /\ IF "settings" \notin file.tables \/ procs[p].column > MaxColumns
     THEN ProcAt(p, "tables")
     ELSE procs' = [procs EXCEPT ![p].at = "adds", ![p].saw = file.columns]
  /\ UNCHANGED <<file, written, passwordShown, failures>>

\* A column that another process has added meanwhile fails the statement, and the start.
AddsColumn(p) ==
  /\ procs[p].at = "adds"
  /\ LET k == procs[p].column
     IN  IF k \in procs[p].saw \/ k \notin file.columns
         THEN /\ file' = [file EXCEPT !.columns = @ \cup {k}]
              /\ procs' = [procs EXCEPT ![p].at = "columns", ![p].column = k + 1]
         ELSE Exits(p) /\ UNCHANGED file
  /\ UNCHANGED <<written, passwordShown, failures>>

-----------------------------------------------------------------------------
(* metadata.create_all, and ensure_kb_chunk_fts *)

ChecksTables(p) ==
  /\ procs[p].at = "tables"
  /\ procs' = [procs EXCEPT ![p].at = "creates", ![p].saw = file.tables]
  /\ UNCHANGED <<file, written, passwordShown, failures>>

\* A table is created with all the columns of today's model.
CreatesTable(p) ==
  /\ procs[p].at = "creates"
  /\ IF procs[p].saw = Tables THEN ProcAt(p, "mirrors") /\ UNCHANGED file
     ELSE \E t \in Tables \ procs[p].saw :
            IF t \in file.tables THEN Exits(p) /\ UNCHANGED file
            ELSE /\ file' = [file EXCEPT !.tables = @ \cup {t},
                                         !.columns = IF t = "settings" THEN Columns ELSE @]
                 /\ procs' = [procs EXCEPT ![p].saw = @ \cup {t}]
  /\ UNCHANGED <<written, passwordShown, failures>>

Ready(p) == IF p = "ui" THEN "accounts" ELSE "serves"

\* The mirror and its triggers, and the rows it lacks when the counts differ.
Mirrors(p) ==
  /\ procs[p].at = "mirrors"
  /\ file' = [file EXCEPT !.mirror =
       [there |-> TRUE,
        rows |-> IF Cardinality(file.chunks) = Cardinality(@.rows) THEN @.rows
                 ELSE file.chunks]]
  /\ ProcAt(p, Ready(p)) /\ UNCHANGED <<written, passwordShown, failures>>

\* An error of the database is a warning: the process goes on without the mirror.
SkipsMirror(p) ==
  /\ procs[p].at = "mirrors" /\ failures < MaxFailures
  /\ failures' = failures + 1
  /\ ProcAt(p, Ready(p)) /\ UNCHANGED <<file, written, passwordShown>>

-----------------------------------------------------------------------------
(* bootstrap_admin_if_needed, and the banner of run.py *)

\* ensure_bootstrap_admin: an account is made only when there is none.
MakesAdmin ==
  /\ procs["ui"].at = "accounts"
  /\ file' = [file EXCEPT !.users = IF @ = {} THEN {"admin"} ELSE @]
  /\ procs' = [procs EXCEPT !["ui"].at = "owners", !["ui"].saw = IF file.users = {} THEN {"admin"} ELSE {}]
  /\ UNCHANGED <<written, passwordShown, failures>>

\* backfill_user_id
GivesOwners ==
  /\ procs["ui"].at = "owners"
  /\ file' = [file EXCEPT !.ownerless = FALSE]
  /\ ProcAt("ui", "prints") /\ UNCHANGED <<written, passwordShown, failures>>

PrintsBanner ==
  /\ procs["ui"].at = "prints"
  /\ passwordShown' = (passwordShown \/ procs["ui"].saw # {})
  /\ ProcAt("ui", "serves") /\ UNCHANGED <<file, written, failures>>

-----------------------------------------------------------------------------
\* A killed process, or a statement that finds the database locked for too long.
Breaks(p) ==
  /\ procs[p].at # "down" /\ failures < MaxFailures
  /\ failures' = failures + 1
  /\ Exits(p) /\ UNCHANGED <<file, written, passwordShown>>

\* An Agent that serves writes and removes fragments; the triggers follow.
Follow(rows) == IF file.mirror.there THEN [there |-> TRUE, rows |-> rows] ELSE file.mirror
Indexes(p) ==
  /\ p \in Agents /\ procs[p].at = "serves"
  /\ \E rows \in SUBSET (1 .. MaxFragments) :
       /\ rows # file.chunks
       /\ file' = [file EXCEPT !.chunks = rows, !.mirror = Follow(rows)]
       /\ written' = rows
  /\ UNCHANGED <<procs, passwordShown, failures>>

Prepares(p) ==
  \/ Starts(p) \/ LooksAtDocuments(p) \/ Rebuilds(p)
  \/ ReadsColumns(p) \/ AddsColumn(p) \/ ChecksTables(p) \/ CreatesTable(p) \/ Mirrors(p)
  \/ p = "ui" /\ (MakesAdmin \/ GivesOwners \/ PrintsBanner)

StartNext == \E p \in Procs : Prepares(p) \/ SkipsMirror(p) \/ Breaks(p) \/ Indexes(p)

\* The supervisor starts an Agent that exits again, and the user the UI.
StartFairness == \A p \in Procs : WF_startVars(Prepares(p))
StartSpec == StartInit /\ [][StartNext]_startVars /\ StartFairness

-----------------------------------------------------------------------------
(* Properties *)

\* A process serves only a file with every table and every column of the models.
ServesWholeSchema ==
  \A p \in Procs : procs[p].at = "serves" => file.tables = Tables /\ file.columns = Columns /\ ~file.unique

\* No migration, however often it is broken off, removes a fragment.
FragmentsKept == file.chunks = written

\* The full text mirror holds exactly the fragments, when there is one.
MirrorIsExact == file.mirror.there => file.mirror.rows = file.chunks

\* Ownerless rows have an owner before the UI serves.
RowsOwned == procs["ui"].at = "serves" => ~file.ownerless

StartUpSound == ServesWholeSchema /\ FragmentsKept /\ MirrorIsExact /\ RowsOwned

\* Every process serves in the end, whatever it was broken off in.
StartsServe == \A p \in Procs : <>[](procs[p].at = "serves")

\* README.md: the password of the account made on the first run is printed.
AdminKnown == file.users # {} /\ procs["ui"].at \in {"down", "serves"} => passwordShown
=============================================================================
