----------------------------- MODULE HnswIndex -----------------------------
(***************************************************************************)
(* The operator's tool for the approximate index of one dimension, run      *)
(* beside the migrations and the processing of documents.  A build looks    *)
(* for the index, creates it concurrently, which is not a transaction and   *)
(* skips a name that is taken, and looks again; an interrupted creation     *)
(* leaves an invalid index that nothing but a person removes.  A benchmark  *)
(* samples stored vectors and, for each, asks an exact query and then an    *)
(* approximate one, every query in a transaction of its own.                *)
(* The server builds one index of a table at a time, and dropping a table   *)
(* waits for it (external).  Of a sampled vector only its distances to the  *)
(* chunks count, and of a chunk's id only its place in the order of ids;    *)
(* timings and sizes are left out.                                          *)
(***************************************************************************)
EXTENDS SchemaMigrations

CONSTANTS
    Operators,     \* people running the tool
    TopK,          \* --top-k
    Samples,       \* --samples
    Distances,     \* what a sampled vector's distances to the chunks may be
    MaxCommands    \* commands started in a behaviour: bounds "issued"

ASSUME HnswAssumption ==
    /\ TopK \in Nat \ {0} /\ Samples \in Nat \ {0} /\ MaxCommands \in Nat
    /\ \A distance \in Distances : distance \in [1..MaxChunks -> Nat]

VARIABLES
    index,    \* the index: "absent", "building", "invalid" or "valid"
    cli,      \* what each operator's command is at
    issued    \* commands started

toolVars == <<index, cli, issued>>
vars == <<migrationVars, toolVars>>

\* Of the probes of a sample: the sample's distances, the rows the exact query
\* ranked and its result, those the index led to and the approximate result.
At(command, pc) == [command |-> command, pc |-> pc, left |-> 0, distance |-> << >>,
                    scope |-> {}, exact |-> {}, reached |-> {}, approximate |-> {},
                    perfect |-> TRUE]
Idle == At("none", "ok")

Ended == {"ok", "below", "error"}
Running(o) == cli[o].pc \notin Ended

ToolInit ==
    /\ Init
    /\ index = "absent"
    /\ cli = [o \in Operators |-> Idle]
    /\ issued = 0

\* A command moves on, and forgets its probes when it ends.
GoTo(o, pc) ==
    /\ cli' = [cli EXCEPT ![o] = IF pc \in Ended THEN At("none", pc) ELSE [@ EXCEPT !.pc = pc]]
    /\ UNCHANGED issued

\* index_state(): no row, a valid index, or an error for anything in between.
Present == HasTable(db, "chunk_embeddings") /\ index # "absent"
IndexState == IF ~Present THEN "none" ELSE IF index = "valid" THEN "valid" ELSE "error"

\* Options out of bounds and a missing --confirm-build end the command before it
\* opens the database.
Start(o) ==
    /\ ~Running(o) /\ issued < MaxCommands
    /\ \/ \E c \in {"status", "build", "benchmark"} : cli' = [cli EXCEPT ![o] = At(c, "inspect")]
       \/ cli' = [cli EXCEPT ![o] = At("none", "error")]
    /\ issued' = issued + 1
    /\ UNCHANGED index

Inspect(o) ==
    /\ cli[o].pc = "inspect"
    /\ GoTo(o, IF IndexState = "error" THEN "error" ELSE
               CASE cli[o].command = "status"    -> "ok"
                 [] cli[o].command = "build"     -> IF IndexState = "none" THEN "create" ELSE "ok"
                 [] cli[o].command = "benchmark" -> IF IndexState = "none" THEN "error" ELSE "sample")
    /\ UNCHANGED index

CreateUnverified(o) ==
    /\ cli[o].pc = "create" /\ index # "building"
    /\ IF index = "absent" THEN GoTo(o, "creating") /\ index' = "building"
       ELSE GoTo(o, "ok") /\ UNCHANGED index

\* CREATE INDEX CONCURRENTLY IF NOT EXISTS.
Create(o) ==
    /\ cli[o].pc = "create" /\ index # "building"
    /\ IF ~HasTable(db, "chunk_embeddings") THEN GoTo(o, "error") /\ UNCHANGED index
       ELSE IF index = "absent" THEN GoTo(o, "creating") /\ index' = "building"
       ELSE GoTo(o, "verify") /\ UNCHANGED index

BuildEnds(o) ==
    /\ cli[o].pc = "creating"
    /\ \/ index' = "valid" /\ GoTo(o, "verify")
       \/ index' = "invalid" /\ GoTo(o, "error")

Verify(o) ==
    /\ cli[o].pc = "verify"
    /\ GoTo(o, IF IndexState = "valid" THEN "ok" ELSE "error")
    /\ UNCHANGED index

\* The connection or the tool is lost; a creation goes on without it.
Lost(o) ==
    /\ Running(o)
    /\ GoTo(o, "error")
    /\ UNCHANGED index

OrphanEnds ==
    /\ index = "building" /\ ~\E o \in Operators : cli[o].pc = "creating"
    /\ index' \in {"valid", "invalid"}
    /\ UNCHANGED <<cli, issued>>

\* The queries name the version columns: before revision 0011 they fail.
Queryable == HasColumn(db, "documents", "active_chunk_version")

Least(a, b) == IF a < b THEN a ELSE b

Nearer(distance, a, b) == distance[a] < distance[b]

RetrievalQueryRelaxed(exact, rows, distance) ==
    {result \in SUBSET rows :
        /\ Cardinality(result) = Least(TopK, Cardinality(rows))
        /\ exact => \A near \in result, far \in rows \ result :
             /\ ~Nearer(distance, far, near)
             /\ Nearer(distance, near, far) \/ near < far}

\* ORDER BY ... LIMIT: what either query may return of the rows it comes to see.
\* The approximate one has a bare distance to order by, or the index would not
\* serve it, and leaves the order of equal distances open.
RetrievalQuery(exact, rows, distance) ==
    {result \in SUBSET rows :
        /\ Cardinality(result) = Least(TopK, Cardinality(rows))
        /\ \A near \in result, far \in rows \ result :
             /\ ~Nearer(distance, far, near)
             /\ exact => Nearer(distance, near, far) \/ near < far}

Sample(o) ==
    /\ cli[o].pc = "sample"
    /\ LET vectors == Least(Samples, Cardinality(Served(db)))
       IN  IF ~Queryable \/ vectors = 0 THEN GoTo(o, "error")
           ELSE cli' = [cli EXCEPT ![o].pc = "exact", ![o].left = vectors] /\ UNCHANGED issued
    /\ UNCHANGED index

ExactProbe(o) ==
    /\ cli[o].pc = "exact"
    /\ IF ~Queryable THEN GoTo(o, "error")
       ELSE \E distance \in Distances :
            \E result \in RetrievalQuery(TRUE, Served(db), distance) :
              /\ cli' = [cli EXCEPT ![o].pc = "approximate", ![o].distance = distance,
                                    ![o].scope = Served(db), ![o].exact = result,
                                    ![o].reached = {}, ![o].approximate = {}]
              /\ UNCHANGED issued
    /\ UNCHANGED index

\* EXPLAIN must show the index, which the planner uses only when it is valid; the
\* empty exact result is refused after the second query.  The scan of the index
\* may miss or never come to any of the active rows; those it comes to, it gives
\* in the order of their distance (hnsw.iterative_scan = strict_order).
ApproximateProbe(o) ==
    /\ cli[o].pc = "approximate"
    /\ IF ~Queryable \/ index # "valid" \/ cli[o].exact = {} THEN GoTo(o, "error")
       ELSE \E reached \in SUBSET Served(db) :
            \E result \in RetrievalQuery(FALSE, reached, cli[o].distance) :
              /\ cli' = [cli EXCEPT
                   ![o].pc = IF cli[o].left = 1 THEN "report" ELSE "exact",
                   ![o].left = @ - 1, ![o].reached = reached, ![o].approximate = result,
                   ![o].perfect = @ /\ cli[o].exact \subseteq result]
              /\ UNCHANGED issued
    /\ UNCHANGED index

\* --min-recall 1, or none.
Report(o) ==
    /\ cli[o].pc = "report"
    /\ GoTo(o, "ok") \/ (~cli[o].perfect /\ GoTo(o, "below"))
    /\ UNCHANGED index

ToolStep ==
    \/ \E o \in Operators :
         \/ Start(o) \/ Inspect(o) \/ Create(o) \/ BuildEnds(o) \/ Verify(o) \/ Lost(o)
         \/ Sample(o) \/ ExactProbe(o) \/ ApproximateProbe(o) \/ Report(o)
    \/ OrphanEnds

\* Dropping the embeddings waits for a creation and takes the index with it.
MigrationStep ==
    /\ Upgrade \/ Downgrade
    /\ rev = 4 /\ rev' = 3 => index # "building"
    /\ index' = IF HasTable(db', "chunk_embeddings") THEN index ELSE "absent"
    /\ UNCHANGED <<cli, issued>>

Next ==
    \/ ToolStep /\ UNCHANGED migrationVars
    \/ MigrationStep
    \/ RowStep /\ UNCHANGED toolVars

Spec == ToolInit /\ [][Next]_vars

-----------------------------------------------------------------------------
\* A build that reports success leaves a valid index, whoever built it and
\* whatever was interrupted before: "IF NOT EXISTS" alone does not say so.
BuildReports ==
    [][\A o \in Operators :
         cli[o].command = "build" /\ Running(o) /\ cli'[o].pc = "ok" => index' = "valid"]_vars

\* A chunk that the exact query found and the approximate one did not has a cause:
\* the scan of the index did not come to it, missed or no longer active; or a chunk
\* stands in its place that was not active yet when the exact query ran, or one
\* that is equally near.  Only a missed chunk is the index's doing: "only the
\* access path differs" (hnsw.py:166) does not hold of the others, and a recall
\* below 1 cannot tell them apart.
LossHasACause ==
    \A o \in Operators : cli[o].pc \in {"exact", "report"} =>
      \A lost \in cli[o].exact \ cli[o].approximate :
        \/ lost \notin cli[o].reached
        \/ \E found \in cli[o].approximate \ cli[o].exact :
             \/ found \notin cli[o].scope
             \/ ~Nearer(cli[o].distance, lost, found) /\ ~Nearer(cli[o].distance, found, lost)

=============================================================================
