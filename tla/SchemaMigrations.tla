-------------------------- MODULE SchemaMigrations --------------------------
(***************************************************************************)
(* The sixteen Alembic revisions, walked up and down one committed          *)
(* transaction at a time, over the rows they have to carry: the chunks of   *)
(* documents, their embeddings and the versions they belong to.  Each       *)
(* revision is the sequence of operations its upgrade() and downgrade()     *)
(* execute; the database refuses an operation that names something missing, *)
(* names something twice, drops a table another one refers to, or leaves    *)
(* rows that break a constraint, and then the whole transaction is undone.  *)
(* An upgrade over several revisions is a run of these steps: a crash in    *)
(* the middle of one transaction leaves the state before it.                *)
(***************************************************************************)
EXTENDS OrmSchema, Integers, Sequences, FiniteSets, SequencesExt

CONSTANTS
    Docs,        \* the documents
    MaxChunks    \* chunks made in a behaviour: bounds the counter "made"

ASSUME MaxChunksAssumption == MaxChunks \in Nat \ {0}

VARIABLES
    rev,      \* the revision the database is at, 0 before the first one
    db,       \* schema and rows; db.width: the length alembic_version holds
    made,     \* chunks made so far, so that identities are never reused
    refused   \* a migration ended in an error (and changed nothing)

migrationVars == <<rev, db, made, refused>>

Revisions ==
    << "0001_create_knowledge_bases",
       "0002_create_documents",
       "0003_create_document_chunks",
       "0004_create_chunk_embeddings",
       "0005_add_chunk_search_vector",
       "0006_create_retrieval_traces",
       "0007_create_evaluation_datasets",
       "0008_create_evaluation_runs",
       "0009_create_evaluation_baselines",
       "0010_create_evaluation_baseline_promotions",
       "0011_version_document_chunks",
       "0012_stage_chunk_processing",
       "0013_pdf_page_provenance",
       "0014_retrieval_metadata_filters",
       "0015_retrieval_reranking",
       "0016_retrieval_stage_timings" >>

HeadRevision == Len(Revisions)

(***************************************************************************)
(* The operations of alembic.op.  MaxIdentifier is PostgreSQL's limit.      *)
(***************************************************************************)
MaxIdentifier == 63

CreateTable(t, columns, constraints, references) ==
    [op |-> "create", target |-> t, adds |-> Table(t, columns, constraints, {}, references),
     drops |-> {}, needs |-> {<<r, "table", r>> : r \in references}]

DropTable(t) ==
    [op |-> "drop_table", target |-> t, adds |-> {}, drops |-> {<<t, "table", t>>}, needs |-> {}]

Adds(t, objects, needs) ==
    [op |-> "create", target |-> t, adds |-> objects, drops |-> {},
     needs |-> needs \cup {<<t, "table", t>>}]

Drops(t, objects) ==
    [op |-> "drop", target |-> t, adds |-> {}, drops |-> objects, needs |-> {}]

AddColumn(t, c)          == Adds(t, {<<t, "column", c>>}, {})
DropColumn(t, c)         == Drops(t, {<<t, "column", c>>})
AddConstraint(t, c)      == Adds(t, {<<t, "constraint", c>>}, {})
DropConstraint(t, c)     == Drops(t, {<<t, "constraint", c>>})
CreateIndex(t, i)        == Adds(t, {<<t, "index", i>>}, {})
DropIndex(t, i)          == Drops(t, {<<t, "index", i>>})
AddForeignKey(t, c, r)   ==
    Adds(t, {<<t, "constraint", c>>, <<t, "references", r>>}, {<<r, "table", r>>})
DropForeignKey(t, c, r)  == Drops(t, {<<t, "constraint", c>>, <<t, "references", r>>})

Statement(s) == [op |-> s, target |-> "", adds |-> {}, drops |-> {}, needs |-> {}]
WidenVersionColumn(n) ==
    [op |-> "widen", target |-> "", adds |-> {}, drops |-> {}, needs |-> {}, to |-> n]

(***************************************************************************)
(* The revisions.                                                          *)
(***************************************************************************)
Upgrade_0001 ==
    << CreateTable("knowledge_bases",
          {"id", "name", "created_at"}, {}, {}) >>

Downgrade_0001 ==
    << DropTable("knowledge_bases") >>

Upgrade_0002 ==
    << CreateTable("documents",
          {"id", "knowledge_base_id", "filename", "media_type", "size_bytes", "created_at"},
          {"ck_documents_size_bytes_bounds", "ck_documents_supported_media_type"},
          {"knowledge_bases"}),
       CreateIndex("documents", "ix_documents_knowledge_base_created_id") >>

Downgrade_0002 ==
    << DropIndex("documents", "ix_documents_knowledge_base_created_id"),
       DropTable("documents") >>

Upgrade_0003 ==
    << CreateTable("document_chunks",
          {"id", "document_id", "chunk_index", "text", "start_offset", "end_offset"},
          {"ck_document_chunks_index_bounds", "ck_document_chunks_offset_order",
            "ck_document_chunks_offset_span", "ck_document_chunks_text_length",
            "uq_document_chunks_document_index"}, {"documents"}),
       CreateIndex("document_chunks", "ix_document_chunks_document_offsets") >>

Downgrade_0003 ==
    << DropIndex("document_chunks", "ix_document_chunks_document_offsets"),
       DropTable("document_chunks") >>

Upgrade_0004 ==
    << CreateTable("chunk_embeddings",
          {"id", "chunk_id", "provider", "model", "dimensions", "embedding", "created_at"},
          {"ck_chunk_embeddings_provider_not_empty", "ck_chunk_embeddings_model_not_empty",
            "ck_chunk_embeddings_dimension_bounds", "ck_chunk_embeddings_vector_dimensions",
            "uq_chunk_embeddings_chunk_space"}, {"document_chunks"}),
       CreateIndex("chunk_embeddings", "ix_chunk_embeddings_space_chunk") >>

Downgrade_0004 ==
    << DropIndex("chunk_embeddings", "ix_chunk_embeddings_space_chunk"),
       DropTable("chunk_embeddings") >>

Upgrade_0005 ==
    << AddColumn("document_chunks", "search_vector"),
       CreateIndex("document_chunks", "ix_document_chunks_search_vector") >>

Downgrade_0005 ==
    << DropIndex("document_chunks", "ix_document_chunks_search_vector"),
       DropColumn("document_chunks", "search_vector") >>

Upgrade_0006 ==
    << CreateTable("retrieval_traces",
          {"id", "knowledge_base_id", "mode", "query", "top_k", "candidate_k", "rrf_k",
            "duration_ms", "embedding_provider", "embedding_model", "embedding_dimensions",
            "created_at"}, {"ck_retrieval_traces_mode", "ck_retrieval_traces_query_length",
            "ck_retrieval_traces_top_k", "ck_retrieval_traces_duration",
            "ck_retrieval_traces_hybrid_config", "ck_retrieval_traces_embedding_space"},
          {"knowledge_bases"}),
       CreateIndex("retrieval_traces", "ix_retrieval_traces_knowledge_base_created_id"),
       CreateTable("retrieval_trace_results",
          {"id", "trace_id", "rank", "chunk_id", "document_id", "chunk_index", "text",
            "start_offset", "end_offset", "cosine_similarity", "keyword_score", "rrf_score",
            "vector_rank", "keyword_rank"},
          {"ck_retrieval_trace_results_rank", "ck_retrieval_trace_results_chunk_index",
            "ck_retrieval_trace_results_offsets", "ck_retrieval_trace_results_text",
            "uq_retrieval_trace_results_trace_rank", "uq_retrieval_trace_results_trace_chunk"},
          {"retrieval_traces"}),
       CreateIndex("retrieval_trace_results", "ix_retrieval_trace_results_trace_rank") >>

Downgrade_0006 ==
    << DropIndex("retrieval_trace_results", "ix_retrieval_trace_results_trace_rank"),
       DropTable("retrieval_trace_results"),
       DropIndex("retrieval_traces", "ix_retrieval_traces_knowledge_base_created_id"),
       DropTable("retrieval_traces") >>

Upgrade_0007 ==
    << CreateTable("evaluation_datasets",
          {"id", "knowledge_base_id", "name", "created_at"}, {"ck_evaluation_datasets_name"},
          {"knowledge_bases"}),
       CreateIndex("evaluation_datasets", "ix_evaluation_datasets_knowledge_base_created_id"),
       CreateTable("evaluation_cases",
          {"id", "dataset_id", "query", "created_at"}, {"ck_evaluation_cases_query"},
          {"evaluation_datasets"}),
       CreateIndex("evaluation_cases", "ix_evaluation_cases_dataset_created_id"),
       CreateTable("evaluation_judgments",
          {"id", "case_id", "chunk_id", "relevance"},
          {"ck_evaluation_judgments_relevance", "uq_evaluation_judgments_case_chunk"},
          {"evaluation_cases"}),
       CreateIndex("evaluation_judgments", "ix_evaluation_judgments_case_id") >>

Downgrade_0007 ==
    << DropIndex("evaluation_judgments", "ix_evaluation_judgments_case_id"),
       DropTable("evaluation_judgments"),
       DropIndex("evaluation_cases", "ix_evaluation_cases_dataset_created_id"),
       DropTable("evaluation_cases"),
       DropIndex("evaluation_datasets", "ix_evaluation_datasets_knowledge_base_created_id"),
       DropTable("evaluation_datasets") >>

Upgrade_0008 ==
    << CreateTable("evaluation_runs",
          {"id", "knowledge_base_id", "dataset_id", "mode", "top_k", "candidate_k", "rrf_k",
            "embedding_provider", "embedding_model", "embedding_dimensions", "case_count",
            "total_duration_ms", "mean_duration_ms", "judgment_coverage_case_count",
            "mean_judgment_coverage_at_k", "mean_precision_at_k", "mean_recall_at_k", "mrr_at_k",
            "mean_ndcg_at_k", "created_at"},
          {"ck_evaluation_runs_mode", "ck_evaluation_runs_top_k", "ck_evaluation_runs_case_count",
            "ck_evaluation_runs_coverage_case_count", "ck_evaluation_runs_duration",
            "ck_evaluation_runs_mean_coverage", "ck_evaluation_runs_metrics",
            "ck_evaluation_runs_hybrid_config", "ck_evaluation_runs_embedding_config"},
          {"knowledge_bases"}),
       CreateIndex("evaluation_runs", "ix_evaluation_runs_kb_dataset_created_id"),
       CreateTable("evaluation_run_cases",
          {"id", "run_id", "case_id", "position", "query", "duration_ms", "judged_count",
            "relevant_count", "retrieved_count_at_k", "judged_retrieved_at_k",
            "relevant_retrieved_at_k", "judgment_coverage_at_k", "precision_at_k", "recall_at_k",
            "reciprocal_rank_at_k", "ndcg_at_k"},
          {"ck_evaluation_run_cases_position", "ck_evaluation_run_cases_query",
            "ck_evaluation_run_cases_duration", "ck_evaluation_run_cases_judgments",
            "ck_evaluation_run_cases_retrieval_counts", "ck_evaluation_run_cases_coverage",
            "ck_evaluation_run_cases_metrics", "uq_evaluation_run_cases_run_position",
            "uq_evaluation_run_cases_run_case"}, {"evaluation_runs"}),
       CreateIndex("evaluation_run_cases", "ix_evaluation_run_cases_run_position") >>

Downgrade_0008 ==
    << DropIndex("evaluation_run_cases", "ix_evaluation_run_cases_run_position"),
       DropTable("evaluation_run_cases"),
       DropIndex("evaluation_runs", "ix_evaluation_runs_kb_dataset_created_id"),
       DropTable("evaluation_runs") >>

Upgrade_0009 ==
    << CreateTable("evaluation_baselines",
          {"id", "knowledge_base_id", "dataset_id", "run_id", "configuration_fingerprint", "mode",
            "top_k", "candidate_k", "rrf_k", "embedding_provider", "embedding_model",
            "embedding_dimensions", "promoted_at"},
          {"ck_evaluation_baselines_mode", "ck_evaluation_baselines_top_k",
            "ck_evaluation_baselines_hybrid_config", "ck_evaluation_baselines_embedding_config",
            "uq_evaluation_baselines_dataset_config"},
          {"knowledge_bases", "evaluation_datasets", "evaluation_runs"}),
       CreateIndex("evaluation_baselines", "ix_evaluation_baselines_kb_dataset_promoted_id") >>

Downgrade_0009 ==
    << DropIndex("evaluation_baselines", "ix_evaluation_baselines_kb_dataset_promoted_id"),
       DropTable("evaluation_baselines") >>

Upgrade_0010 ==
    << WidenVersionColumn(64),
       CreateTable("evaluation_baseline_promotions",
          {"id", "baseline_id", "knowledge_base_id", "dataset_id", "run_id",
            "configuration_fingerprint", "mode", "top_k", "candidate_k", "rrf_k",
            "embedding_provider", "embedding_model", "embedding_dimensions", "promoted_at"},
          {"ck_evaluation_baseline_promotions_mode", "ck_evaluation_baseline_promotions_top_k",
            "ck_evaluation_baseline_promotions_hybrid_config",
            "ck_evaluation_baseline_promotions_embedding_config"},
          {"knowledge_bases", "evaluation_datasets"}),
       CreateIndex("evaluation_baseline_promotions",
          "ix_evaluation_baseline_promotions_kb_dataset_promoted_id"),
       CreateIndex("evaluation_baseline_promotions",
          "ix_evaluation_baseline_promotions_dataset_config_promoted_id") >>

Downgrade_0010 ==
    << DropIndex("evaluation_baseline_promotions",
          "ix_evaluation_baseline_promotions_dataset_config_promoted_id"),
       DropIndex("evaluation_baseline_promotions",
          "ix_evaluation_baseline_promotions_kb_dataset_promoted_id"),
       DropTable("evaluation_baseline_promotions") >>

\* Documents older than versions: their chunks become version one, and active.
BackfillReversed == << Statement("activate_version_one"), Statement("insert_versions") >>
Backfill         == << Statement("insert_versions"), Statement("activate_version_one") >>

Upgrade_0011 ==
    << AddColumn("documents", "active_chunk_version"),
       AddConstraint("documents", "ck_documents_active_chunk_version"),
       CreateTable("document_chunk_versions",
          {"document_id", "version", "chunk_count", "created_at"},
          {"ck_chunk_versions_version", "ck_chunk_versions_chunk_count"}, {"documents"}),
       Backfill[1],
       Backfill[2],
       AddColumn("document_chunks", "chunk_version"),
       AddConstraint("document_chunks", "ck_document_chunks_version"),
       DropConstraint("document_chunks", "uq_document_chunks_document_index"),
       AddConstraint("document_chunks", "uq_document_chunks_document_version_index"),
       AddForeignKey("document_chunks", "fk_document_chunks_version", "document_chunk_versions") >>

\* "Intentionally lossy": one set of chunks per document can remain.
KeepHistory    == Statement("keep_every_chunk")
DiscardHistory == Statement("delete_inactive_chunks")

Downgrade_0011 ==
    << DiscardHistory,
       DropForeignKey("document_chunks", "fk_document_chunks_version", "document_chunk_versions"),
       DropConstraint("document_chunks", "uq_document_chunks_document_version_index"),
       DropConstraint("document_chunks", "ck_document_chunks_version"),
       DropColumn("document_chunks", "chunk_version"),
       AddConstraint("document_chunks", "uq_document_chunks_document_index"),
       DropTable("document_chunk_versions"),
       DropConstraint("documents", "ck_documents_active_chunk_version"),
       DropColumn("documents", "active_chunk_version") >>

Upgrade_0012 ==
    << AddColumn("document_chunk_versions", "status"),
       AddColumn("document_chunk_versions", "attempt_id"),
       AddColumn("document_chunk_versions", "lease_expires_at"),
       AddColumn("document_chunk_versions", "attempt_count"),
       AddConstraint("document_chunk_versions", "ck_chunk_versions_status"),
       AddConstraint("document_chunk_versions", "ck_chunk_versions_attempt_count"),
       AddConstraint("document_chunk_versions", "ck_chunk_versions_attempt_lease"),
       CreateIndex("document_chunk_versions", "uq_chunk_versions_processing_document") >>

Downgrade_0012 ==
    << DropIndex("document_chunk_versions", "uq_chunk_versions_processing_document"),
       DropConstraint("document_chunk_versions", "ck_chunk_versions_attempt_lease"),
       DropConstraint("document_chunk_versions", "ck_chunk_versions_attempt_count"),
       DropConstraint("document_chunk_versions", "ck_chunk_versions_status"),
       DropColumn("document_chunk_versions", "attempt_count"),
       DropColumn("document_chunk_versions", "lease_expires_at"),
       DropColumn("document_chunk_versions", "attempt_id"),
       DropColumn("document_chunk_versions", "status") >>

Upgrade_0013 ==
    << AddColumn("document_chunks", "page_start"),
       AddColumn("document_chunks", "page_end"),
       AddColumn("document_chunks", "ocr_used"),
       AddConstraint("document_chunks", "ck_document_chunks_pdf_page_range"),
       AddConstraint("document_chunks", "ck_document_chunks_ocr_has_page") >>

Downgrade_0013 ==
    << DropConstraint("document_chunks", "ck_document_chunks_ocr_has_page"),
       DropConstraint("document_chunks", "ck_document_chunks_pdf_page_range"),
       DropColumn("document_chunks", "ocr_used"),
       DropColumn("document_chunks", "page_end"),
       DropColumn("document_chunks", "page_start") >>

Upgrade_0014_on_results ==
    << AddColumn("retrieval_trace_results", "metadata_filters") >>

Upgrade_0014 ==
    << AddColumn("retrieval_traces", "metadata_filters") >>

Downgrade_0014 ==
    << DropColumn("retrieval_traces", "metadata_filters") >>

Upgrade_0015 ==
    << AddColumn("retrieval_traces", "reranker_model"),
       AddColumn("retrieval_trace_results", "candidate_rank"),
       AddColumn("retrieval_trace_results", "rerank_rank"),
       AddColumn("retrieval_trace_results", "rerank_score"),
       AddConstraint("retrieval_trace_results", "ck_retrieval_trace_results_rerank") >>

Downgrade_0015 ==
    << DropConstraint("retrieval_trace_results", "ck_retrieval_trace_results_rerank"),
       DropColumn("retrieval_trace_results", "rerank_score"),
       DropColumn("retrieval_trace_results", "rerank_rank"),
       DropColumn("retrieval_trace_results", "candidate_rank"),
       DropColumn("retrieval_traces", "reranker_model") >>

Upgrade_0016 ==
    << AddColumn("retrieval_traces", "stage_timings_ms") >>

Downgrade_0016 ==
    << DropColumn("retrieval_traces", "stage_timings_ms") >>

UpgradeSteps ==
    << Upgrade_0001, Upgrade_0002, Upgrade_0003, Upgrade_0004, Upgrade_0005, Upgrade_0006,
       Upgrade_0007, Upgrade_0008, Upgrade_0009, Upgrade_0010, Upgrade_0011, Upgrade_0012,
       Upgrade_0013, Upgrade_0014, Upgrade_0015, Upgrade_0016 >>

DowngradeSteps ==
    << Downgrade_0001, Downgrade_0002, Downgrade_0003, Downgrade_0004, Downgrade_0005, Downgrade_0006,
       Downgrade_0007, Downgrade_0008, Downgrade_0009, Downgrade_0010, Downgrade_0011, Downgrade_0012,
       Downgrade_0013, Downgrade_0014, Downgrade_0015, Downgrade_0016 >>

\* The names themselves, which are literals: what is added fits PostgreSQL's limit,
\* and the revisions before 0010 fit the column Alembic made.  That every name finds
\* its column wide enough is for the transactions below.
ASSUME ObjectNamesFit ==
    \A r \in 1 .. HeadRevision : \A steps \in {UpgradeSteps[r], DowngradeSteps[r]} :
        \A i \in DOMAIN steps : \A o \in steps[i].adds : Len(o[3]) <= MaxIdentifier

ASSUME RevisionNamesFit ==
    \A r \in 1 .. HeadRevision : Len(Revisions[r]) \in 1 .. (IF r < 10 THEN 32 ELSE 64)

(***************************************************************************)
(* What the database does with an operation.                               *)
(***************************************************************************)
HasTable(d, t)     == <<t, "table", t>> \in d.schema
HasColumn(d, t, c) == <<t, "column", c>> \in d.schema
Constrained(d, t, c) == {<<t, "constraint", c>>, <<t, "index", c>>} \cap d.schema # {}

Ids(chunks) == {c.id : c \in chunks}

\* Rows that go with their table, rows that go with the row they refer to (every
\* foreign key cascades), and values that a column loses when it is dropped or
\* takes by default when it is added.
Settled(d) ==
    LET chunks == IF ~HasTable(d, "document_chunks") THEN {}
                  ELSE IF HasColumn(d, "document_chunks", "chunk_version") THEN d.chunks
                  ELSE {[c EXCEPT !.version = 1] : c \in d.chunks}
    IN  [d EXCEPT
          !.chunks   = chunks,
          !.embedded = IF HasTable(d, "chunk_embeddings") THEN @ \cap Ids(chunks) ELSE {},
          !.versions = IF ~HasTable(d, "document_chunk_versions") THEN {}
                       ELSE IF HasColumn(d, "document_chunk_versions", "status") THEN @
                       ELSE {[v EXCEPT !.status = "ready"] : v \in @},
          !.active   = IF HasColumn(d, "documents", "active_chunk_version") THEN @
                       ELSE [x \in Docs |-> 0]]

\* The constraints that relate rows to each other, each while it exists.
RowsSatisfy(d) ==
    /\ Constrained(d, "document_chunks", "uq_document_chunks_document_index")
         => \A b, c \in d.chunks : b.doc = c.doc /\ b.index = c.index => b = c
    /\ Constrained(d, "document_chunks", "uq_document_chunks_document_version_index")
         => \A b, c \in d.chunks :
               b.doc = c.doc /\ b.version = c.version /\ b.index = c.index => b = c
    /\ Constrained(d, "document_chunks", "fk_document_chunks_version")
         => \A c \in d.chunks : \E v \in d.versions : v.doc = c.doc /\ v.version = c.version
    /\ Constrained(d, "document_chunk_versions", "uq_chunk_versions_processing_document")
         => \A v, w \in d.versions :
               v.doc = w.doc /\ v.status = "processing" /\ w.status = "processing" => v = w

Allowed(d, op) ==
    /\ op.needs \subseteq d.schema
    /\ op.drops \subseteq d.schema
    /\ op.adds \cap d.schema = {}
    /\ \A o \in op.adds : Len(o[3]) <= MaxIdentifier
    /\ op.op = "drop_table" =>
          ~\E o \in d.schema : o[2] = "references" /\ o[3] = op.target /\ o[1] # op.target

EffectActivatingAll(d, op) ==
    CASE op.op = "drop_table" -> [d EXCEPT !.schema = {o \in @ : o[1] # op.target}]
      [] op.op = "insert_versions" ->
           [d EXCEPT !.versions =
              @ \cup {[doc |-> c.doc, version |-> 1, status |-> "ready"] : c \in d.chunks}]
      [] op.op = "activate_version_one" -> [d EXCEPT !.active = [x \in Docs |-> 1]]
      [] OTHER -> [d EXCEPT !.schema = (@ \cup op.adds) \ op.drops, !.width = 64]

Effect(d, op) ==
    CASE op.op = "drop_table" -> [d EXCEPT !.schema = {o \in @ : o[1] # op.target}]
      [] op.op = "insert_versions" ->
           [d EXCEPT !.versions =
              @ \cup {[doc |-> c.doc, version |-> 1, status |-> "ready"] : c \in d.chunks}]
      [] op.op = "activate_version_one" ->
           [d EXCEPT !.active =
              [x \in Docs |-> IF \E v \in d.versions : v.doc = x THEN 1 ELSE @[x]]]
      [] op.op = "delete_inactive_chunks" ->
           [d EXCEPT !.chunks = {c \in @ : c.version = d.active[c.doc]}]
      [] op.op = "widen" -> [d EXCEPT !.width = op.to]
      [] OTHER -> [d EXCEPT !.schema = (@ \cup op.adds) \ op.drops]

Execute(d, op) ==
    LET after == Settled(Effect(d, op))
    IN  IF d.ok /\ Allowed(d, op) /\ RowsSatisfy(after) THEN after ELSE [d EXCEPT !.ok = FALSE]

\* The database before the operations of a revision and after each of them.
Execution(d, steps) ==
    LET after[n \in 0 .. Len(steps)] ==
          IF n = 0 THEN d ELSE Execute(after[n - 1], steps[n])
    IN  after

\* The chunks a search can return: embedded, and of the active version once
\* documents have one.
Served(d) ==
    IF HasColumn(d, "documents", "active_chunk_version")
      THEN {c.id : c \in {x \in d.chunks : x.version = d.active[x.doc]}} \cap d.embedded
      ELSE d.embedded

-----------------------------------------------------------------------------
Init ==
    /\ rev = 0
    /\ db = [schema |-> {}, width |-> 32, chunks |-> {}, embedded |-> {}, versions |-> {},
             active |-> [d \in Docs |-> 0], ok |-> TRUE]
    /\ made = 0
    /\ refused = FALSE

\* One transaction of Alembic: the operations, then the name of the revision
\* reached is written to alembic_version.  An error undoes all of it.
Migrate(steps, target) ==
    LET after == Execution(db, steps)[Len(steps)]
        fits  == target > 0 => Len(Revisions[target]) <= after.width
    IN  /\ IF after.ok /\ fits
             THEN db' = after /\ rev' = target /\ UNCHANGED refused
             ELSE refused' = TRUE /\ UNCHANGED <<db, rev>>
        /\ UNCHANGED made

Upgrade ==
    /\ rev < HeadRevision
    /\ Migrate(UpgradeSteps[rev + 1], rev + 1)

Downgrade ==
    /\ rev > 0
    /\ Migrate(DowngradeSteps[rev], rev - 1)

(***************************************************************************)
(* The rows.  The first releases kept one set of chunks per document; the  *)
(* present one stages a version, embeds it, and makes it the active one.   *)
(***************************************************************************)
NewChunks(d, v, n) ==
    {[id |-> made + i, doc |-> d, version |-> v, index |-> i] : i \in 1..n}

\* External: an old release processes a document, as the workflow's seed does.
LegacyProcess(d, n) ==
    /\ rev \in 3..10 /\ made + n <= MaxChunks
    /\ ~\E c \in db.chunks : c.doc = d
    /\ db' = [db EXCEPT !.chunks = @ \cup NewChunks(d, 1, n)]
    /\ made' = made + n
    /\ UNCHANGED <<rev, refused>>

LegacyEmbed(d) ==
    /\ rev \in 4..10
    /\ db' = [db EXCEPT !.embedded = @ \cup Ids({c \in db.chunks : c.doc = d})]
    /\ UNCHANGED <<rev, made, refused>>

VersionsOf(d) == {v \in db.versions : v.doc = d}

StageVersion(d, n) ==
    LET next == 1 + Cardinality(VersionsOf(d))
    IN  /\ rev = HeadRevision /\ made + n <= MaxChunks
        /\ ~\E v \in VersionsOf(d) : v.status = "processing"
        /\ db' = [db EXCEPT
                    !.versions = @ \cup {[doc |-> d, version |-> next, status |-> "processing"]},
                    !.chunks   = @ \cup NewChunks(d, next, n)]
        /\ made' = made + n
        /\ UNCHANGED <<rev, refused>>

\* A failed attempt is taken up again when the chunks are the same.
RetryVersion(d) ==
    /\ rev = HeadRevision
    /\ ~\E v \in VersionsOf(d) : v.status = "processing"
    /\ \E v \in VersionsOf(d) :
          /\ v.version = Cardinality(VersionsOf(d)) /\ v.status = "failed"
          /\ db' = [db EXCEPT !.versions = (@ \ {v}) \cup {[v EXCEPT !.status = "processing"]}]
    /\ UNCHANGED <<rev, made, refused>>

\* The last batch of embeddings and the promotion of the version.
PromoteVersion(d) ==
    /\ rev = HeadRevision
    /\ \E v \in VersionsOf(d) :
          /\ v.status = "processing"
          /\ db' = [db EXCEPT
                !.versions = (@ \ {v}) \cup {[v EXCEPT !.status = "ready"]},
                !.embedded =
                   @ \cup Ids({c \in db.chunks : c.doc = d /\ c.version = v.version}),
                !.active[d] = v.version]
    /\ UNCHANGED <<rev, made, refused>>

FailVersion(d) ==
    /\ rev = HeadRevision
    /\ \E v \in VersionsOf(d) :
          /\ v.status = "processing"
          /\ db' = [db EXCEPT !.versions = (@ \ {v}) \cup {[v EXCEPT !.status = "failed"]}]
    /\ UNCHANGED <<rev, made, refused>>

RowStep ==
    \E d \in Docs :
        \/ \E n \in 1..2 : LegacyProcess(d, n) \/ StageVersion(d, n)
        \/ LegacyEmbed(d)
        \/ RetryVersion(d)
        \/ PromoteVersion(d)
        \/ FailVersion(d)

-----------------------------------------------------------------------------
\* No migration is ever refused, whatever rows it meets and however often the
\* database went down and up again.
NeverRefused == ~refused

\* At the last revision the database is the one the persistence classes declare,
\* also after any number of downgrades and upgrades: one that leaves something
\* behind, or takes too much, is refused or shows here.
HeadIsDeclared == rev = HeadRevision => db.schema = TargetMetadata

\* A document's active version is one whose row says it is ready: what
\* processing compares new chunks with, and what migration 0011 has to invent
\* for documents older than versions.
ActiveIsReady ==
    rev >= 12 =>
        \A d \in Docs : db.active[d] > 0 =>
            [doc |-> d, version |-> db.active[d], status |-> "ready"] \in db.versions

\* A migration never changes what searches return, as long as the embeddings
\* table exists on both sides of it.
ServedSurvives ==
    [][rev' # rev /\ rev >= 4 /\ rev' >= 4 => Served(db') = Served(db)]_migrationVars

=============================================================================
