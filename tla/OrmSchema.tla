------------------------------ MODULE OrmSchema ------------------------------
(***************************************************************************)
(* The database schema the backend's persistence classes declare, which is *)
(* the schema its queries assume.  A schema is a set of objects: tables,   *)
(* columns, named constraints, indexes, and the references of foreign      *)
(* keys.  The types of the columns and the texts of the constraints are    *)
(* left out: an object stands for its definition.                          *)
(***************************************************************************)

\* A table with its columns, its constraints, its indexes and the tables its
\* foreign keys refer to.
Table(t, columns, constraints, indexes, references) ==
    {<<t, "table", t>>}
    \cup {<<t, "column", c>> : c \in columns}
    \cup {<<t, "constraint", c>> : c \in constraints}
    \cup {<<t, "index", i>> : i \in indexes}
    \cup {<<t, "references", r>> : r \in references}

KnowledgeBaseRecord ==
    Table("knowledge_bases",
        {"id", "name", "created_at"}, {}, {}, {})

DocumentRecord ==
    Table("documents",
        {"id", "knowledge_base_id", "filename", "media_type", "size_bytes",
          "active_chunk_version", "created_at"},
        {"ck_documents_size_bytes_bounds", "ck_documents_supported_media_type",
          "ck_documents_active_chunk_version"}, {"ix_documents_knowledge_base_created_id"},
        {"knowledge_bases"})

DocumentChunkVersionRecord ==
    Table("document_chunk_versions",
        {"document_id", "version", "chunk_count", "created_at", "status", "attempt_id",
          "lease_expires_at", "attempt_count"},
        {"ck_chunk_versions_version", "ck_chunk_versions_chunk_count", "ck_chunk_versions_status",
          "ck_chunk_versions_attempt_count", "ck_chunk_versions_attempt_lease"},
        {"uq_chunk_versions_processing_document"}, {"documents"})

DocumentChunkRecord ==
    Table("document_chunks",
        {"id", "document_id", "chunk_index", "chunk_version", "text", "search_vector",
          "start_offset", "end_offset", "page_start", "page_end", "ocr_used"},
        {"ck_document_chunks_index_bounds", "ck_document_chunks_offset_order",
          "ck_document_chunks_offset_span", "ck_document_chunks_text_length",
          "uq_document_chunks_document_version_index", "ck_document_chunks_version",
          "ck_document_chunks_pdf_page_range", "ck_document_chunks_ocr_has_page",
          "fk_document_chunks_version"},
        {"ix_document_chunks_document_offsets", "ix_document_chunks_search_vector"},
        {"document_chunk_versions", "documents"})

ChunkEmbeddingRecord ==
    Table("chunk_embeddings",
        {"id", "chunk_id", "provider", "model", "dimensions", "embedding", "created_at"},
        {"ck_chunk_embeddings_provider_not_empty", "ck_chunk_embeddings_model_not_empty",
          "ck_chunk_embeddings_dimension_bounds", "ck_chunk_embeddings_vector_dimensions",
          "uq_chunk_embeddings_chunk_space"}, {"ix_chunk_embeddings_space_chunk"},
        {"document_chunks"})

RetrievalTraceRecord ==
    Table("retrieval_traces",
        {"id", "knowledge_base_id", "mode", "query", "top_k", "candidate_k", "rrf_k",
          "duration_ms", "embedding_provider", "embedding_model", "embedding_dimensions",
          "created_at", "metadata_filters", "reranker_model", "stage_timings_ms"},
        {"ck_retrieval_traces_mode", "ck_retrieval_traces_query_length",
          "ck_retrieval_traces_top_k", "ck_retrieval_traces_duration",
          "ck_retrieval_traces_hybrid_config", "ck_retrieval_traces_embedding_space"},
        {"ix_retrieval_traces_knowledge_base_created_id"}, {"knowledge_bases"})

RetrievalTraceResultRecord ==
    Table("retrieval_trace_results",
        {"id", "trace_id", "rank", "chunk_id", "document_id", "chunk_index", "text",
          "start_offset", "end_offset", "cosine_similarity", "keyword_score", "rrf_score",
          "vector_rank", "keyword_rank", "candidate_rank", "rerank_rank", "rerank_score"},
        {"ck_retrieval_trace_results_rank", "ck_retrieval_trace_results_chunk_index",
          "ck_retrieval_trace_results_offsets", "ck_retrieval_trace_results_text",
          "ck_retrieval_trace_results_rerank", "uq_retrieval_trace_results_trace_rank",
          "uq_retrieval_trace_results_trace_chunk"}, {"ix_retrieval_trace_results_trace_rank"},
        {"retrieval_traces"})

EvaluationDatasetRecord ==
    Table("evaluation_datasets",
        {"id", "knowledge_base_id", "name", "created_at"}, {"ck_evaluation_datasets_name"},
        {"ix_evaluation_datasets_knowledge_base_created_id"}, {"knowledge_bases"})

EvaluationCaseRecord ==
    Table("evaluation_cases",
        {"id", "dataset_id", "query", "created_at"}, {"ck_evaluation_cases_query"},
        {"ix_evaluation_cases_dataset_created_id"}, {"evaluation_datasets"})

EvaluationJudgmentRecord ==
    Table("evaluation_judgments",
        {"id", "case_id", "chunk_id", "relevance"},
        {"ck_evaluation_judgments_relevance", "uq_evaluation_judgments_case_chunk"},
        {"ix_evaluation_judgments_case_id"}, {"evaluation_cases"})

EvaluationRunRecord ==
    Table("evaluation_runs",
        {"id", "knowledge_base_id", "dataset_id", "mode", "top_k", "candidate_k", "rrf_k",
          "embedding_provider", "embedding_model", "embedding_dimensions", "case_count",
          "total_duration_ms", "mean_duration_ms", "judgment_coverage_case_count",
          "mean_judgment_coverage_at_k", "mean_precision_at_k", "mean_recall_at_k", "mrr_at_k",
          "mean_ndcg_at_k", "created_at"},
        {"ck_evaluation_runs_mode", "ck_evaluation_runs_top_k", "ck_evaluation_runs_case_count",
          "ck_evaluation_runs_coverage_case_count", "ck_evaluation_runs_duration",
          "ck_evaluation_runs_mean_coverage", "ck_evaluation_runs_metrics",
          "ck_evaluation_runs_hybrid_config", "ck_evaluation_runs_embedding_config"},
        {"ix_evaluation_runs_kb_dataset_created_id"}, {"knowledge_bases"})

EvaluationRunCaseRecord ==
    Table("evaluation_run_cases",
        {"id", "run_id", "case_id", "position", "query", "duration_ms", "judged_count",
          "relevant_count", "retrieved_count_at_k", "judged_retrieved_at_k",
          "relevant_retrieved_at_k", "judgment_coverage_at_k", "precision_at_k", "recall_at_k",
          "reciprocal_rank_at_k", "ndcg_at_k"},
        {"ck_evaluation_run_cases_position", "ck_evaluation_run_cases_query",
          "ck_evaluation_run_cases_duration", "ck_evaluation_run_cases_judgments",
          "ck_evaluation_run_cases_retrieval_counts", "ck_evaluation_run_cases_coverage",
          "ck_evaluation_run_cases_metrics", "uq_evaluation_run_cases_run_position",
          "uq_evaluation_run_cases_run_case"}, {"ix_evaluation_run_cases_run_position"},
        {"evaluation_runs"})

EvaluationBaselineRecord ==
    Table("evaluation_baselines",
        {"id", "knowledge_base_id", "dataset_id", "run_id", "configuration_fingerprint", "mode",
          "top_k", "candidate_k", "rrf_k", "embedding_provider", "embedding_model",
          "embedding_dimensions", "promoted_at"},
        {"ck_evaluation_baselines_mode", "ck_evaluation_baselines_top_k",
          "ck_evaluation_baselines_hybrid_config", "ck_evaluation_baselines_embedding_config",
          "uq_evaluation_baselines_dataset_config"},
        {"ix_evaluation_baselines_kb_dataset_promoted_id"},
        {"knowledge_bases", "evaluation_datasets", "evaluation_runs"})

EvaluationBaselinePromotionRecord ==
    Table("evaluation_baseline_promotions",
        {"id", "baseline_id", "knowledge_base_id", "dataset_id", "run_id",
          "configuration_fingerprint", "mode", "top_k", "candidate_k", "rrf_k",
          "embedding_provider", "embedding_model", "embedding_dimensions", "promoted_at"},
        {"ck_evaluation_baseline_promotions_mode", "ck_evaluation_baseline_promotions_top_k",
          "ck_evaluation_baseline_promotions_hybrid_config",
          "ck_evaluation_baseline_promotions_embedding_config"},
        {"ix_evaluation_baseline_promotions_kb_dataset_promoted_id",
          "ix_evaluation_baseline_promotions_dataset_config_promoted_id"},
        {"knowledge_bases", "evaluation_datasets"})

\* What env.py hands to Alembic as the target of the migrations: the tables of
\* every persistence module it imports.
TargetMetadata ==
         KnowledgeBaseRecord
    \cup DocumentRecord
    \cup DocumentChunkVersionRecord
    \cup DocumentChunkRecord
    \cup ChunkEmbeddingRecord
    \cup RetrievalTraceRecord
    \cup RetrievalTraceResultRecord
    \cup EvaluationDatasetRecord
    \cup EvaluationCaseRecord
    \cup EvaluationJudgmentRecord
    \cup EvaluationRunRecord
    \cup EvaluationRunCaseRecord
    \cup EvaluationBaselineRecord
    \cup EvaluationBaselinePromotionRecord

=============================================================================
