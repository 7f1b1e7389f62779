------------------------------- MODULE Tables --------------------------------
(***************************************************************************)
(* The tables the migrations create, one definition for each create_table: *)
(* its columns, primary key, unique constraints, foreign keys (column,     *)
(* table, ON DELETE) and the columns whose type a migration creates.       *)
(* Plain types, defaults, checks and plain indexes are left out, except    *)
(* that Migrations names the indexes its scripts drop.                     *)
(***************************************************************************)

Stamps == {"created_at", "updated_at"}

OfTicker == {<<"symbol", "tickers", "CASCADE">>}

tickers ==
  [cols  |-> {"symbol", "name", "sector", "industry", "market_cap_bucket",
             "is_active", "cik", "first_tracked_at"} \cup Stamps,
   pk    |-> {"symbol"}, uniq |-> {},
   fks   |-> {}, types |-> {<<"market_cap_bucket", "market_cap_bucket">>}]

prices_daily ==
  [cols  |-> {"symbol", "trade_date", "open", "high", "low", "close",
             "adjusted_close", "volume", "vwap", "source"} \cup {"created_at"},
   pk    |-> {"symbol", "trade_date"}, uniq |-> {},
   fks   |-> OfTicker, types |-> {}]

prices_intraday ==
  [cols  |-> {"symbol", "bar_ts", "open", "high", "low", "close", "volume", "vwap",
             "source"} \cup {"created_at"},
   pk    |-> {"symbol", "bar_ts"}, uniq |-> {},
   fks   |-> OfTicker, types |-> {}]

fundamentals_quarterly ==
  [cols  |-> {"symbol", "fiscal_period_end", "statement_type", "currency",
             "fiscal_year", "fiscal_quarter", "period_length_days", "revenue",
             "gross_profit", "operating_income", "net_income", "eps_diluted",
             "shares_outstanding", "operating_cash_flow", "free_cash_flow", "capex",
             "total_assets", "total_liabilities", "total_equity", "total_debt",
             "cash_and_equivalents", "gross_margin", "operating_margin", "net_margin",
             "return_on_equity", "return_on_invested_capital", "debt_to_equity",
             "raw", "source"} \cup Stamps,
   pk    |-> {"symbol", "fiscal_period_end", "statement_type"}, uniq |-> {},
   fks   |-> OfTicker, types |-> {<<"statement_type", "statement_type">>}]

filings ==
  [cols  |-> {"filing_id", "symbol", "form_type", "filed_at", "period_of_report",
             "accession_no", "url", "raw_text_s3_key", "title"} \cup Stamps,
   pk    |-> {"filing_id"}, uniq |-> {{"accession_no"}},
   fks   |-> OfTicker, types |-> {<<"form_type", "form_type">>}]

filing_chunks ==
  [cols  |-> {"chunk_id", "filing_id", "symbol", "section_name", "chunk_index",
             "chunk_text", "token_count", "embedding", "embedding_model"} \cup
             {"created_at"},
   pk    |-> {"chunk_id"}, uniq |-> {},
   fks   |-> OfTicker \cup {<<"filing_id", "filings", "CASCADE">>},
   types |-> {<<"embedding", "vector">>}]

macro_series ==
  [cols  |-> {"series_id", "observation_date", "value", "release_id", "ingested_at"},
   pk    |-> {"series_id", "observation_date"}, uniq |-> {},
   fks   |-> {}, types |-> {}]

news_items ==
  [cols  |-> {"news_id", "content_hash", "symbols", "headline", "summary", "url",
             "source", "published_at", "sentiment_score"} \cup Stamps,
   pk    |-> {"news_id"}, uniq |-> {{"content_hash"}},
   fks   |-> {}, types |-> {}]

insider_transactions ==
  [cols  |-> {"id", "symbol", "insider_name", "role", "transaction_type", "shares",
             "price", "transaction_date", "filed_at", "accession_no"} \cup Stamps,
   pk    |-> {"id"},
   uniq  |-> {{"symbol", "insider_name", "transaction_date", "shares", "transaction_type"}},
   fks   |-> OfTicker, types |-> {}]

institutional_holdings ==
  [cols  |-> {"id", "symbol", "holder_cik", "holder_name", "report_period_end",
             "shares", "value_usd", "accession_no"} \cup Stamps,
   pk    |-> {"id"}, uniq |-> {{"holder_cik", "symbol", "report_period_end"}},
   fks   |-> OfTicker, types |-> {}]

analyses ==
  [cols  |-> {"analysis_id", "symbol", "analysis_type", "status", "initiated_at",
             "completed_at", "orchestrator_summary", "recommendation", "confidence",
             "fii_score", "total_cost_usd", "total_tokens_in", "total_tokens_out",
             "model_calls_json", "step_functions_execution_arn",
             "reasoning_trail_s3_key", "user_notes"} \cup Stamps,
   pk    |-> {"analysis_id"}, uniq |-> {},
   fks   |-> OfTicker,
   types |-> {<<"analysis_type", "analysis_type">>, <<"status", "analysis_status">>,
              <<"recommendation", "analysis_recommendation">>, <<"confidence", "confidence">>}]

analysis_specialist_outputs ==
  [cols  |-> {"output_id", "analysis_id", "specialist_name", "output_json",
             "reasoning_text", "citations_json", "model_used", "tokens_in",
             "tokens_out", "cost_usd", "duration_ms"} \cup Stamps,
   pk    |-> {"output_id"}, uniq |-> {{"analysis_id", "specialist_name"}},
   fks   |-> {<<"analysis_id", "analyses", "CASCADE">>},
   types |-> {<<"specialist_name", "specialist_name">>}]

watchlist ==
  [cols  |-> {"user_id", "symbol", "added_at", "notes"} \cup Stamps,
   pk    |-> {"user_id", "symbol"}, uniq |-> {},
   fks   |-> OfTicker, types |-> {}]

positions ==
  [cols  |-> {"id", "user_id", "symbol", "shares", "cost_basis", "opened_at",
             "closed_at", "notes"} \cup Stamps,
   pk    |-> {"id"}, uniq |-> {},
   fks   |-> OfTicker, types |-> {}]

agent_prompts ==
  [cols  |-> {"specialist_name", "version", "prompt_text", "model", "is_active",
             "notes"} \cup Stamps,
   pk    |-> {"specialist_name", "version"}, uniq |-> {},
   fks   |-> {}, types |-> {<<"specialist_name", "specialist_name">>}]

refresh_events ==
  [cols  |-> {"event_id", "symbol", "event_type", "payload", "detected_at",
             "processed_at", "analysis_id", "dedupe_key"} \cup {"created_at"},
   pk    |-> {"event_id"}, uniq |-> {},
   fks   |-> OfTicker \cup {<<"analysis_id", "analyses", "SET NULL">>},
   types |-> {<<"event_type", "event_type">>}]

chat_sessions ==
  [cols  |-> {"session_id", "user_id", "title", "total_cost_usd", "total_tokens_in",
             "total_tokens_out", "message_count"} \cup Stamps,
   pk    |-> {"session_id"}, uniq |-> {},
   fks   |-> {}, types |-> {}]

chat_messages ==
  [cols  |-> {"message_id", "session_id", "role", "content", "tool_calls",
             "referenced_analysis_ids", "tokens_in", "tokens_out", "cost_usd",
             "model_used"} \cup {"created_at"},
   pk    |-> {"message_id"}, uniq |-> {},
   fks   |-> {<<"session_id", "chat_sessions", "CASCADE">>}, types |-> {}]

user_settings ==
  [cols  |-> {"user_id", "cash_balance_usd", "target_concentration_pct"} \cup Stamps,
   pk    |-> {"user_id"}, uniq |-> {},
   fks   |-> {}, types |-> {}]

analysis_outcomes ==
  [cols  |-> {"analysis_id", "symbol", "entry_price", "entry_date", "return_1d",
             "return_1w", "return_1m", "return_3m", "return_6m", "return_1y",
             "alpha_1d", "alpha_1w", "alpha_1m", "alpha_3m", "alpha_6m", "alpha_1y",
             "hit_1d", "hit_1w", "hit_1m", "hit_3m", "hit_6m", "hit_1y", "dominance",
             "computed_at", "spy_available", "notes"},
   pk    |-> {"analysis_id"}, uniq |-> {},
   fks   |-> {<<"analysis_id", "analyses", "CASCADE">>}, types |-> {}]

specialist_cache ==
  [cols  |-> {"symbol", "specialist_name", "output_json", "reasoning_text",
             "citations_json", "model_used", "tokens_in", "tokens_out", "cost_usd",
             "duration_ms", "status", "last_run_at", "last_input_hash"},
   pk    |-> {"symbol", "specialist_name"}, uniq |-> {},
   fks   |-> OfTicker, types |-> {}]

report_critiques ==
  [cols  |-> {"critique_id", "symbol", "report_filename", "report_source", "pdf_hash",
             "pdf_bytes", "extracted_claims_json", "critique_json", "status",
             "cost_usd", "tokens_in", "tokens_out", "duration_ms", "model_used",
             "completed_at"} \cup {"created_at"},
   pk    |-> {"critique_id"}, uniq |-> {{"pdf_hash"}},
   fks   |-> OfTicker, types |-> {}]

=============================================================================
