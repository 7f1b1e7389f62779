------------------------------- MODULE Models --------------------------------
(***************************************************************************)
(* The tables, types and keys that the code expects, class by class: what  *)
(* SQLAlchemy puts into every statement.  The migrations are written by    *)
(* hand (env.py compares nothing: target_metadata is None), so these are   *)
(* two accounts of one schema, each translated from its own file.          *)
(***************************************************************************)

Stamps == {"created_at", "updated_at"}

OfTicker == {<<"symbol", "tickers", "CASCADE">>}

Ticker ==
  [cols  |-> {"symbol", "name", "sector", "industry", "market_cap_bucket",
             "is_active", "cik", "first_tracked_at"} \cup Stamps,
   pk    |-> {"symbol"}, uniq |-> {},
   fks   |-> {}, types |-> {<<"market_cap_bucket", "market_cap_bucket">>}]

PriceDaily ==
  [cols  |-> {"symbol", "trade_date", "open", "high", "low", "close",
             "adjusted_close", "volume", "vwap", "source"} \cup {"created_at"},
   pk    |-> {"symbol", "trade_date"}, uniq |-> {},
   fks   |-> OfTicker, types |-> {}]

PriceIntraday ==
  [cols  |-> {"symbol", "bar_ts", "open", "high", "low", "close", "volume", "vwap",
             "source"} \cup {"created_at"},
   pk    |-> {"symbol", "bar_ts"}, uniq |-> {},
   fks   |-> OfTicker, types |-> {}]

FundamentalsQuarterly ==
  [cols  |-> {"symbol", "fiscal_period_end", "statement_type", "currency",
             "fiscal_year", "fiscal_quarter", "period_length_days", "revenue",
             "gross_profit", "operating_income", "net_income", "eps_diluted",
             "shares_outstanding", "operating_cash_flow", "free_cash_flow", "capex",
             "total_assets", "total_liabilities", "total_equity", "total_debt",
             "cash_and_equivalents", "gross_margin", "operating_margin", "net_margin",
             "return_on_equity", "return_on_invested_capital", "debt_to_equity",
             "raw", "source"} \cup Stamps,
   pk    |-> {"symbol", "fiscal_period_end", "statement_type"}, uniq |-> {},
   fks   |-> OfTicker, types |-> {<<"statement_type", "statement_type">>}]

Filing ==
  [cols  |-> {"filing_id", "symbol", "form_type", "filed_at", "period_of_report",
             "accession_no", "url", "raw_text_s3_key", "title"} \cup Stamps,
   pk    |-> {"filing_id"}, uniq |-> {{"accession_no"}},
   fks   |-> OfTicker, types |-> {<<"form_type", "form_type">>}]

FilingChunk ==
  [cols  |-> {"chunk_id", "filing_id", "symbol", "section_name", "chunk_index",
             "chunk_text", "token_count", "embedding", "embedding_model"} \cup
             {"created_at"},
   pk    |-> {"chunk_id"}, uniq |-> {},
   fks   |-> OfTicker \cup {<<"filing_id", "filings", "CASCADE">>},
   types |-> {<<"embedding", "vector">>}]

MacroSeries ==
  [cols  |-> {"series_id", "observation_date", "value", "release_id", "ingested_at"},
   pk    |-> {"series_id", "observation_date"}, uniq |-> {},
   fks   |-> {}, types |-> {}]

NewsItem ==
  [cols  |-> {"news_id", "content_hash", "symbols", "headline", "summary", "url",
             "source", "published_at", "sentiment_score"} \cup Stamps,
   pk    |-> {"news_id"}, uniq |-> {{"content_hash"}},
   fks   |-> {}, types |-> {}]

InsiderTransaction ==
  [cols  |-> {"id", "symbol", "insider_name", "role", "transaction_type", "shares",
             "price", "transaction_date", "filed_at", "accession_no"} \cup Stamps,
   pk    |-> {"id"},
   uniq  |-> {{"symbol", "insider_name", "transaction_date", "shares", "transaction_type"}},
   fks   |-> OfTicker, types |-> {}]

InstitutionalHolding ==
  [cols  |-> {"id", "symbol", "holder_cik", "holder_name", "report_period_end",
             "shares", "value_usd", "accession_no"} \cup Stamps,
   pk    |-> {"id"}, uniq |-> {{"holder_cik", "symbol", "report_period_end"}},
   fks   |-> OfTicker, types |-> {}]

Analysis ==
  [cols  |-> {"analysis_id", "symbol", "analysis_type", "status", "initiated_at",
             "completed_at", "orchestrator_summary", "recommendation", "confidence",
             "fii_score", "total_cost_usd", "total_tokens_in", "total_tokens_out",
             "model_calls_json", "prompt_versions_json",
             "step_functions_execution_arn", "reasoning_trail_s3_key", "user_notes",
             "idempotency_key", "correlation_id", "action_taken", "action_size_usd",
             "action_price", "action_at", "action_notes"} \cup Stamps,
   pk    |-> {"analysis_id"}, uniq |-> {},
   fks   |-> OfTicker,
   types |-> {<<"analysis_type", "analysis_type">>, <<"status", "analysis_status">>,
              <<"recommendation", "analysis_recommendation">>, <<"confidence", "confidence">>,
              <<"action_taken", "action_taken">>}]

AnalysisSpecialistOutput ==
  [cols  |-> {"output_id", "analysis_id", "specialist_name", "output_json",
             "reasoning_text", "citations_json", "model_used", "tokens_in",
             "tokens_out", "cost_usd", "duration_ms"} \cup Stamps,
   pk    |-> {"output_id"}, uniq |-> {{"analysis_id", "specialist_name"}},
   fks   |-> {<<"analysis_id", "analyses", "CASCADE">>},
   types |-> {<<"specialist_name", "specialist_name">>}]

AnalysisOutcome ==
  [cols  |-> {"analysis_id", "symbol", "entry_price", "entry_date", "return_1d",
             "return_1w", "return_1m", "return_3m", "return_6m", "return_1y",
             "alpha_1d", "alpha_1w", "alpha_1m", "alpha_3m", "alpha_6m", "alpha_1y",
             "hit_1d", "hit_1w", "hit_1m", "hit_3m", "hit_6m", "hit_1y", "dominance",
             "spy_available", "notes", "computed_at"},
   pk    |-> {"analysis_id"}, uniq |-> {},
   fks   |-> {<<"analysis_id", "analyses", "CASCADE">>}, types |-> {}]

SpecialistCache ==
  [cols  |-> {"symbol", "specialist_name", "output_json", "reasoning_text",
             "citations_json", "model_used", "tokens_in", "tokens_out", "cost_usd",
             "duration_ms", "status", "last_run_at", "last_input_hash"},
   pk    |-> {"symbol", "specialist_name"}, uniq |-> {},
   fks   |-> OfTicker, types |-> {}]

ReportCritique ==
  [cols  |-> {"critique_id", "symbol", "report_filename", "report_source", "pdf_hash",
             "pdf_bytes", "extracted_claims_json", "critique_json", "status",
             "cost_usd", "tokens_in", "tokens_out", "duration_ms", "model_used",
             "completed_at"} \cup {"created_at"},
   pk    |-> {"critique_id"}, uniq |-> {{"pdf_hash"}},
   fks   |-> OfTicker, types |-> {}]

Watchlist ==
  [cols  |-> {"user_id", "symbol", "added_at", "notes"} \cup Stamps,
   pk    |-> {"user_id", "symbol"}, uniq |-> {},
   fks   |-> OfTicker, types |-> {}]

Position ==
  [cols  |-> {"id", "user_id", "symbol", "shares", "cost_basis", "opened_at",
             "closed_at", "notes"} \cup Stamps,
   pk    |-> {"id"}, uniq |-> {},
   fks   |-> OfTicker, types |-> {}]

RefreshEvent ==
  [cols  |-> {"event_id", "symbol", "event_type", "payload", "detected_at",
             "processed_at", "analysis_id", "dedupe_key"} \cup {"created_at"},
   pk    |-> {"event_id"}, uniq |-> {},
   fks   |-> OfTicker \cup {<<"analysis_id", "analyses", "SET NULL">>},
   types |-> {<<"event_type", "event_type">>}]

ChatSession ==
  [cols  |-> {"session_id", "user_id", "title", "total_cost_usd", "total_tokens_in",
             "total_tokens_out", "message_count"} \cup Stamps,
   pk    |-> {"session_id"}, uniq |-> {},
   fks   |-> {}, types |-> {}]

ChatMessage ==
  [cols  |-> {"message_id", "session_id", "role", "content", "tool_calls",
             "referenced_analysis_ids", "tokens_in", "tokens_out", "cost_usd",
             "model_used"} \cup {"created_at"},
   pk    |-> {"message_id"}, uniq |-> {},
   fks   |-> {<<"session_id", "chat_sessions", "CASCADE">>}, types |-> {}]

UserSettings ==
  [cols  |-> {"user_id", "cash_balance_usd", "target_concentration_pct"} \cup Stamps,
   pk    |-> {"user_id"}, uniq |-> {},
   fks   |-> {}, types |-> {}]

AgentPrompt ==
  [cols  |-> {"specialist_name", "version", "prompt_text", "model", "is_active",
             "notes"} \cup Stamps,
   pk    |-> {"specialist_name", "version"}, uniq |-> {},
   fks   |-> {}, types |-> {<<"specialist_name", "specialist_name">>}]

-----------------------------------------------------------------------------

Models ==
    [tickers |-> Ticker, prices_daily |-> PriceDaily, prices_intraday |-> PriceIntraday,
     fundamentals_quarterly |-> FundamentalsQuarterly, filings |-> Filing,
     filing_chunks |-> FilingChunk, macro_series |-> MacroSeries, news_items |-> NewsItem,
     insider_transactions |-> InsiderTransaction, institutional_holdings |-> InstitutionalHolding,
     analyses |-> Analysis, analysis_specialist_outputs |-> AnalysisSpecialistOutput,
     analysis_outcomes |-> AnalysisOutcome, specialist_cache |-> SpecialistCache,
     report_critiques |-> ReportCritique, watchlist |-> Watchlist, positions |-> Position,
     refresh_events |-> RefreshEvent, chat_sessions |-> ChatSession,
     chat_messages |-> ChatMessage, user_settings |-> UserSettings, agent_prompts |-> AgentPrompt]

\* The values the enum classes may send.
Enums ==
    [market_cap_bucket |-> {"mega", "large", "mid", "small"},
     form_type |-> {"10-K", "10-Q", "8-K", "4", "13F", "DEF 14A"},
     statement_type |-> {"income", "balance", "cashflow", "ratios"},
     analysis_type |-> {"deep_dive", "quick_refresh", "technical_only"},
     analysis_status |-> {"pending", "running", "succeeded", "failed", "canceled"},
     analysis_recommendation |-> {"strong_buy", "buy", "hold", "trim", "sell"},
     confidence |-> {"low", "medium", "high"},
     specialist_name |-> {"fundamentals", "valuation", "moat", "macro", "technical", "news",
                          "insider", "risk", "bull", "bear"},
     event_type |-> {"price_shock", "news_shock", "8k_filed", "earnings_release",
                     "macro_surprise"},
     action_taken |-> {"none", "bought", "added", "held", "trimmed", "sold", "paper_bought",
                       "paper_sold"}]

\* The keys by which an ON CONFLICT clause, or a handler that counts on a refused
\* insert, recognises a row.  PostgreSQL rejects a clause without such a unique key.
Arbiters ==
    {<<"tickers", {"symbol"}>>, <<"prices_daily", {"symbol", "trade_date"}>>,
     <<"prices_intraday", {"symbol", "bar_ts"}>>,
     <<"fundamentals_quarterly", {"symbol", "fiscal_period_end", "statement_type"}>>,
     <<"filings", {"accession_no"}>>, <<"macro_series", {"series_id", "observation_date"}>>,
     <<"news_items", {"content_hash"}>>,
     <<"insider_transactions", {"symbol", "insider_name", "transaction_date", "shares",
                                "transaction_type"}>>,
     <<"analyses", {"analysis_id"}>>, <<"analyses", {"idempotency_key"}>>,
     <<"analysis_specialist_outputs", {"analysis_id", "specialist_name"}>>,
     <<"analysis_outcomes", {"analysis_id"}>>, <<"specialist_cache", {"symbol", "specialist_name"}>>,
     <<"report_critiques", {"pdf_hash"}>>, <<"watchlist", {"user_id", "symbol"}>>,
     <<"chat_sessions", {"session_id"}>>, <<"user_settings", {"user_id"}>>,
     <<"agent_prompts", {"specialist_name", "version"}>>}

=============================================================================
