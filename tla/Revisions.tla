------------------------------ MODULE Revisions ------------------------------
(***************************************************************************)
(* The upgrade and downgrade of every revision, and what should be true of *)
(* them together.  Models is named through Orm: both accounts of the       *)
(* schema name some of their tables alike.                                 *)
(***************************************************************************)
EXTENDS Migrations, Integers

Orm == INSTANCE Models

CreateTypes(labels, names) == [i \in DOMAIN names |-> CreateType(names[i], labels[names[i]])]

CreateTables(tables, names) == [i \in DOMAIN names |-> CreateTable(names[i], tables[names[i]])]

AddColumns(table, cols) == [i \in DOMAIN cols |-> AddColumn(table, cols[i], {})]

DropColumns(table, cols) == [i \in DOMAIN cols |-> DropColumnOf(table, cols[i])]

-----------------------------------------------------------------------------
Upgrade_0001 == [i \in 1 .. 3 |-> CreateExtension(<<"vector", "pg_trgm", "uuid-ossp">>[i])]

\* A no-op on purpose: dropping an extension would drop data.
Downgrade_0001 == <<>>

ENUMS ==
    [market_cap_bucket |-> {"mega", "large", "mid", "small"},
     form_type |-> {"10-K", "10-Q", "8-K", "4", "13F", "DEF 14A"},
     statement_type |-> {"income", "balance", "cashflow", "ratios"},
     analysis_type |-> {"deep_dive", "quick_refresh", "technical_only"},
     analysis_status |-> {"pending", "running", "succeeded", "failed", "canceled"},
     analysis_recommendation |-> {"strong_buy", "buy", "hold", "trim", "sell"},
     confidence |-> {"low", "medium", "high"},
     specialist_name |-> {"fundamentals", "valuation", "moat", "macro", "technical", "news",
                          "insider", "risk", "bull", "bear"}]

TypesOf_0002 ==
    <<"market_cap_bucket", "form_type", "statement_type", "analysis_type", "analysis_status",
      "analysis_recommendation", "confidence", "specialist_name">>

TablesOf_0002 ==
    [tickers |-> tickers, prices_daily |-> prices_daily, prices_intraday |-> prices_intraday,
     fundamentals_quarterly |-> fundamentals_quarterly, filings |-> filings,
     filing_chunks |-> filing_chunks, macro_series |-> macro_series, news_items |-> news_items,
     insider_transactions |-> insider_transactions,
     institutional_holdings |-> institutional_holdings, analyses |-> analyses,
     analysis_specialist_outputs |-> analysis_specialist_outputs, watchlist |-> watchlist,
     positions |-> positions, agent_prompts |-> agent_prompts]

OrderOf_0002 ==
    <<"tickers", "prices_daily", "prices_intraday", "fundamentals_quarterly", "filings",
      "filing_chunks", "macro_series", "news_items", "insider_transactions",
      "institutional_holdings", "analyses", "analysis_specialist_outputs", "watchlist",
      "positions", "agent_prompts">>

tables_with_updated_at ==
    <<"tickers", "fundamentals_quarterly", "filings", "news_items", "insider_transactions",
      "institutional_holdings", "analyses", "analysis_specialist_outputs", "watchlist",
      "positions", "agent_prompts">>

Upgrade_0002 ==
    CreateTypes(ENUMS, TypesOf_0002)
    \o <<CreateFunction("fii_set_updated_at")>>
    \o CreateTables(TablesOf_0002, OrderOf_0002)
    \o [i \in DOMAIN tables_with_updated_at |-> CreateTrigger(tables_with_updated_at[i])]

\* Every table, the last one first; then the function and the types.
Downgrade_0002 ==
    [i \in DOMAIN OrderOf_0002 |-> DropTableCascade(Reverse(OrderOf_0002)[i])]
    \o <<DropFunction("fii_set_updated_at")>>
    \o [i \in DOMAIN TypesOf_0002 |-> DropType(TypesOf_0002[i])]

EVENT_TYPES == {"price_shock", "news_shock", "8k_filed", "earnings_release", "macro_surprise"}

Upgrade_0003 ==
    <<CreateType("event_type", EVENT_TYPES), CreateTable("refresh_events", refresh_events)>>

Downgrade_0003 == <<DropTableCascade("refresh_events"), DropType("event_type")>>

Upgrade_0004 ==
    <<CreateTable("chat_sessions", chat_sessions), CreateTable("chat_messages", chat_messages),
      CreateTable("user_settings", user_settings)>>

Downgrade_0004 ==
    <<DropTableOnly("user_settings"), DropTableOnly("chat_messages"), DropTableOnly("chat_sessions")>>

ACTION_TAKEN_VALUES ==
    {"none", "bought", "added", "held", "trimmed", "sold", "paper_bought", "paper_sold"}

ByAction == Index("ix_analyses_action_taken", "analyses", {"action_taken"})

Upgrade_0005 ==
    <<CreateType("action_taken", ACTION_TAKEN_VALUES),
      AddColumn("analyses", "action_taken", {<<"action_taken", "action_taken">>})>>
    \o AddColumns("analyses", <<"action_size_usd", "action_price", "action_at", "action_notes",
                                "prompt_versions_json">>)
    \o <<CreateIndex(ByAction), CreateTable("analysis_outcomes", analysis_outcomes)>>

\* Mutant: the type stays behind.
Downgrade_0005_keeps_type ==
    <<DropTableOnly("analysis_outcomes"), DropIndex("ix_analyses_action_taken")>>
    \o DropColumns("analyses", <<"prompt_versions_json", "action_notes", "action_at",
                                 "action_price", "action_size_usd", "action_taken">>)

Downgrade_0005 ==
    <<DropTableOnly("analysis_outcomes"), DropIndex("ix_analyses_action_taken")>>
    \o DropColumns("analyses", <<"prompt_versions_json", "action_notes", "action_at",
                                 "action_price", "action_size_usd", "action_taken">>)
    \o <<DropType("action_taken")>>

ByKey         == Index("ix_analyses_idempotency_key", "analyses", {"idempotency_key"})
ByCorrelation == Index("ix_analyses_correlation_id", "analyses", {"correlation_id"})

\* Mutant: the index is not unique.
Upgrade_0006_plain ==
    AddColumns("analyses", <<"idempotency_key", "correlation_id">>)
    \o <<CreateIndex(ByKey), CreateIndex(ByCorrelation)>>

Upgrade_0006 ==
    AddColumns("analyses", <<"idempotency_key", "correlation_id">>)
    \o <<CreateUniqueIndex(ByKey), CreateIndex(ByCorrelation)>>

Downgrade_0006 ==
    <<DropIndex("ix_analyses_correlation_id"), DropIndex("ix_analyses_idempotency_key")>>
    \o DropColumns("analyses", <<"correlation_id", "idempotency_key">>)

ByLastRun == Index("ix_specialist_cache_last_run_at", "specialist_cache", {"last_run_at"})

Upgrade_0007 == <<CreateTable("specialist_cache", specialist_cache), CreateIndex(ByLastRun)>>

Downgrade_0007 ==
    <<DropIndex("ix_specialist_cache_last_run_at"), DropTableOnly("specialist_cache")>>

ByCreation ==
    Index("ix_report_critiques_symbol_created_at", "report_critiques", {"symbol", "created_at"})

Upgrade_0008 == <<CreateTable("report_critiques", report_critiques), CreateIndex(ByCreation)>>

Downgrade_0008 ==
    <<DropIndex("ix_report_critiques_symbol_created_at"), DropTableOnly("report_critiques")>>

-----------------------------------------------------------------------------
Upgrades ==
    <<Upgrade_0001, Upgrade_0002, Upgrade_0003, Upgrade_0004, Upgrade_0005, Upgrade_0006,
      Upgrade_0007, Upgrade_0008>>

Downgrades ==
    <<Downgrade_0001, Downgrade_0002, Downgrade_0003, Downgrade_0004, Downgrade_0005,
      Downgrade_0006, Downgrade_0007, Downgrade_0008>>

Head_ == Len(Upgrades)

\* What one alembic command runs: the upgrades after from, or the downgrades of from
\* and of every revision down to the one after to.
Scripts(from, to) ==
    IF from <= to
    THEN FlattenSeq(SubSeq(Upgrades, from + 1, to))
    ELSE FlattenSeq(Reverse(SubSeq(Downgrades, to + 1, from)))

\* The schema of each revision, built up from an empty database.
CatalogOf == [r \in 0 .. Head_ |-> RunScript(Empty, Scripts(0, r)).catalog]

\* Unique keys of a table, whether a constraint or an index makes them so.
UniqueKeys(c, name) ==
    {c.tables[name].pk} \cup c.tables[name].uniq
        \cup {i.cols : i \in {j \in Range(c.unique) : j.on = name}}

\* At the head revision the database is the one the code was written for: every class
\* of models.py finds its table with the same columns, keys, foreign keys and enum
\* types, every enum the same labels, and every ON CONFLICT clause a unique key
\* (models.py, enums.py against migrations 0001-0008; env.py:17-18 compares nothing).
HeadServesModels ==
    LET c == CatalogOf[Head_] IN
    /\ c.tables = Orm!Models
    /\ c.types = Orm!Enums
    /\ \A a \in Orm!Arbiters : a[2] \in UniqueKeys(c, a[1])

=============================================================================
