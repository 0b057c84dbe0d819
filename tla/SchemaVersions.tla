--------------------------- MODULE SchemaVersions ---------------------------
(***************************************************************************)
(* The migrations of storage/migrations/runner.py.  A table stands for the *)
(* columns it is made with; an index needs its table and the columns that  *)
(* were added since.  The data that version 11 copies changes nothing of   *)
(* the schema.                                                             *)
(***************************************************************************)
EXTENDS Sequences

Table(t) == [kind |-> "create", makes |-> t, needs |-> {}]
Index(i, needs) == [kind |-> "create", makes |-> i, needs |-> needs]
Column(t, c) == [kind |-> "column", makes |-> c, needs |-> {t}]

base_schema ==
  <<Table("trades"), Table("positions"), Table("idempotency"), Table("audit"),
    Table("market_data"), Table("risk_counters")>>

new_columns ==
  <<<<Column("trades", "t.broker_order_id"), Column("trades", "t.client_order_id"),
      Column("trades", "t.filled")>>,
    <<Column("trades", "t.trace_id"), Column("audit", "a.trace_id"),
      Column("risk_counters", "r.trace_id")>>,
    <<Column("trades", "t.status"), Column("positions", "p.status")>>,
    <<Column("trades", "t.metadata"), Column("positions", "p.metadata")>>>>

indexes ==
  <<<<Index("idx_trades_symbol_ts", {"trades"}),
      Index("ux_trades_client_order_id", {"trades", "t.client_order_id"}),
      Index("idx_trades_ts", {"trades"}), Index("idx_trades_trace_id", {"trades", "t.trace_id"})>>,
    <<Index("ux_idempotency_key", {"idempotency"}), Index("idx_idempotency_ts", {"idempotency"})>>,
    <<Index("idx_positions_symbol", {"positions"}),
      Index("idx_positions_status", {"positions", "p.status"})>>,
    <<Index("idx_risk_counters_rule_symbol", {"risk_counters"}),
      Index("idx_risk_counters_ts", {"risk_counters"})>>,
    <<Index("idx_audit_ts", {"audit"}), Index("idx_audit_topic", {"audit"}),
      Index("idx_audit_trace_id", {"audit", "a.trace_id"})>>>>

positions_extended ==
  <<Column("positions", "p.avg_entry_price"), Column("positions", "p.realized_pnl"),
    Column("positions", "p.unrealized_pnl"), Column("positions", "p.updated_ts_ms"),
    Column("positions", "p.version")>>

later_tables ==
  <<<<Table("orders"), Index("idx_orders_symbol", {"orders"}), Index("idx_orders_status", {"orders"}),
      Index("ux_orders_client_order_id", {"orders"}), Index("idx_orders_trace_id", {"orders"})>>,
    <<Column("idempotency", "i.expire_at"),
      Index("idx_idempotency_expire", {"idempotency", "i.expire_at"})>>,
    <<Table("protective_exits"), Index("idx_protective_exits_symbol", {"protective_exits"}),
      Index("idx_protective_exits_status", {"protective_exits"})>>>>

pymigrations ==
  <<base_schema>> \o new_columns \o indexes \o <<positions_extended>> \o later_tables
=============================================================================
