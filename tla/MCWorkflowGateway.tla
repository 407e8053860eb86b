-------------------------- MODULE MCWorkflowGateway --------------------------
(* A request next to the scheduler of two processes, one after the other, with *)
(* two sweeps each; the lists show one row.  Requests meet only in the tables. *)
EXTENDS WorkflowGateway, TLC

CONSTANT r1

MCRequest == {r1}
Sent(who, host, path, query, within) ==
  [who |-> who, host |-> host, path |-> path, query |-> query, within |-> within]
MCCalls ==
  { Sent("admin", "admin", "overview", "none", TRUE),
    Sent("service", "shop", "run", "orders_backlog", TRUE),
    Sent("admin", "admin", "run", "missing_table_probe", TRUE),
    Sent("admin", "admin", "selectai", "none", TRUE),
    Sent("admin", "shop", "overview", "none", TRUE),
    Sent("user", "admin", "run", "orders_backlog", TRUE),
    Sent("service", "shop", "health", "none", TRUE),
    Sent("admin", "admin", "run", "orders", TRUE),
    Sent("service", "shop", "selectai", "none", FALSE),
    Sent("admin", "admin", "list", "none", TRUE) }

=============================================================================
