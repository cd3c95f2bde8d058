------------------------------ MODULE MCAuditLog ------------------------------
(* An MCP server with two tool calls under way, and a command at a terminal. *)
EXTENDS AuditLog

CONSTANTS a, b, c, mcp, cli

MCProcOf == [x \in {a, b, c} |-> IF x = c THEN cli ELSE mcp]
=============================================================================
