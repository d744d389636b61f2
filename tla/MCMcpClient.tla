---------------------------- MODULE MCMcpClient ----------------------------
(* Bounds for McpClient: what the wrappers of notion_mcp/tools.py ask for. *)
EXTENDS McpClient

MCWrites == {"API-post-page"}
MCSearches == {SearchToolName}
=============================================================================
