------------------------------ MODULE McpCalls ------------------------------
\* What Devices and ToolCalls share: the server answers each MCP call in a task of its own.
CONSTANT Tasks  \* MCP calls the server works on at once
=============================================================================
