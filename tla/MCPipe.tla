------------------------------- MODULE MCPipe -------------------------------
EXTENDS PipeService
=============================================================================
