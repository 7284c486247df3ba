------------------------------ MODULE MCPipeline ------------------------------
(* Small instances of Pipeline: a stream that does not fit into the pipe.    *)
EXTENDS Pipeline
=============================================================================
