------------------------------ MODULE MCPipeline ------------------------------
(* Model values for the users and networks both services share.           *)
EXTENDS Pipeline

CONSTANTS u1, u2, n1

====
