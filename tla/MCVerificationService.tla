----------------------- MODULE MCVerificationService -----------------------
(* Model values for the verification service's users and networks.       *)
EXTENDS VerificationService

CONSTANTS u1, u2, n1

====
