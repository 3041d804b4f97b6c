------------------------- MODULE MCWalletPipeline -------------------------
(* Instantiates WalletPipeline for TLC: two users, one or two networks.  *)
EXTENDS WalletPipeline

CONSTANTS u1, u2, n1, n2

\* A producer-side retry re-sends the same event (same timestamp) next to
\* the original; a later verification of u1 carries a new timestamp.
\* Batches of two put the two copies of the first event in one batch.
LogRetryDuplicate ==
    << [user |-> u1, net |-> n1, ts |-> 1],
       [user |-> u1, net |-> n1, ts |-> 1],
       [user |-> u2, net |-> n1, ts |-> 1],
       [user |-> u1, net |-> n1, ts |-> 2] >>

\* Two verifications of one pair, with distinct timestamps, in one batch.
LogConcurrentPair ==
    << [user |-> u1, net |-> n1, ts |-> 1],
       [user |-> u1, net |-> n1, ts |-> 2] >>

\* u1 verified three times, twice within one batch.
LogRepeatedVerification ==
    << [user |-> u1, net |-> n1, ts |-> 1],
       [user |-> u1, net |-> n1, ts |-> 2],
       [user |-> u2, net |-> n1, ts |-> 1],
       [user |-> u1, net |-> n1, ts |-> 3] >>

\* A retry duplicate of (u1, n2) in the second batch, after two events of
\* other pairs have filled the processed set: inserting its first copy's
\* key takes the set over TrimAbove = 2.
LogTrimRace ==
    << [user |-> u1, net |-> n1, ts |-> 1],
       [user |-> u2, net |-> n1, ts |-> 1],
       [user |-> u1, net |-> n2, ts |-> 1],
       [user |-> u1, net |-> n2, ts |-> 1] >>

\* Distinct users one per batch.
LogTwoUsers ==
    << [user |-> u1, net |-> n1, ts |-> 1],
       [user |-> u2, net |-> n1, ts |-> 1] >>

=============================================================================
