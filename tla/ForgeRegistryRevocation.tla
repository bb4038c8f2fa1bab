---------------------- MODULE ForgeRegistryRevocation ----------------------
(***************************************************************************)
(* ForgeRegistry with a history variable: the seq of the last grant that a *)
(* copy of the present listing dropped for each contributor.               *)
(***************************************************************************)
EXTENDS ForgeRegistry

VARIABLE revoked

HistoryInit == InitHosted /\ revoked = [r \in Replica |-> NoContributors]

HistoryNext ==
  /\ Next
  /\ revoked' = [r \in Replica |-> [c \in Identity |->
       IF replica'[r].repo = None THEN 0
       ELSE IF replica'[r].contributors[c] < replica[r].contributors[c]
         THEN replica[r].contributors[c] ELSE revoked[r][c]]]

HistorySpec == HistoryInit /\ [][HistoryNext]_<<vars, revoked>>

\* SCHEMA.md: a grant's seq is "Monotonic per (prefix, fingerprint)".  While
\* the listing stands, a revoked grant does not come back from a repeated
\* add or from the copy of a peer: only a newer grant takes its place.
RevokedGrantStaysRevoked ==
  \A r \in Replica, c \in Identity :
    replica[r].contributors[c] = 0 \/ replica[r].contributors[c] > revoked[r][c]
=============================================================================
