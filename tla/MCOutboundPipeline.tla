------------------------- MODULE MCOutboundPipeline -------------------------
(* Instances of OutboundPipeline for TLC. *)
EXTENDS OutboundPipeline, TLC

CONSTANTS
  r1, r2,  \* a request and its retry under one idempotency key
  r3,      \* a request without a key for the same company
  r4,      \* one on a phone number that belongs to no company
  k1, c1,
  MaxDisturbances

MCKeyOf == [r \in Request |-> IF r \in {r1, r2} THEN k1 ELSE NoKey]
MCCompanyOf == [r \in Request |-> IF r = r4 THEN NoCompany ELSE c1]

(* At most MaxDisturbances crashes, stops, lost connections, database faults *)
(* and lost answers in one behaviour.                                        *)
FewDisturbances == crashes + stops + drops + faults + timeouts <= MaxDisturbances

WorkerSymmetry == Permutations(Worker)
=============================================================================
