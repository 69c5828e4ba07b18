-------------------------- MODULE MCPublishSession --------------------------
(* PublishSession on small instances: the constants are model values given *)
(* by the configurations; the ids are interchangeable.                     *)
EXTENDS PublishSession, TLC

Symmetry == Permutations(Requests) \cup Permutations(Clients)
            \cup Permutations(UploadIds) \cup Permutations(Sessions)
=============================================================================
