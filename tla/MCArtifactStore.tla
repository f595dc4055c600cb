--------------------------- MODULE MCArtifactStore ---------------------------
(***************************************************************************)
(* A small instance of ArtifactStore: two contents whose digests share a   *)
(* shard directory.                                                        *)
(***************************************************************************)
EXTENDS ArtifactStore, TLC

MCShard == "d1" :> "ab" @@ "d2" :> "ab"

Clients == Permutations(Client)
=============================================================================
