------------------------- MODULE MCHarborBootstrap --------------------------
(* Instances of HarborBootstrap for TLC. *)
EXTENDS HarborBootstrap, TLC
CONSTANTS g1, g2

\* Docker is there with nothing listed, or is not there.
SomeDaemons == {[valid |-> TRUE, listed |-> {}]}

\* Nobody's Harbor at either endpoint, or a k3s one at the first.
SomeSites == {g1 :> "none" @@ g2 :> "none", g1 :> "https" @@ g2 :> "none"}

Plain == [NoRequest EXCEPT !.registry = g1]
SomeRequests ==
  {NoRequest, Plain, [Plain EXCEPT !.protocol = "https"],
   [NoRequest EXCEPT !.external = TRUE], [NoRequest EXCEPT !.registry = g2],
   [NoRequest EXCEPT !.registry = g2, !.replace = TRUE]}

Interchangeable == Permutations(Processes)
=============================================================================
