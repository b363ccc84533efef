----------------------------- MODULE MCPSDViewer -----------------------------
(* PSDViewer for TLC, with the other viewers of RemoteFile: a document of a *)
(* group in a group with a clipped layer, one without layers.               *)
EXTENDS PSDViewer, TLC

CONSTANTS c1, c2

E(kind, visible, clipping) ==
  [kind |-> kind, visible |-> visible, clipping |-> clipping, pixels |-> kind = "layer"]

\* A group of a clipped layer and its base, in a group.
Nested ==
  <<E("open", TRUE, FALSE), E("closed", TRUE, FALSE), E("layer", FALSE, TRUE),
    E("layer", TRUE, FALSE), E("divider", TRUE, FALSE), E("divider", TRUE, FALSE)>>

MCDocuments == {<<>>, Nested}

\* The documents of at most five entries in which groups nest: the entry of a
\* group stands in front of what is in it, and its divider behind.
Entries ==
  {E("open", TRUE, FALSE), E("divider", TRUE, FALSE)}
    \cup [kind : {"layer"}, visible : {TRUE}, clipping : BOOLEAN, pixels : BOOLEAN]
Nestings == {doc \in UNION {[1..n -> Entries] : n \in 0..5} : Nests(doc)}

\* The compositor and the panel agree on them.
ASSUME CompositorAssumption == CompositorAgrees(Nestings)

At(offset, size) == [offset |-> offset, size |-> size]
MCHeader == At(0, 2)
MCSection == At(2, 3)
MCRecords == At(1, 2)
MCLayerData == [l \in 1..Len(Nested) |-> IF l = 3 THEN At(4, 1) ELSE At(2, 2)]
===============================================================================
