---------------------------- MODULE MCMemoryAdd ----------------------------
(***************************************************************************)
(* MemoryAdd on small instances.                                           *)
(***************************************************************************)
EXTENDS MemoryAdd, TLC

\* Two lists whose legacy rendering differs.
DistinctBodies == [m \in Payloads |-> m]
\* Two lists whose legacy rendering is the same body: a message content that
\* holds a line break and the text of a second message renders like both.
OneBody == [m \in Payloads |-> "legacy"]
RenderedBodies == [m \in Payloads |-> "current"]

MCBodies == Payloads \cup {"legacy", "current"}

Symmetry == Permutations(Workers)
=============================================================================
