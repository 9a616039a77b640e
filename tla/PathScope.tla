----------------------------- MODULE PathScope -----------------------------
(***************************************************************************)
(* navRun.scoped: the test every path of the agent passes before a list, a *)
(* fetch or a submit.  A path is a sequence of characters, "/" and "."     *)
(* among them, because the test is one of string prefixes.  The raw path   *)
(* is a variable that grows by a character a step, so a run goes through   *)
(* every path up to MaxLength.                                             *)
(***************************************************************************)
EXTENDS Naturals, SequencesExt

CONSTANTS
    Letters,    \* characters other than "/" and "."
    Root, User, \* the segments of the scope: /u/<encoded user id>
    MaxLength   \* bound: characters of a raw path

ASSUME PathAssumption ==
    /\ Letters \cap {"/", "."} = {}
    /\ Root \in Seq(Letters) \ {<<>>} /\ User \in Seq(Letters) \ {<<>>}
    /\ MaxLength \in Nat

VARIABLE raw

Chars == Letters \cup {"/", "."}
Slash == <<"/">>
Scope == Slash \o Root \o Slash \o User

-----------------------------------------------------------------------------
\* The segments between slashes.
Segments(p) ==
    FoldLeft(LAMBDA segs, c :
                IF c = "/" THEN Append(segs, <<>>)
                ELSE Append(Front(segs), Append(Last(segs), c)),
             << <<>> >>, p)

\* path.Clean of a rooted path.
Resolve(segs) ==
    FoldLeft(LAMBDA out, seg :
                IF seg \in {<<>>, <<".">>} THEN out
                ELSE IF seg = <<".", ".">> THEN (IF out = <<>> THEN out ELSE Front(out))
                ELSE Append(out, seg),
             <<>>, segs)
Spell(segs) == FoldLeft(LAMBDA out, seg : out \o Slash \o seg, <<>>, segs)
Clean(p) ==
    LET segs == Resolve(Segments(p)) IN IF segs = <<>> THEN Slash ELSE Spell(segs)

Trailing(p) == p # <<>> /\ Last(p) = "/"
Rooted(p) == IF IsPrefix(Slash, p) THEN p ELSE Scope \o Slash \o p

\* A bug: the path is tested and used as it is spelled.
ResolvedAsSpelled(p) == Rooted(p)

Resolved(p) == Clean(Rooted(p)) \o (IF Trailing(Rooted(p)) THEN Slash ELSE <<>>)

\* Bugs of the test: the prefix has no slash at its end; it is made before the
\* path is cleaned; the scope itself is refused.
AcceptedNoSlash(p) == IsPrefix(Scope, Resolved(p))
AcceptedUncleaned(p) == Rooted(p) = Scope \/ IsPrefix(Scope \o Slash, Rooted(p))
AcceptedBelow(p) == IsPrefix(Scope \o Slash, Resolved(p))

Accepted(p) == Resolved(p) = Scope \/ IsPrefix(Scope \o Slash, Resolved(p))

-----------------------------------------------------------------------------
PathInit == raw = <<>>

PathNext ==
    \/ Len(raw) < MaxLength /\ \E c \in Chars : raw' = Append(raw, c)
    \/ Len(raw) = MaxLength /\ UNCHANGED raw

PathSpec == PathInit /\ [][PathNext]_raw

-----------------------------------------------------------------------------
Named(seg) == seg \notin {<<>>, <<".">>, <<".", ".">>}

\* A path that is accepted lies under the scope segment by segment: no
\* traversal is left in it, and a user whose encoded id begins with this
\* user's is another user (nav.go:169-186).
StaysInside ==
    Accepted(raw) =>
       LET segs == Segments(Resolved(raw)) IN
       /\ IsPrefix(<< <<>>, Root, User >>, segs)
       /\ \A i \in 2 .. Len(segs) : Named(segs[i]) \/ (i = Len(segs) /\ segs[i] = <<>>)

\* However an accepted path is spelled, with slashes or dots that mean
\* nothing, relative to the scope or with the scope before it, it is one path:
\* a document read under one spelling and submitted under another is found
\* (nav.go:189, nav.go:361).
Canonical ==
    LET same(p) == Resolved(p) = Resolved(raw)
        dot == <<".", "/">>
    IN  Accepted(raw) =>
          /\ \A i \in DOMAIN raw : raw[i] = "/" =>
                \A more \in {Slash, dot} :
                   same(SubSeq(raw, 1, i) \o more \o SubSeq(raw, i + 1, Len(raw)))
          /\ ~IsPrefix(Slash, raw) => same(dot \o raw) /\ same(Scope \o Slash \o raw)

\* A relative path without traversal is accepted, "" and "." for the scope
\* itself; so is a rooted one that spells the scope out.
AcceptsInside ==
    (\A i \in DOMAIN Segments(raw) : Segments(raw)[i] # <<".", ".">>) =>
       /\ ~IsPrefix(Slash, raw) => Accepted(raw)
       /\ Accepted(Scope \o Slash \o raw)
       /\ IsPrefix(Slash, raw) => Accepted(Scope \o raw)
=============================================================================
