----------------------------- MODULE UrlReference -----------------------------
(***************************************************************************)
(* urlps._resolve and _relative: a reference split, resolved against a     *)
(* base and put together again, as texts.                                  *)
(***************************************************************************)
EXTENDS UrlText

UriParts(scheme, split) ==
    [scheme |-> scheme, authority |-> split.authority, path |-> split.path,
     query |-> split.query, fragment |-> split.fragment]

\* split_uri_reference: the expression of RFC 3986, Appendix B.
SplitAt(text, first) ==
    IF first > 1 /\ text[first] = ":"
    THEN UriParts(SubSeq(text, 1, first - 1), SplitHierarchy(From(text, first + 1)))
    ELSE UriParts(None, SplitHierarchy(text))

SplitReference(text) == SplitAt(text, Index(text, {":", "/", "?", "#"}))

\* Mutant: the last segment of the base path is kept.
MergePathsWhole(base, path) == base.path \o path

MergePaths(base, path) ==
    IF base.authority # None /\ base.path = <<>> THEN <<"/">> \o path
    ELSE SubSeq(base.path, 1, SelectLastInSeq(base.path, LAMBDA token : token = "/")) \o path

RelativePath(base, reference) ==
    RemoveDotSegments(IF reference.path[1] = "/" THEN reference.path ELSE MergePaths(base, reference.path))

TransformReference(base, reference, strict) ==
    IF reference.scheme # None /\ (strict \/ reference.scheme # base.scheme)
    THEN [reference EXCEPT !.path = RemoveDotSegments(@)]
    ELSE IF reference.authority # None
    THEN [reference EXCEPT !.path = RemoveDotSegments(@), !.scheme = base.scheme]
    ELSE IF reference.path = <<>>
    THEN [base EXCEPT !.fragment = reference.fragment,
                      !.query = IF reference.query # None THEN reference.query ELSE @]
    ELSE [base EXCEPT !.fragment = reference.fragment, !.query = reference.query,
                      !.path = RelativePath(base, reference)]

Recompose(parts) ==
    (IF parts.scheme = None THEN <<>> ELSE parts.scheme \o <<":">>)
    \o (IF parts.authority = None THEN <<>> ELSE <<"/", "/">> \o parts.authority)
    \o parts.path
    \o (IF parts.query = None THEN <<>> ELSE <<"?">> \o parts.query)
    \o (IF parts.fragment = None THEN <<>> ELSE <<"#">> \o parts.fragment)

ResolveParts(base, reference, strict) ==
    IF base.scheme = None THEN Bad    \* ValueError
    ELSE Recompose(TransformReference(base, reference, strict))

ResolveReference(base, reference, strict) ==
    ResolveParts(SplitReference(base), SplitReference(reference), strict)

\* What parse_relative_reference accepts: no scheme, no authority.
IsRelativeReference(reference) ==
    /\ reference # <<>>
    /\ SplitReference(reference).scheme = None
    /\ SplitReference(reference).authority = None
=============================================================================
