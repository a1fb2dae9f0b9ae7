--------------------------- MODULE MCSourceCache ---------------------------
(***************************************************************************)
(* Instances of SourceCache for TLC.                                       *)
(***************************************************************************)
EXTENDS SourceCache

\* Every archive has a name of its own: one of a package.yml, one of a
\* pspec.xml with the same contents, and a local file of a pspec.xml that is
\* not what its sha1 says.
OwnFetch == {"yml", "xml", "local"}
OwnFile == [f \in OwnFetch |-> f]
OwnServed == [f \in OwnFetch |-> "a"]
OwnWanted == [f \in OwnFetch |-> IF f = "local" THEN "b" ELSE "a"]
OwnLegacy == {"xml", "local"}
OwnFileURI == {"local"}

\* Two packages have archives of the same name, as v1.0.tar.gz is.
SameFetch == {"yml", "other"}
SameFile == [f \in SameFetch |-> "v1.0.tar.gz"]
SameServed == [f \in SameFetch |-> IF f = "yml" THEN "a" ELSE "b"]
NoFetch == {}
=============================================================================
