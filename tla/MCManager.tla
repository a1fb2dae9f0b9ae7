----------------------------- MODULE MCManager -----------------------------
(***************************************************************************)
(* Instances of Manager for TLC: configurations that between them take     *)
(* every branch of the scripts.                                            *)
(***************************************************************************)
EXTENDS Manager

\* Everything a ypkg build can have.
Ypkg == [op |-> "build", type |-> "ypkg", tmpfs |-> TRUE, user |-> FALSE,
         net |-> FALSE, ccache |-> TRUE, abi |-> TRUE, repo |-> "autoindex",
         remove |-> TRUE]

\* A ypkg build with as little as possible, and one of the old format.
YpkgPlain == [Ypkg EXCEPT !.tmpfs = FALSE, !.user = TRUE, !.net = TRUE,
                          !.ccache = FALSE, !.abi = FALSE, !.repo = "none",
                          !.remove = FALSE]
Xml == [YpkgPlain EXCEPT !.type = "xml", !.tmpfs = TRUE, !.repo = "local"]
XmlRemote == [Xml EXCEPT !.tmpfs = FALSE, !.repo = "remote"]

ChrootYpkg == [Ypkg EXCEPT !.op = "chroot", !.tmpfs = FALSE]
ChrootXml == [Xml EXCEPT !.op = "chroot", !.tmpfs = FALSE]
Index == [YpkgPlain EXCEPT !.op = "index", !.type = "index", !.tmpfs = TRUE]
Update == [YpkgPlain EXCEPT !.op = "update", !.type = "index", !.user = FALSE]

Unattended == {Ypkg, YpkgPlain, Xml, XmlRemote, Index, Update}
Shells == {ChrootYpkg, ChrootXml}
Everything == Unattended \cup Shells
OnlyYpkg == {Ypkg}

\* Failing steps and a signal that finds main waiting; a signal at any time.
Waiting == [signal |-> "longtask", strays |-> FALSE, faults |-> 2]
Anytime == [signal |-> "any", strays |-> TRUE, faults |-> 1]
AllEnvs == {Waiting, Anytime}
OnlySignal == {[Anytime EXCEPT !.strays = FALSE, !.faults = 0]}
Quiet == {[Waiting EXCEPT !.signal = "none", !.faults = 0]}
=============================================================================
