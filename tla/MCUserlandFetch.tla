-------------------------- MODULE MCUserlandFetch --------------------------
(***************************************************************************)
(* Small instances of UserlandFetch for TLC.                               *)
(***************************************************************************)
EXTENDS UserlandFetch, DownloadPaths, TLC

\* "regz" is "good" compressed again: another container, the same payload.
MCContents == {"good", "regz", "bad"}
MCPayload == [c \in MCContents |-> IF c = "bad" THEN "other" ELSE "plain"]

LocalDir(o) == [kind |-> "local", secure |-> TRUE, ranges |-> FALSE,
                chunked |-> FALSE, reliable |-> FALSE, offer |-> o]
Self == [LocalDir({}) EXCEPT !.kind = "self"]
Mirror(s, r, o) == [LocalDir(o) EXCEPT !.kind = "remote", !.secure = s, !.ranges = r]

\* A plain http mirror on the search path, a local directory, the https URL of
\* the recipe with range support.
MixedSources == DownloadPaths(<<Mirror(FALSE, FALSE, {"bad"}), LocalDir({"good", "bad"})>>,
                              Self,
                  <<[Mirror(TRUE, TRUE, {"good", "regz"}) EXCEPT !.chunked = TRUE]>>, <<>>)

\* Two mirrors, the first one unsteady, both with the right file.
MirrorSources == DownloadPaths(<<Mirror(TRUE, FALSE, {"good"}),
                                 Mirror(TRUE, TRUE, {"good"})>>, Self,
                   <<[Mirror(TRUE, TRUE, {"good"}) EXCEPT !.reliable = TRUE]>>, <<>>)

SharedSources == DownloadPaths(<<>>, Self, <<Mirror(TRUE, TRUE, {"good"})>>,
                               <<Mirror(TRUE, FALSE, {"bad"})>>)

Opt(keep, needSig, needHash, hash, sigFrom, gpg, allow) ==
    [keep |-> keep, needSig |-> needSig, needHash |-> needHash, hash |-> hash,
     sigFrom |-> sigFrom, gpg |-> gpg, allow |-> allow]

\* Every combination of the flags that matter to each other; a run without a
\* hash is told to allow unverified downloads or not.
AllOptions ==
    {Opt(k, s, h, d, f, TRUE, FALSE) :
        k, s, h \in BOOLEAN, d \in {"good", "plain"}, f \in {"local", "sigurl"}}
    \cup {Opt(k, s, FALSE, None, "local", TRUE, a) : k, s, a \in BOOLEAN}
    \cup {Opt(FALSE, FALSE, TRUE, None, "local", TRUE, TRUE),
          Opt(FALSE, TRUE, TRUE, "good", "mirror", TRUE, FALSE),
          Opt(FALSE, TRUE, TRUE, "regz", "sigurl", TRUE, FALSE),
          Opt(FALSE, FALSE, FALSE, "good", "sigurl", FALSE, FALSE)}

\* What prep-download.mk:60-66 passes: --keep for "gmake fetch", a hash, and
\* --sigurl for a component with a COMPONENT_SIG_URL.
GateOptions == {Opt(k, FALSE, FALSE, "good", f, TRUE, FALSE) :
                   k \in BOOLEAN, f \in {"local", "sigurl"}}

SharedOptions == {Opt(FALSE, FALSE, FALSE, "good", "local", TRUE, FALSE)}

Symmetry == Permutations(Inodes)
=============================================================================
