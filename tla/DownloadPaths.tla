--------------------------- MODULE DownloadPaths ---------------------------
(***************************************************************************)
(* download_paths() of tools/userland-fetch: the list of sources of a run. *)
(* Entries are compared as the URLs they stand for.                        *)
(***************************************************************************)
EXTENDS Sequences, SequencesExt

IsLocal(s) == s.kind \in {"self", "local"}

\* search: -s options and $DOWNLOAD_SEARCH_PATH; url: <<>> or the --url argument;
\* fallback: $DOWNLOAD_FALLBACK_PATH.
DownloadPaths(search, self, url, fallback) ==
    LET searched == <<self>> \o Remove(search, self)
        fromUrl == SelectSeq(url, LAMBDA u : u \notin ToSet(searched))
        urls == searched \o fromUrl \o fallback
    IN  SelectSeq(urls, IsLocal) \o SelectSeq(urls, LAMBDA s : ~IsLocal(s))
=============================================================================
