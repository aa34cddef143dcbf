--------------------------- MODULE MCCacheWrapper ---------------------------
(* The cache for TLC: two directories with one file each, to move onto one    *)
(* another; the file of the first and the root's listing are cached.          *)
EXTENDS CacheWrapper

MCPath == {<<>>, <<"d">>, <<"d", "f">>, <<"e">>, <<"e", "f">>}
MCFiles == {<<"d", "f">>, <<"e", "f">>}
MCInitFs == [p \in MCPath |-> CASE p = <<"d", "f">> -> "a" [] p = <<"e", "f">> -> "b" [] OTHER -> "dir"]
MCAdmitted == {<<"file", <<"d", "f">>>>, <<"dir", <<>>>>}
=============================================================================
