----------------------------- MODULE MCRefresh -----------------------------
(* Instance of Refresh for TLC. *)
EXTENDS Refresh

\* Two sources that share a directory, two that do not, and a list.
FeedsMC ==
    {[plugin |-> "singbox", sources |-> <<<<"a", "/", "b">>, <<"a", ":", "b", " ">>>>],
     [plugin |-> "fofa", sources |-> <<<<"a">>, <<"b">>>>],
     [plugin |-> "fpl", sources |-> <<<<"default">>>>]}

\* Contents without a candidate, with one, and with one twice, and items of the
\* other kinds between them.
ContentMC ==
    {<<>>, <<"bad">>, <<"bad", "c2">>, <<"c1", "ignored", "c1">>, <<"c1", "toolong", "c2">>}
=============================================================================
