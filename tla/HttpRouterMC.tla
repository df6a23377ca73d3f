---------------------------- MODULE HttpRouterMC ----------------------------
(***************************************************************************)
(* TLC instances of HttpRouter: the patterns that interact, and every URL  *)
(* of up to two segments over the names they have, and one too long.       *)
(***************************************************************************)
EXTENDS HttpRouter

MCPatterns == {<<"">>, <<"a">>, <<":">>, <<"*">>, <<"a", ":">>, <<":", "a">>}

MCUrls == [1 .. 1 -> {"a", "b", ""}] \cup [1 .. 2 -> {"a", "b", ""}] \cup {<<"a", "a", "b">>}

=============================================================================
