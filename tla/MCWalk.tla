------------------------------- MODULE MCWalk -------------------------------
(* The instance of Walk that TLC checks: feeds that mix what a card can be. *)
EXTENDS Walk

MCFeeds == {<<"known", "fresh", "bare">>, <<"long", "edited", "known">>,
            <<"blind", "fresh", "known">>, <<"foreign", "edited", "bare">>}
MCAuthor == <<"a", "b", "a">>
=============================================================================
