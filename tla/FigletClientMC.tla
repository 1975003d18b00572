--------------------------- MODULE FigletClientMC ---------------------------
(* A short session for TLC: some banners and answers contain a line that *)
(* starts with a dot. *)
EXTENDS FigletClient

MCMessage == <<"m", "\r", "\n">>
MCBanners == {<<"b">>, <<"b", "\r", "\n", ".", "b">>}
MCArts == {<<"a", "\r", "\n", "a">>, <<".", "a">>, <<"a", "\r", "\n", ".", "a">>}
=============================================================================
