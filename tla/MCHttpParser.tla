---------------------------- MODULE MCHttpParser ----------------------------
(* Requests that are shorter than the buffer, fill it and are longer, with *)
(* every kind of line end, body and boundary; three of them one after the  *)
(* other.                                                                  *)
EXTENDS HttpParser

MCLength == [two |-> 2, four |-> 4, five |-> 5, eight |-> 8]

Msg(l, hs, b) == [line |-> l, headers |-> hs, body |-> b, eol |-> <<CR, LF>>]

MCMessages == {
    Msg("get", <<>>, <<>>),
    Msg("get", <<"close", "keep">>, <<>>),
    Msg("bad", <<"keep">>, <<>>),
    [Msg("get", <<"keep">>, <<>>) EXCEPT !.eol = <<LF>>],
    [Msg("get", <<"keep">>, <<>>) EXCEPT !.eol = <<CR>>],
    Msg("post", <<"keep", "two">>, <<"data", "more">>),
    Msg("post", <<"eight", "keep", "close">>,
        <<"data", "data", "data", "data", "data", "data", "data", "more">>),
    Msg("upload", <<"keep", "two">>, <<"data", "more">>),
    Msg("upload", <<"bound", "keep", "five">>, <<"part", "data", CR, LF, "end">>),
    Msg("upload", <<"four", "bound">>, <<"part", CR, LF, "end">>),
    Msg("upload", <<"bound", "five">>, <<"part", NUL, CR, LF, "end">>),
    Msg("upload", <<"keep", "bound", "eight">>,
        <<"part", "data", "more", "data", "more", CR, LF, "end">>)}
=============================================================================
