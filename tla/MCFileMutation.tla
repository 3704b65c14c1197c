--------------------------- MODULE MCFileMutation ---------------------------
(* A small instance of FileMutation for TLC: every short file over a letter *)
(* and the two characters of line endings, longer ones in which matches     *)
(* overlap, and steps of up to two edits.                                   *)
EXTENDS FileMutation

MCChar == {"a", "b", CR, LF}

Over(chars, n) == UNION {[1 .. k -> chars] : k \in 0 .. n}

MCContents ==
    {Absent} \cup Over({"a", CR, LF}, 3) \cup Over({"a", "b"}, 3) \cup [1 .. 4 -> {"a", "b"}]
    \cup {<<"a", CR, LF, "a", "a">>, <<"a", "b", "a", "b", "a">>}

Change(old, new, occurrence) == [old |-> old, new |-> new, occurrence |-> occurrence]

AnyEdit ==
    {Change(old, new, n) :
        old \in {<<>>, <<"a">>, <<"a", "a">>, <<"b", "a">>, <<LF>>},
        new \in {<<>>, <<"a">>, <<"a", "b">>},
        n \in {Absent, 1, 2, 3}}

FirstEdit == {e \in AnyEdit : e.occurrence \in {Absent, 2}}

LastEdit ==
    {Change(<<"a">>, <<"b">>, 2), Change(<<"b">>, <<>>, Absent), Change(<<>>, <<"a">>, 1),
     Change(<<"b">>, <<"b">>, 3), Change(<<"a", LF>>, <<CR, LF>>, Absent)}

Ask(tool, edits, guard, text) ==
    [tool |-> tool, edits |-> edits, guard |-> guard, text |-> text]

MCRequests ==
    {Ask("PATCH_EDIT", <<e>>, guard, <<>>) : e \in AnyEdit, guard \in {Absent, <<"a", LF>>}}
    \cup {Ask("PATCH_EDIT", <<e, f>>, Absent, <<>>) : e \in FirstEdit, f \in LastEdit}
    \cup {Ask(tool, <<>>, Absent, text) :
             tool \in {"PATCH_APPLY", "FILE_CREATE"}, text \in {<<>>, <<"a", LF>>, <<"a", CR, LF>>}}

UnixLineSep == <<LF>>
=============================================================================
