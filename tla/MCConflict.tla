----------------------------- MODULE MCConflict -----------------------------
(***************************************************************************)
(* Two conflicts with lines before, between and after them, in each of the *)
(* styles git writes; a line of the other lines, and of their side, can be *)
(* one that underlines a heading.                                          *)
(***************************************************************************)
EXTENDS Conflict

Sides ==
    {Conflicting(sides[1], base, sides[2]) :
        sides \in {<<<<>>, <<"b">>>>, <<<<"a">>, <<>>>>, <<<<"a">>, <<"b">>>>, <<<<"a">>, <<Separator>>>>},
        base \in {<<>>, <<Base, "o">>}}

Lines == {Common(<<"x">>), Common(<<"x", Separator, "y">>)}

Ends == {Common(<<Empty>>), Common(<<"x", "y", "z">>)}

TwoConflicts ==
    {<<before, first, between, second, after>> :
        before \in Lines \cup {Common(<<>>)}, first \in Sides, between \in Lines, second \in Sides, after \in Ends}
=============================================================================
