----------------------------- MODULE MCWebPages -----------------------------
(* Small instances of the web pages.                                        *)
EXTENDS WebPages

\* Topic lists a job form may start from.
MCLists == {<<"a">>, <<"a", "a">>}

\* A candidate of one job, and one who has not applied yet to the other.
MCJobOf == [a \in Apps |-> IF a = "a" THEN "j" ELSE "k"]
MCFirstRows == [a \in Apps |-> IF a = "a" THEN [status |-> "interview_sent", ver |-> 0] ELSE NoRow]
MCSearches == {Apps, {"a"}}
=============================================================================
