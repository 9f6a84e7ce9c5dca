------------------------- MODULE MCQuestionGenerator -------------------------
(* The templates and resumes that TLC tries for QuestionGenerator.          *)
EXTENDS QuestionGenerator

MCLimits == 1 .. 12
MCCustoms == 0 .. 4
MCProjects == 0 .. 8
MCRatios == {-10, 0, 5, 10, 25, 33, 40, 50, 60, 75, 90, 95, 100, 110, Null}
=============================================================================
