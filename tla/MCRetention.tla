----------------------------- MODULE MCRetention -----------------------------
(* Values for the constants of Groups and Retention. *)
EXTENDS Groups, TLC

CONSTANTS c1, parent, child, tmp

\* A day, and the least time more than a day; as long as a run lasts.
DayAndUnit == {Day, Day + 1}

MoreThanDay == Day + 1

\* A directory and one inside it.
Nested == {<<parent, parent>>, <<child, child>>, <<parent, child>>}

FewEntries ==
    [s \in Numbers |->
        CASE s = "days_to_keep_prev_versions" -> DaysChoices
          [] OTHER -> {}]
=============================================================================
