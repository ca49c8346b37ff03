----------------------------- MODULE MCSourceFetch -----------------------------
(* Instances of SourceFetch for TLC: two theaters, one of which shows a film  *)
(* in two rooms under two spellings, and a film of another day.               *)
EXTENDS SourceFetch

Row(m, d, ts) == [movie |-> m, date |-> d, times |-> ts]

MCSchedule == << {Row("a", "today", {0}), Row("a", "today", {1}), Row("a", "later", {0})},
                 {Row("a", "today", {1}), Row("b", "later", {1})} >>
MCSchedule1 == <<MCSchedule[1]>>
MCOther    == << {Row("a", "today", {1})}, {Row("a", "today", {0}), Row("b", "later", {0})} >>
MCFlagSets == {[crossCheck |-> TRUE, imdb |-> FALSE, date |-> "today"],
               [crossCheck |-> TRUE, imdb |-> FALSE, date |-> "later"],
               [crossCheck |-> FALSE, imdb |-> TRUE, date |-> "today"]}
MCUserRates == {0 - 1, 0, 2, 8}
MCBudgets  == {[remaining |-> 1, secs |-> 2], [remaining |-> 8, secs |-> 2]}
=================================================================================
