------------------------------ MODULE MCCheckins ------------------------------
(* Two calendar weeks of a group: dates 1 and 2, and date 3.  The first week  *)
(* has a book, a video and an outline, the second the same video again.       *)
EXTENDS Checkins, TLC

MCSlot == [d \in Dates |-> IF d < 3 THEN 1 ELSE 2]

Study(k, w, a, ps) == [kind |-> k, week |-> w, enabled |-> TRUE, asset |-> a, pages |-> ps]

MCTasks == <<Study("weekly_book", 1, 7, {1, 2}), Study("weekly_video", 1, 8, {}),
             Study("weekly_video", 2, 8, {}), Study("weekly_outline", 1, 0, {})>>

\* Fewer pages of the same book, or the video once more.
MCDrafts == {<<Study("weekly_book", 1, 7, {1})>>, <<Study("weekly_video", 1, 8, {})>>}

Interchangeable == Permutations(Requests)
=============================================================================
