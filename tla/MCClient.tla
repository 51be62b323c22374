------------------------------ MODULE MCClient ------------------------------
(***************************************************************************)
(* Two accounts, the first a member of both groups; two reminders of one   *)
(* group; a Bible of two books, the first of two chapters; two weeks, the  *)
(* first of two days, with a book in two parts, videos with and without a  *)
(* resource and an outline; titles of a series, of a part of it, of an     *)
(* edition with pages, of a transcript and of another series; two          *)
(* ministries in the catalogue and two chats of a robot.                   *)
(***************************************************************************)
EXTENDS Client, TLC

CONSTANTS u1, u2, g1, g2

MCActs    == [session |-> 3, editor |-> 2, reminders |-> 3, reports |-> 3, quiz |-> 6, list |-> 4,
              alerts |-> 4, memory |-> 5, catalog |-> 3, bots |-> 3]
MCMishaps == [editor |-> 1, reminders |-> 1, reports |-> 1, quiz |-> 1, alerts |-> 1,
              catalog |-> 1, bots |-> 1]
MCCalls   == [session |-> 2, editor |-> 2, reminders |-> 2, quiz |-> 3, memory |-> 2,
              catalog |-> 2, bots |-> 2]

MCGroupsOf == u1 :> {g1, g2} @@ u2 :> {g1}
MCSentIn   == 1 :> g1 @@ 2 :> g1
MCBible    == <<2, 1>>
MCWeekOf   == <<1, 1, 2>>

Study(k, w, a, ps) == [kind |-> k, week |-> w, asset |-> a, pages |-> ps]
MCTasks  == <<Study("weekly_book", 1, 7, {1, 2}), Study("weekly_book", 1, 7, {3}),
              Study("weekly_video", 1, 8, {}), Study("weekly_video", 1, 9, {}),
              Study("weekly_video", 2, 8, {}), Study("weekly_outline", 1, 0, {})>>
MCDrafts == {Study("weekly_book", 1, 7, {1}), Study("weekly_video", 1, 8, {}),
             Study("weekly_video", 1, 0, {}), Study("weekly_outline", 1, 0, {})}

MCTitles  == {<<"A">>, <<"A", "one">>, <<"A", "notes", "pages">>, <<"A", "script">>, <<"B">>}
MCUploads == {<<"passage", "pdf">>, <<"handout", "pdf">>, <<"video", "audio">>, <<"outline", "image">>}
=============================================================================
