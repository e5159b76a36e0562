---------------------------- MODULE SettingsMenu ----------------------------
(***************************************************************************)
(* The conversation /settings of an admin: its menus and lists             *)
(* (handlers/support_hl.py).  The forms behind the lists are in            *)
(* PromotionForm.tla and ScheduleForm.tla, which extend this module.       *)
(*                                                                         *)
(* The screen is the last message with buttons; "back" shows the screen    *)
(* that was saved last for a state.  Pages of the lists are left out.      *)
(***************************************************************************)
EXTENDS Naturals, FiniteSets

VARIABLES
    conv,     \* state of the conversation; "wiped": an error has cleaned up
    screen,   \* its kind, the target of "back", more
    saved     \* reserve_user_data['back']: state -> screen

menu == <<conv, screen, saved>>

NoBack == "none"
\* skip: the button "to the confirmation".  shows: what the screen says, in a
\* set (the data of a summary, the ids of a list).  form: which form it is of.
Shown(kind, back) ==
    [kind |-> kind, back |-> back, skip |-> FALSE, shows |-> {}, form |-> 0]
Blank == Shown("blank", NoBack)   \* a message without buttons

\* A dictionary with one more entry, or another value for the key.
With(f, k, v) == [x \in DOMAIN f \cup {k} |-> IF x = k THEN v ELSE f[x]]

\* A screen that is saved for its state, and one that is only shown.
Enter(s, scr) == conv' = s /\ screen' = scr /\ saved' = With(saved, s, scr)
Show(s, scr) == conv' = s /\ screen' = scr /\ UNCHANGED saved

MenuInit == conv = "idle" /\ screen = Blank /\ saved = << >>

----------------------------------------------------------------------------

\* An older dialog is left; nothing it saved can be shown again.
start_settings ==
    /\ conv' = "1" /\ screen' = Shown("start", NoBack)
    /\ saved' = With(<<>>, "1", screen')

db == Enter("2", Shown("db", "1"))
choice_db_settings == conv = "1" /\ screen.kind = "start" /\ db
get_updates_option ==
    /\ conv = "1" /\ screen.kind = "start"
    /\ LET scr == Shown("updates", "1") IN
       conv' = "updates" /\ screen' = scr /\ saved' = With(saved, "UPDATES", scr)

\* A list with its rows; a filter or a page shows it again.
_paginated_select(list, rows) ==
    Enter("3", [Shown(list, "2") EXCEPT !.shows = rows])
get_settings(list, rows) ==
    conv = "2" /\ screen.kind = "db" /\ _paginated_select(list, rows)
select_again(list, rows) ==
    conv = "3" /\ screen.kind = list /\ _paginated_select(list, rows)

\* The menu of a filter over the showings is not saved.
filter_menu ==
    /\ conv = "3" /\ screen.kind = "schedule_event"
    /\ Show("3", Shown("filter", "3"))
choose_filter(rows) ==
    /\ conv = "3" /\ screen.kind = "filter"
    /\ _paginated_select("schedule_event", rows)

\* Plays, kinds of ticket and types cannot be edited yet.
update_start_later ==
    /\ conv = "3" /\ screen.kind \in {"theater_event", "base_ticket", "event_type"}
    /\ Show("3", Shown("later", "3"))

\* A play is written as a text after a template, and confirmed.  The handler
\* of the confirmation reads user_data['reply_markup'], which nobody has set:
\* it fails, and error_handler cleans up.
theater_event_preview ==
    conv = "3" /\ screen.kind = "theater_event" /\ Show("41", Blank)
theater_event_check ==
    conv = "41" /\ Show("41", Shown("check", NoBack))
theater_event_create ==
    /\ conv = "41" /\ screen.kind = "check"
    /\ conv' = "wiped" /\ screen' = Blank /\ saved' = << >>

cancel ==
    /\ conv \notin {"idle", "wiped"} /\ screen.kind # "blank"
    /\ conv' = "idle" /\ screen' = Blank /\ UNCHANGED saved

\* main_hl.back; for a state that was never saved it only says so.
CanGoBack == screen.back # NoBack /\ screen.back \in DOMAIN saved
back ==
    /\ conv \notin {"idle", "wiped", "41"} /\ CanGoBack
    /\ conv' = screen.back /\ screen' = saved[screen.back] /\ UNCHANGED saved
=============================================================================
