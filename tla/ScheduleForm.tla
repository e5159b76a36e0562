---------------------------- MODULE ScheduleForm ----------------------------
(***************************************************************************)
(* The form in which an admin opens a showing for sale or edits one:       *)
(* handlers/schedule_hl.py behind the list of /settings, while its seats   *)
(* are booked.  A new showing is asked for step by step; of one that       *)
(* exists the summary is shown, and an answer leads back to it.            *)
(*                                                                         *)
(* A press edits the message it is on.  A typed answer edits the message   *)
(* whose id the form has noted, and Telegram refuses to edit a message     *)
(* that is gone or would not change: nobody expects that, error_handler    *)
(* cleans up, and the form is lost.                                        *)
(*                                                                         *)
(* Seats are those of one kind; a price, the flags "gift" and "tree" and   *)
(* pages of a list are left out.                                           *)
(***************************************************************************)
EXTENDS SettingsMenu

CONSTANTS
    Events,     \* bound: rows the table may get
    First,      \* the showing there is from the start
    Seats,      \* numbers of seats an admin types
    MaxMoves    \* bound: forms, bookings, questions put again, repeated or
                \* wrong answers

VARIABLES
    data,       \* new_schedule_event['data']
    service,    \* new_schedule_event['service']
    dels,       \* states whose saved screen names the message to be deleted
    rows,       \* the table schedule_events: seats and free seats
    opened,     \* seats a showing was opened with
    taken,      \* seats that are booked
    busy,       \* showings booked or released while a form on them was open
    clean,      \* the form had no step back, no repeated press, no refusal
    moves

own == <<data, service, dels, clean>>
table == <<rows, opened, taken, busy>>
vars == <<menu, own, table, moves>>

New == "new"
NoData == [type |-> FALSE, play |-> FALSE, date |-> FALSE, qty |-> 0, free |-> 0,
           santa |-> FALSE, tickets |-> FALSE, on |-> TRUE]
\* known: message_id names the message with the buttons.
NoService == [id |-> New, jump |-> FALSE, temp |-> FALSE, filter |-> "actual",
              known |-> TRUE]

Init ==
    /\ MenuInit /\ data = NoData /\ service = NoService /\ dels = {} /\ clean = TRUE
    /\ \E n \in Seats : /\ rows = [e \in {First} |-> [qty |-> n, free |-> n]]
                        /\ opened = [e \in {First} |-> n]
    /\ taken = [e \in Events |-> 0] /\ busy = {} /\ moves = 0

Steps == {"SCH_TYPE", "SCH_THEATER", "SCH_DATETIME", "SCH_QTY_CHILD",
          "SCH_QTY_ADULT", "SCH_PRICE_TYPE", "SCH_FLAGS", "SCH_BT_SELECT"}
States == Steps \cup {"SCH_CONFIRM"}

Free == UNCHANGED moves
Move == moves < MaxMoves /\ moves' = moves + 1
IsUpdate == service'.id # New

----------------------------------------------------------------------------
(* Screens.  data' and service' are given before a screen is shown.        *)

Wipe == conv' = "wiped" /\ screen' = Blank /\ saved' = << >> /\ dels' = {}
\* A screen that is saved; one that is not.  ok: the edit has a message.
Page(s, scr, ok) ==
    IF ok /\ screen # scr THEN Enter(s, scr) /\ dels' = dels \ {s} ELSE Wipe
Note(s, scr, ok) ==
    IF ok /\ screen # scr THEN Show(s, scr) /\ UNCHANGED dels ELSE Wipe

\* "Back" of a question, in a new form.
Before(s) ==
    CASE s = "SCH_TYPE" -> "3"                   [] s = "SCH_THEATER" -> "SCH_TYPE"
      [] s = "SCH_DATETIME" -> "SCH_THEATER"     [] s = "SCH_QTY_CHILD" -> "SCH_DATETIME"
      [] s = "SCH_QTY_ADULT" -> "SCH_QTY_CHILD"  [] s = "SCH_PRICE_TYPE" -> "SCH_QTY_CHILD"
      [] s = "SCH_FLAGS" -> "SCH_QTY_ADULT"      [] s = "SCH_BT_SELECT" -> "SCH_PRICE_TYPE"
Target(s) ==
    IF service'.jump \/ (IsUpdate /\ s \in {"SCH_FLAGS", "SCH_BT_SELECT"})
    THEN "SCH_CONFIRM" ELSE Before(s)
Question(s) == Shown(s, Target(s))
If(c, mark) == IF c THEN {mark} ELSE {}
WithMarks(s, marks) == [Question(s) EXCEPT !.shows = marks]

\* The screens of each question.  svc: the service data its caller leaves.
ask_type_event(svc) ==
    service' = svc /\ Page("SCH_TYPE", Question("SCH_TYPE"), TRUE)
_render_theater_list(svc) ==
    /\ service' = [svc EXCEPT !.known = TRUE]
    /\ Page("SCH_THEATER", WithMarks("SCH_THEATER", {svc.filter}), TRUE)
ask_datetime(svc) ==
    /\ service' = [svc EXCEPT !.known = TRUE]
    /\ Page("SCH_DATETIME", Question("SCH_DATETIME"), TRUE)
ask_qty_child(svc, ok) ==
    service' = svc /\ Page("SCH_QTY_CHILD", Question("SCH_QTY_CHILD"), ok)
ask_qty_adult(svc, ok) ==
    service' = svc /\ Page("SCH_QTY_ADULT", Question("SCH_QTY_ADULT"), ok)
\* After a typed answer the id of that answer is noted, which is deleted.
ask_price_type(svc, ok, typed) ==
    /\ service' = [svc EXCEPT !.known = ~typed]
    /\ Page("SCH_PRICE_TYPE", Question("SCH_PRICE_TYPE"), ok)
ask_flags(svc) ==
    /\ service' = [svc EXCEPT !.known = TRUE]
    /\ Page("SCH_FLAGS", WithMarks("SCH_FLAGS", If(data'.santa, "santa")), TRUE)
\* The list is saved without its buttons.
_render_multi_select == WithMarks("SCH_BT_SELECT", If(data'.tickets, "marked"))
ask_base_tickets(svc) ==
    /\ service' = svc
    /\ IF screen = _render_multi_select THEN Wipe
       ELSE /\ conv' = "SCH_BT_SELECT" /\ screen' = _render_multi_select
            /\ saved' = With(saved, "SCH_BT_SELECT", Blank)
            /\ dels' = dels \ {"SCH_BT_SELECT"}

\* Both summaries format the date: without one they fail.
ask_schedule_summary(svc, ok) ==
    /\ service' = svc
    /\ Page("SCH_CONFIRM", [Shown("SCH_CONFIRM", "3") EXCEPT !.shows = If(data'.on, "on")],
            ok /\ data'.date)
ask_summary(svc) ==
    service' = svc /\ Page("SCH_CONFIRM", Shown("create", "SCH_FLAGS"), data'.date)

----------------------------------------------------------------------------
(* Opening the form.  Everybody who is here before is left out of the form. *)

Unchanged == UNCHANGED <<table>>

\* The list of the showings, and what it leads to.
schedule_event_select ==
    /\ \/ get_settings("schedule_event", DOMAIN rows)
       \/ select_again("schedule_event", DOMAIN rows) \/ choose_filter(DOMAIN rows)
    /\ dels' = dels \ {"3"}
    /\ UNCHANGED <<data, service, clean>> /\ Unchanged /\ Free

\* StraightNeverFails: only the data is made anew, not the service data.
Bug_old_service ==
    /\ conv = "3" /\ screen.kind = "schedule_event" /\ Move
    /\ data' = NoData /\ clean' = TRUE /\ Unchanged
    /\ ask_type_event([service EXCEPT !.id = New])

schedule_create_start ==
    /\ conv = "3" /\ screen.kind = "schedule_event" /\ Move
    /\ data' = NoData /\ clean' = TRUE /\ Unchanged
    /\ ask_type_event(NoService)

\* Everything is loaded, the free seats too.
schedule_update_start ==
    /\ conv = "3" /\ screen.kind = "schedule_event" /\ Move
    /\ \E e \in screen.shows :
         /\ data' = [NoData EXCEPT !.type = TRUE, !.play = TRUE, !.date = TRUE,
                                   !.qty = rows[e].qty, !.free = rows[e].free]
         /\ clean' = TRUE /\ Unchanged
         /\ ask_schedule_summary([NoService EXCEPT !.id = e], TRUE)

----------------------------------------------------------------------------
(* Answers.                                                                *)

\* Back to the summary when the question was put from there.
ThenFrom(svc, d, typed, next(_)) ==
    /\ data' = d /\ Unchanged /\ UNCHANGED clean /\ Free
    /\ IF svc.jump
       THEN ask_schedule_summary([svc EXCEPT !.jump = FALSE], ~typed \/ svc.known)
       ELSE next(svc)
Then(d, typed, next(_)) == ThenFrom(service, d, typed, next)
Pressed(s) == conv = s /\ screen.kind = s
\* A press or an answer that puts the same question again.
Again(d) == data' = d /\ clean' = FALSE /\ Unchanged /\ Move

handle_type_selected ==
    /\ Pressed("SCH_TYPE")
    /\ Then([data EXCEPT !.type = TRUE], FALSE, _render_theater_list)

handle_theater_cb ==
    /\ Pressed("SCH_THEATER")
    /\ \/ Then([data EXCEPT !.play = TRUE], FALSE, ask_datetime)
       \/ /\ Again(data)
          /\ \E f \in {"actual", "all"} :
                _render_theater_list([service EXCEPT !.filter = f])

\* The date stays noted when the time is never typed.
handle_datetime_btn ==
    /\ Pressed("SCH_DATETIME") /\ data' = data /\ UNCHANGED clean /\ Unchanged /\ Free
    /\ service' = [service EXCEPT !.temp = TRUE]
    /\ Note("SCH_DATETIME", Shown("time", "SCH_DATETIME"), TRUE)

\* A time when a date is noted, else a full date.  "Back" of a refused date
\* is the list of plays, in an edited showing too.
handle_datetime ==
    /\ conv = "SCH_DATETIME"
    /\ \/ ThenFrom([service EXCEPT !.temp = FALSE], [data EXCEPT !.date = TRUE],
                   TRUE, LAMBDA svc : ask_qty_child(svc, svc.known))
       \/ /\ Again(data) /\ UNCHANGED service
          /\ Note("SCH_DATETIME", Shown("wrong", IF service.temp THEN "SCH_DATETIME"
                                                 ELSE "SCH_THEATER"), service.known)

handle_qty_child ==
    /\ conv = "SCH_QTY_CHILD"
    /\ \/ \E n \in Seats : Then([data EXCEPT !.qty = n], TRUE, LAMBDA svc :
                                ask_qty_adult(svc, svc.known))
       \/ /\ Again(data) /\ UNCHANGED service
          /\ Note("SCH_QTY_CHILD", [Question("SCH_QTY_CHILD") EXCEPT !.kind = "wrong"],
                  service.known)
handle_qty_adult ==
    /\ conv = "SCH_QTY_ADULT"
    /\ \/ Then(data, TRUE, LAMBDA svc : ask_price_type(svc, svc.known, TRUE))
       \/ /\ Again(data) /\ UNCHANGED service
          /\ Note("SCH_QTY_ADULT", [Question("SCH_QTY_ADULT") EXCEPT !.kind = "wrong"],
                  service.known)

handle_price_type == Pressed("SCH_PRICE_TYPE") /\ Then(data, FALSE, ask_flags)

\* "Done", in an edited showing, does not end the jump.
handle_flags ==
    /\ Pressed("SCH_FLAGS") /\ Unchanged /\ UNCHANGED clean
    /\ \/ Move /\ data' = [data EXCEPT !.santa = ~@] /\ ask_flags(service)
       \/ /\ Free /\ data' = data
          /\ IF screen.back = "SCH_CONFIRM" THEN ask_schedule_summary(service, TRUE)
                                            ELSE ask_base_tickets(service)

handle_base_tickets_cb ==
    /\ Pressed("SCH_BT_SELECT") /\ Unchanged
    /\ \/ /\ Move /\ UNCHANGED clean
          /\ data' = [data EXCEPT !.tickets = ~@] /\ UNCHANGED service
          /\ Note("SCH_BT_SELECT", _render_multi_select, TRUE)
       \/ /\ Again(data) /\ UNCHANGED service       \* the page it is on
          /\ Note("SCH_BT_SELECT", _render_multi_select, TRUE)
       \/ /\ Free /\ UNCHANGED clean                \* done; skipped
          /\ data' \in {data, [data EXCEPT !.tickets = FALSE]}
          /\ IF service.id # New THEN ask_schedule_summary(service, TRUE)
                                 ELSE ask_summary(service)

----------------------------------------------------------------------------
(* The summary.                                                            *)

Edit == Pressed("SCH_CONFIRM") /\ Move /\ Unchanged /\ UNCHANGED clean
Jump == [service EXCEPT !.jump = TRUE]
edit_type_start == Edit /\ data' = data /\ ask_type_event(Jump)
edit_theater_start == Edit /\ data' = data /\ _render_theater_list(Jump)
edit_datetime_start == Edit /\ data' = data /\ ask_datetime(Jump)
edit_qty_child_start == Edit /\ data' = data /\ ask_qty_child(Jump, TRUE)
edit_qty_adult_start == Edit /\ data' = data /\ ask_qty_adult(Jump, TRUE)
edit_price_type_start == Edit /\ data' = data /\ ask_price_type(Jump, TRUE, FALSE)
edit_flags_start == Edit /\ data' = data /\ ask_flags(Jump)
edit_bt_start == Edit /\ data' = data /\ ask_base_tickets(Jump)
edit_turn_start ==
    Edit /\ data' = [data EXCEPT !.on = ~@] /\ ask_schedule_summary(service, TRUE)

create_schedule_event ==
    \E e \in Events \ DOMAIN rows :
        /\ rows' = With(rows, e, [qty |-> data.qty, free |-> data.qty])
        /\ opened' = With(opened, e, data.qty)

\* FreeSeatsKept: the free seats are computed from the number of seats.
Bug_recomputed ==
    /\ rows' = [rows EXCEPT ![service.id] = [qty |-> data.qty, free |-> data.qty]]
    /\ UNCHANGED opened

\* Every loaded field is written back, whatever the table holds by now.
update_schedule_event ==
    /\ rows' = [rows EXCEPT ![service.id] = [qty |-> data.qty, free |-> data.free]]
    /\ UNCHANGED opened

\* When the table refuses, the form stays where it is.
handle_confirm_save ==
    /\ conv = "SCH_CONFIRM" /\ screen.kind \in {"SCH_CONFIRM", "create"}
    /\ UNCHANGED <<data, service, clean, taken, busy>>
    /\ \/ /\ Free /\ db /\ dels' = dels \ {"2"}
          /\ IF service.id = New THEN create_schedule_event ELSE update_schedule_event
       \/ Move /\ UNCHANGED <<menu, dels, rows, opened>>

----------------------------------------------------------------------------
(* Others.                                                                 *)

\* Bookings and cancellations go on.
Touched(e) ==
    busy' = IF conv \in States /\ service.id = e THEN busy \cup {e} ELSE busy
change_seats(e) ==
    /\ \/ /\ rows[e].free > 0
          /\ rows' = [rows EXCEPT ![e].free = @ - 1]
          /\ taken' = [taken EXCEPT ![e] = @ + 1]
       \/ /\ taken[e] > 0
          /\ rows' = [rows EXCEPT ![e].free = @ + 1]
          /\ taken' = [taken EXCEPT ![e] = @ - 1]
    /\ Touched(e) /\ Move /\ UNCHANGED <<menu, own, opened>>
Bookings == \E e \in DOMAIN rows : change_seats(e)

\* Menus of the dialog that have nothing to do with the form.
theater_event_select == get_settings("theater_event", {}) \/ select_again("theater_event", {})
base_ticket_select == get_settings("base_ticket", {}) \/ select_again("base_ticket", {})
event_type_select == get_settings("event_type", {})
Entered ==
    \/ choice_db_settings \/ get_updates_option \/ theater_event_select
    \/ base_ticket_select \/ event_type_select
Menu ==
    /\ \/ start_settings /\ dels' = {}
       \/ Entered /\ dels' = dels \ {conv'}
       \/ theater_event_create /\ dels' = {}
       \/ /\ filter_menu \/ update_start_later \/ theater_event_preview
             \/ theater_event_check \/ cancel
          /\ UNCHANGED dels
    /\ UNCHANGED <<data, service, clean>> /\ Unchanged /\ Free

\* The message that "back" has shown before is deleted first, and the screen
\* is sent anew: the form does not learn its id.
Back ==
    /\ back /\ Move /\ Unchanged /\ UNCHANGED data /\ clean' = FALSE
    /\ IF screen.back \in dels
       THEN dels' = {screen.back} /\ service' = [service EXCEPT !.known = FALSE]
       ELSE dels' = dels \cup {screen.back} /\ UNCHANGED service

Next ==
    \/ Menu \/ Back \/ Bookings \/ schedule_event_select
    \/ schedule_create_start \/ schedule_update_start \/ handle_type_selected
    \/ handle_theater_cb \/ handle_datetime_btn \/ handle_datetime
    \/ handle_qty_child \/ handle_qty_adult \/ handle_price_type \/ handle_flags
    \/ handle_base_tickets_cb \/ edit_type_start \/ edit_theater_start
    \/ edit_datetime_start \/ edit_qty_child_start \/ edit_qty_adult_start
    \/ edit_price_type_start \/ edit_flags_start \/ edit_bt_start
    \/ edit_turn_start \/ handle_confirm_save

Spec == Init /\ [][Next]_vars

----------------------------------------------------------------------------
(* Properties.                                                             *)

\* Saving a form, of whatever number of seats, leaves what is free of the seats
\* a showing was opened with, unless somebody booked or released a seat of it
\* while a form on it was open: the loaded counter is written back then.
FreeSeatsKept ==
    \A e \in DOMAIN rows \ busy : rows[e].free = opened[e] - taken[e]

\* No step of a form that is filled in without a step back, a repeated press
\* or a refused answer fails: nothing that a step reads was left unset, every
\* message it edits is there.  With them it may (ids of deleted messages).
NoFailure == clean' /\ conv \in States => conv' # "wiped"
StraightNeverFails == [][NoFailure]_vars
=============================================================================
