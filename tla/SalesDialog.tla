---------------------------- MODULE SalesDialog ----------------------------
(***************************************************************************)
(* The dialog in which an admin prepares a mailing: handlers/sales_hl.py,  *)
(* command /sales.  The admin chooses a type, then either a play, its      *)
(* showings and the plays whose visitors are addressed, or filters over    *)
(* the tickets; the audience is found and stored with a new campaign; a    *)
(* message is asked for, shown, and the campaign is started.  What becomes *)
(* of a started campaign is in Mailing.tla.                                *)
(*                                                                         *)
(* Messages stay in the chat: every button the dialog's state answers may  *)
(* be pressed, also one of an older message, and "back" goes to any screen *)
(* that was saved since the dialog began.  A choice is kept in user_data   *)
(* until it is overwritten, whatever way the admin goes.  The numbers of   *)
(* the lists, their pages and the kinds of message are left out.           *)
(***************************************************************************)
EXTENDS Naturals, FiniteSets

CONSTANTS
    Plays,         \* theater_events in the active repertoire
    Showings,      \* schedule_events in the future and turned on in the bot
    PlayOf,        \* the play of a showing
    Visitors,      \* chats of those who were at a play in the last year
    Tickets,       \* rows of ticket, holder and showing: see Select
    Someone,       \* chats a developer types
    MaxMoves       \* bound: marks set and removed and steps back, in all

VARIABLES
    conv,     \* state of the conversation; wiped: an error has cleaned up
    saved,    \* the screens "back" can show again
    sales,    \* user_data['sales']
    row,      \* the campaign of sales['campaign_id'], its showings, recipients
    found,    \* whom the last selection found, and whether it made a campaign
    moves

vars == <<conv, saved, sales, row, found, moves>>

Filters == {"status", "type_event", "theater_event", "schedule_event",
            "base_ticket"}
NoFilters == [f \in Filters |-> {}]
NoPlay == "none"
Nothing == [made |-> FALSE, to |-> {}]
NoCampaign == [type |-> "none", play |-> NoPlay, showings |-> {}, to |-> {},
               written |-> FALSE, status |-> "none"]

\* start_sales: "completely reset sales state".
Reset(dev) ==
    [dev |-> dev, type |-> "none", play |-> NoPlay, schedule_ids |-> {},
     manual |-> {}, cache |-> NoPlay, filters |-> NoFilters, ticket_ids |-> {},
     f_time |-> "future", f_show |-> "on", audience |-> {}]

Init ==
    /\ conv = "idle" /\ saved = {} /\ sales = Reset(FALSE)
    /\ row = NoCampaign /\ found = Nothing /\ moves = 0

----------------------------------------------------------------------------
(* Who is addressed.                                                       *)

_get_available_schedules(p) == {s \in Showings : PlayOf[s] = p}

_select_audience_rows(plays) == UNION {Visitors[p] : p \in plays}

\* Ids typed by hand override the filters; showings that were chosen
\* override the two switches over the list of showings.
_select_ticket_holders_audience(d) ==
    LET F == d.filters
        Hit(t) ==
            IF d.ticket_ids # {} THEN t.id \in d.ticket_ids
            ELSE /\ t.status \in IF F["status"] = {} THEN {"PAID", "APPROVED"}
                                 ELSE F["status"]
                 /\ \A f \in {"type_event", "theater_event", "base_ticket"} :
                       F[f] = {} \/ t[f] \in F[f]
                 /\ IF F["schedule_event"] # {}
                    THEN t.schedule_event \in F["schedule_event"]
                    ELSE /\ d.f_time \in {"all", IF t.past THEN "past" ELSE "future"}
                         /\ d.f_show \in {"all", IF t.on THEN "on" ELSE "off"}
    IN {t.chat : t \in {u \in Tickets : Hit(u)}}

Selection(d) ==
    CASE d.type = "TICKET_HOLDERS" -> _select_ticket_holders_audience(d)
      [] d.audience # {} -> _select_audience_rows(d.audience)
      [] OTHER -> _select_audience_rows({d.play} \cap Plays)

----------------------------------------------------------------------------
(* Screens.                                                                *)

\* A screen that "back" can return to.
Screen(s, d) == conv' = s /\ saved' = saved \cup {s} /\ sales' = d
\* A list that is shown without being saved.
List(s, d) == conv' = s /\ saved' = saved /\ sales' = d

Same == UNCHANGED <<row, found>>
Move == moves < MaxMoves /\ moves' = moves + 1
Toggled(S, x) == IF x \in S THEN S \ {x} ELSE S \cup {x}

show_pick_filters(d) == Screen("PICK_FILTERS", d)

show_pick_audience_theater(d) ==
    Screen("PICK_AUDIENCE_THEATER",
           [d EXCEPT !.audience = IF @ = {} THEN {d.play} \ {NoPlay} ELSE @])

_proceed_to_audience_selection(d) ==
    IF d.type = "TICKET_HOLDERS" THEN show_pick_filters(d)
    ELSE show_pick_audience_theater(d)

\* Without a play it only says so; no screen is left to go on from.
show_pick_schedules(d) ==
    IF d.play = NoPlay THEN List("PICK_THEATER", d)
    ELSE List("PICK_SCHEDULES", d)

----------------------------------------------------------------------------
(* The steps up to the audience.                                           *)

\* An older dialog of the same admin is left for the new one.
start_sales ==
    /\ \E dev \in BOOLEAN : sales' = Reset(dev)
    /\ conv' = "PICK_TYPE" /\ saved' = {"PICK_TYPE"}
    /\ row' = NoCampaign /\ found' = Nothing
    /\ UNCHANGED moves

pick_type ==
    /\ conv = "PICK_TYPE"
    /\ \/ Screen("PICK_THEATER", [sales EXCEPT !.type = "WAS_THIS_YEAR_ON_PLAY"])
       \/ show_pick_filters([sales EXCEPT !.type = "TICKET_HOLDERS"])
    /\ Same /\ UNCHANGED moves

pick_theater ==
    /\ conv = "PICK_THEATER"
    /\ \E p \in Plays : Screen("PICK_SCOPE", [sales EXCEPT !.play = p])
    /\ Same /\ UNCHANGED moves

pick_scope ==
    /\ conv = "PICK_SCOPE"
    /\ \/ show_pick_schedules(sales)
       \/ _proceed_to_audience_selection(
             [sales EXCEPT !.schedule_ids = _get_available_schedules(sales.play)])
    /\ Same /\ UNCHANGED moves

\* The list is shown fresh when it is entered; from the first press on it is
\* the list that was kept, whatever play is chosen by then.
pick_schedules ==
    /\ conv = "PICK_SCHEDULES"
    /\ LET cache == IF sales.cache = NoPlay THEN sales.play ELSE sales.cache
           d == [sales EXCEPT !.cache = cache]
       IN
       \/ /\ Move
          /\ \E s \in _get_available_schedules(sales.play) \cup
                      _get_available_schedules(cache) :
                Screen("PICK_SCHEDULES", [d EXCEPT !.manual = Toggled(@, s)])
       \/ /\ UNCHANGED moves
          /\ IF sales.manual = {} THEN List("PICK_SCHEDULES", d)
             ELSE _proceed_to_audience_selection(
                      [d EXCEPT !.schedule_ids = sales.manual])
    /\ Same

----------------------------------------------------------------------------
(* The audience.                                                           *)

Campaign(d) == [type |-> d.type, play |-> d.play, showings |-> d.schedule_ids,
                to |-> Selection(d), written |-> FALSE, status |-> "draft"]

\* Nobody can be looked up without a play, and recipients cannot be stored
\* for no campaign: the handler fails and error_handler cleans up.
CannotBuild(d) ==
    /\ d.type = "WAS_THIS_YEAR_ON_PLAY"
    /\ \/ d.audience = {} /\ d.play = NoPlay
       \/ d.schedule_ids = {} /\ Selection(d) # {}

\* StartedAsSelected: a campaign that was made once is used again.
Bug_made_once(d) ==
    /\ ~ CannotBuild(d) /\ ~ d.dev /\ UNCHANGED moves /\ sales' = d
    /\ found' = [made |-> TRUE, to |-> Selection(d)]
    /\ row' = IF row.status = "draft" THEN row ELSE Campaign(d)
    /\ conv' = "GET_MESSAGE" /\ saved' = saved \cup {"BUILD_AUDIENCE", "GET_MESSAGE"}

\* Every time a new campaign is made; none without showings, and the dialog
\* then goes on with the campaign it had before, if any.
show_build_audience(d) ==
    LET none == d.schedule_ids = {} /\ d.type # "TICKET_HOLDERS"
        shown == saved \cup {"BUILD_AUDIENCE"}
    IN
    /\ UNCHANGED moves
    /\ \/ /\ CannotBuild(d)
          /\ conv' = "wiped" /\ saved' = {} /\ sales' = Reset(FALSE)
          /\ row' = NoCampaign /\ found' = Nothing
       \/ /\ ~ CannotBuild(d)
          /\ sales' = d
          /\ found' = [made |-> ~ none, to |-> Selection(d)]
          /\ row' = IF none THEN row ELSE Campaign(d)
          /\ \/ d.dev /\ conv' = "BUILD_AUDIENCE" /\ saved' = shown
             \/ /\ ~ d.dev /\ row' # NoCampaign             \* ask_message
                /\ conv' = "GET_MESSAGE" /\ saved' = shown \cup {"GET_MESSAGE"}
             \/ ~ d.dev /\ row' = NoCampaign /\ conv' = "idle" /\ saved' = shown

pick_audience_theater ==
    /\ conv = "PICK_AUDIENCE_THEATER"
    /\ \/ /\ Move /\ Same
          /\ \E p \in Plays :
                Screen("PICK_AUDIENCE_THEATER",
                       [sales EXCEPT !.audience = Toggled(@, p)])
       \/ sales.audience # {} /\ show_build_audience(sales)

\* pick_filters opens a list or goes on.
pick_filters ==
    /\ conv = "PICK_FILTERS"
    /\ \/ \E f \in Filters : List(f, sales) /\ Same /\ UNCHANGED moves
       \/ Screen("PICK_TICKET_IDS", sales) /\ Same /\ UNCHANGED moves
       \/ show_build_audience(sales)

\* A list of one filter: a mark, or "done".
Filter(f, list) ==
    /\ conv = f
    /\ \/ Move /\ \E x \in list :
             List(f, [sales EXCEPT !.filters[f] = Toggled(@, x)])
       \/ show_pick_filters(sales) /\ UNCHANGED moves
    /\ Same

pick_filter_status == Filter("status", {t.status : t \in Tickets})
pick_filter_type_event == Filter("type_event", {t.type_event : t \in Tickets})
pick_filter_theater_event == Filter("theater_event", Plays)
pick_filter_base_ticket == Filter("base_ticket", {t.base_ticket : t \in Tickets})

\* The showings on the list are those of the plays chosen before, cut down by
\* two switches.  A showing that leaves the list stays chosen.
pick_filter_schedule_event ==
    LET listed == {t \in Tickets :
            /\ sales.filters["theater_event"] = {} \/
               t.theater_event \in sales.filters["theater_event"]
            /\ sales.f_time \in {"all", IF t.past THEN "past" ELSE "future"}
            /\ sales.f_show \in {"all", IF t.on THEN "on" ELSE "off"}}
    IN
    \/ Filter("schedule_event", {t.schedule_event : t \in listed})
    \/ /\ conv = "schedule_event" /\ Move /\ Same
       /\ \/ \E x \in {"all", "past", "future"} \ {sales.f_time} :
                List(conv, [sales EXCEPT !.f_time = x])
          \/ \E x \in {"all", "on", "off"} \ {sales.f_show} :
                List(conv, [sales EXCEPT !.f_show = x])

\* Ids that are typed remove the filters, and stay.
pick_ticket_ids ==
    /\ conv = "PICK_TICKET_IDS"
    /\ \E ids \in SUBSET {t.id : t \in Tickets} \ {{}} :
          show_build_audience([sales EXCEPT !.ticket_ids = ids,
                                            !.filters = NoFilters])

----------------------------------------------------------------------------
(* The message and the start.                                              *)

\* Chats typed by a developer replace the audience.  Only typing leads on:
\* the button "next" carries "sales|next_message", and the dialog answers
\* "sales:next_message".
input_dev_chat_ids ==
    /\ conv = "BUILD_AUDIENCE" /\ sales.dev /\ row # NoCampaign
    /\ row' = [row EXCEPT !.to = Someone]
    /\ found' = [found EXCEPT !.to = Someone]
    /\ Screen("GET_MESSAGE", sales) /\ UNCHANGED moves

handle_admin_message ==
    /\ conv = "GET_MESSAGE"
    /\ row' = [row EXCEPT !.written = TRUE]
    /\ List("PREVIEW", sales)
    /\ UNCHANGED <<found, moves>>

edit_text ==
    /\ conv = "PREVIEW" /\ Screen("GET_MESSAGE", sales)
    /\ Same /\ UNCHANGED moves

edit_schedules ==
    /\ conv = "PREVIEW" /\ show_pick_schedules(sales)
    /\ Same /\ UNCHANGED moves

cancel_campaign ==
    /\ conv = "PREVIEW" /\ conv' = "idle"
    /\ row' = [row EXCEPT !.status = "canceled"]
    /\ UNCHANGED <<saved, sales, found, moves>>

\* "run": the campaign has recipients and, if it is about a play, showings
\* have been chosen.  The task may fail to be published.
run ==
    /\ conv = "PREVIEW"
    /\ row.to # {} /\ row.written
    /\ sales.schedule_ids # {} \/ row.type # "WAS_THIS_YEAR_ON_PLAY"
    /\ \/ row' = [row EXCEPT !.status = "running"] /\ conv' = "idle"
       \/ row' = [row EXCEPT !.status = "failed"] /\ UNCHANGED conv
    /\ UNCHANGED <<saved, sales, found, moves>>

----------------------------------------------------------------------------

cancel ==
    /\ conv \notin {"idle", "wiped"} /\ conv' = "idle"
    /\ UNCHANGED <<saved, sales, row, found, moves>>

back ==
    /\ conv \notin {"idle", "wiped"}
    /\ Move
    /\ \E s \in saved \ {"GET_MESSAGE", "PICK_SCHEDULES", "PICK_TICKET_IDS"} :
          conv' = s
    /\ UNCHANGED <<saved, sales, row, found>>

Next ==
    \/ start_sales \/ pick_type \/ pick_theater \/ pick_scope \/ pick_schedules
    \/ pick_audience_theater \/ pick_filters \/ pick_filter_status
    \/ pick_filter_type_event \/ pick_filter_theater_event
    \/ pick_filter_base_ticket \/ pick_filter_schedule_event \/ pick_ticket_ids
    \/ input_dev_chat_ids \/ handle_admin_message \/ edit_text
    \/ edit_schedules \/ cancel_campaign \/ run \/ cancel \/ back

Spec == Init /\ [][Next]_vars

----------------------------------------------------------------------------
(* Properties.                                                             *)

\* What is started is what was selected last: the recipients are those the
\* last selection has found and the showings, the play and the type are those
\* the dialog shows; unless that selection made no campaign, or a developer
\* went back to a selection of his own.  However the admin went to and fro,
\* no draft of an earlier selection is started.
AsSelected ==
    row'.status = "running" /\ row.status # "running" /\ found.made /\ ~ sales.dev =>
        /\ row.to = found.to /\ row.type = sales.type
        /\ row.play = sales.play /\ row.showings = sales.schedule_ids
StartedAsSelected == [][AsSelected]_vars
=============================================================================
