--------------------------- MODULE ReserveDialog ---------------------------
(***************************************************************************)
(* The dialogs of the bot that choose a show and book it, for one user who *)
(* is also an admin: /reserve and /list, /reserve_admin, /list_wait and    *)
(* /migration_admin.  Each is a conversation: a state and the inputs the   *)
(* state answers.  All four keep their data in the same user_data, and a   *)
(* dialog that is left stays open when another is started: an input goes   *)
(* to the first conversation, in the order of registration, whose state    *)
(* answers it.  The screen is the last message with buttons.               *)
(*                                                                         *)
(* Tickets and seats are in Booking; the form about the children is one    *)
(* step here and is in ChildrenForm.  The user has booked before: the form *)
(* offers his last answers.  There are more shows than fit on a page, and  *)
(* a reduction that needs no code.  Topics of the admins' chat, texts and  *)
(* pictures are left out (a picture matters once: see Outdated).           *)
(***************************************************************************)
EXTENDS Naturals, Sequences, FiniteSets

CONSTANTS
    Events,      \* showings
    Tickets,     \* kinds of ticket
    Individual,  \* those that are sold by an admin only (flag_individual)
    Childless,   \* those without a child (quality_of_children is 0)
    Dear,        \* those that cost at least the code's min_purchase_sum
    MaxStarts    \* bound: commands that start a dialog

ASSUME DialogAssumption ==
    /\ {Individual, Childless, Dear} \subseteq SUBSET Tickets
    /\ "none" \notin Events \cup Tickets
    /\ MaxStarts \in Nat

VARIABLES
    conv,      \* state of every conversation
    state,     \* user_data['STATE']
    command,   \* user_data['command']
    mode,      \* user_data['select_mode']
    data,      \* reserve_user_data, reserve_admin_data, common_data
    screen,    \* buttons of the last message that has some
    email,     \* User.email in the database
    waiting,   \* rows of the waiting list
    owner,     \* the conversation whose command made the data; "several" when
               \* another one was open, and may write them too
    faults,    \* handlers that failed in a dialog with its own data
    starts

vars == <<conv, state, command, mode, data, screen, email, waiting, owner,
          faults, starts>>

\* The conversations in the order of their registration.
Order == <<"reserve", "reserve_admin", "list_wait", "migration_admin">>
Convs == {"reserve", "reserve_admin", "list_wait", "migration_admin"}

----------------------------------------------------------------------------
(* Buttons and other inputs.                                               *)

Btn(k) == <<k, "">>
Back(s) == <<"back", s>>
Cancel == Btn("cancel")
Each(k, S) == {<<k, x>> : x \in S}

\* What a user can do without a button.
Typed == {Btn("text"), Btn("photo"), Btn("accept")}

\* "children chosen" is what ends the form about the children: a child, when
\* the ticket has one, else the button that confirms those that are marked.

\* The tables of conv_hl.  Targets of the back buttons a state answers.
Anywhere == {"", "0", "1", "2", "MODE", "REP_GROUP", "MONTH", "SHOW", "DATE",
             "TIME", "TICKET", "OFFER", "EMAIL", "FORMA", "PHONE", "CHILDREN",
             "CONFIRM_RESERVATION", "PROMOCODE_INPUT", "LIST", "CHOOSING",
             "LIST_WAIT"}
CommonStates == {"MONTH", "SHOW", "DATE", "TIME", "FORMA", "PHONE", "CHILDREN"}
StatesOf ==
    [reserve |-> CommonStates \cup
         {"TICKET", "OFFER", "EMAIL", "PAID", "WAIT_RECEIPT", "WAIT_DOCUMENT",
          "LIST", "CHOOSING", "MODE", "REP_GROUP", "PHONE_FOR_WAITING",
          "CONFIRM_RESERVATION", "PROMOCODE_INPUT"},
     reserve_admin |-> CommonStates \cup
         {"1", "2", "TICKET", "CONFIRM_RESERVATION", "PROMOCODE_INPUT"},
     list_wait |-> {"MONTH", "SHOW", "LIST_WAIT"},
     migration_admin |-> CommonStates \cup {"0", "1", "2", "TICKET"}]
BackTargets(c, s) ==
    CASE s = "MONTH" -> {"MODE"}
      [] s = "SHOW" -> {"MONTH", "MODE"} \cup
                       (IF c = "list_wait" THEN {} ELSE {"REP_GROUP"})
      [] s = "DATE" -> {"MONTH", "SHOW"}
      [] s = "TIME" -> {"DATE", "SHOW"}
      [] s = "TICKET" /\ c = "reserve" ->
             {"TIME", "DATE", "SHOW", "MONTH", "MODE", "REP_GROUP"}
      [] s \in {"OFFER", "EMAIL", "PHONE_FOR_WAITING"} -> {"TICKET"}
      [] s = "CHOOSING" -> {"TIME"}
      [] s = "REP_GROUP" -> {"MODE"}
      [] s = "CONFIRM_RESERVATION" -> {"CHILDREN"}
      [] s = "PROMOCODE_INPUT" -> {"CONFIRM_RESERVATION"}
      [] \/ s \in {"FORMA", "PHONE", "CHILDREN", "LIST", "2", "LIST_WAIT"}
         \/ s = "TICKET" /\ c # "reserve"
         \/ s = "1" /\ c = "migration_admin" -> Anywhere
      [] OTHER -> {}
Kinds(c, s) ==
    CASE s = "MONTH" -> {"MONTH"}
      [] s = "SHOW" -> {"SHOW", "SHOW_PAGE"}
      [] s \in {"DATE", "TIME", "LIST", "LIST_WAIT", "REP_GROUP"} -> {s}
      [] s = "FORMA" -> {"adult_confirm", "text", "accept"}
      [] s \in {"PHONE", "PHONE_FOR_WAITING"} ->
             {"phone_confirm", "text", "accept"}
      [] s = "CHILDREN" -> {"children chosen", "text", "accept"}
      [] s = "TICKET" -> {"TICKET"} \cup (IF c = "reserve" THEN {"WAIT"} ELSE {})
      [] s = "OFFER" -> {"accept"}
      [] s = "EMAIL" -> {"email_confirm", "text", "accept"}
      [] s = "PAID" -> {"confirm_payment", "photo"}
      [] s \in {"WAIT_RECEIPT", "WAIT_DOCUMENT"} -> {"photo"}
      [] s = "CHOOSING" -> {"OTHER_TIME", "WAIT"}
      [] s = "MODE" -> {"MODE_DATE", "MODE_REPERTOIRE"}
      [] s = "CONFIRM_RESERVATION" ->
             {"PAY", "CONFIRM_WITHOUT_PAY", "RESET_PROMO", "PROMO", "PROMO_OPTION"}
      [] s \in {"PROMOCODE_INPUT", "2", "0"} -> {"text", "accept"}
      [] s = "1" -> {"params", "id"} \cup
             (IF c = "migration_admin" THEN {"migration", "update"} ELSE {})
      [] OTHER -> {}

Answers(c, i) ==
    /\ conv[c] \in StatesOf[c]
    /\ \/ i[1] = "back" /\ i[2] \in BackTargets(c, conv[c])
       \/ i = Cancel
       \/ i[1] \in Kinds(c, conv[c])

\* Conversation c takes input i: no one before it answers it.
Takes(c, i) ==
    /\ i \in screen \cup Typed
    /\ \E n \in DOMAIN Order :
         /\ Order[n] = c
         /\ Answers(c, i)
         /\ \A m \in 1..(n - 1) : ~ Answers(Order[m], i)

----------------------------------------------------------------------------
(* The data of the dialogs.  Fields of Fresh are those of                  *)
(* init_conv_hl_dialog; "none" stands for a missing key.                   *)

NoPrice == <<"none", "none">>
Fresh ==
    [alive    |-> TRUE,
     lists    |-> {},       \* states with schedule_event_ids
     back     |-> << >>,    \* state -> saved buttons
     event    |-> "none",   \* choose_schedule_event_id
     text     |-> "none",   \* text_select_event, by its event
     theater  |-> FALSE,    \* theater_event_id
     ticket   |-> "none",   \* chose_base_ticket_id
     price    |-> NoPrice,     \* chose_price, by its event and ticket
     discount |-> NoPrice,     \* discounted_price, by the price it was made from
     carried  |-> FALSE,    \* that was another ticket's, chosen before this one
     shown    |-> <<"none", NoPrice>>,   \* the price on the summary
     old      |-> "none",   \* reserve_admin_data: message_id, then ticket_id
     prompt   |-> FALSE,    \* user_data['message']
     sold     |-> <<"none", NoPrice>>]   \* ticket_ids, by the price asked
Gone == [Fresh EXCEPT !.alive = FALSE]
ToPay(d) == IF d.discount = NoPrice THEN <<"full", d.price>>
            ELSE <<"reduced", d.discount>>

\* Buttons that were saved for a state.
Has(s) == data.alive /\ s \in DOMAIN data.back
\* TypeOK: kept under the command instead of the state.
Bug_other_key(d, s, buttons) ==
    [d EXCEPT !.back = [x \in DOMAIN @ \cup {command} |->
                          IF x = command THEN buttons ELSE @[x]]]
Saved(d, s, buttons) ==
    [d EXCEPT !.back = [x \in DOMAIN @ \cup {s} |->
                          IF x = s THEN buttons ELSE @[x]]]

\* Only conversation c has been open since its command.
Sole(c) == owner = c

dbVars == <<email, waiting>>

\* A handler shows state s with its buttons and saves them for Back.
Show(c, s, d, buttons) ==
    /\ conv' = [conv EXCEPT ![c] = s]
    /\ state' = s
    /\ screen' = buttons
    /\ data' = Saved(d, s, buttons)
    /\ UNCHANGED <<command, owner, faults, starts>>

\* The same without set_back_context.
Move(c, s, d, buttons) ==
    /\ conv' = [conv EXCEPT ![c] = s]
    /\ state' = s
    /\ screen' = buttons
    /\ data' = d
    /\ UNCHANGED <<command, owner, faults, starts>>

\* The conversation goes to the state in user_data; END ends it.
To(c) == [conv EXCEPT ![c] = IF state = "END" THEN "none" ELSE state]

\* The dialog ends; a handler that returns END leaves the data as it is.
End(c) ==
    /\ conv' = [conv EXCEPT ![c] = "none"]
    /\ state' = "END"
    /\ screen' = {}
    /\ UNCHANGED <<command, data, owner, faults, starts>>

\* clean_context_on_end_handler, and END.
EndClean(c) ==
    /\ conv' = [conv EXCEPT ![c] = "none"]
    /\ state' = "none" /\ command' = "none" /\ data' = Gone /\ owner' = "none"
    /\ screen' = {}
    /\ UNCHANGED <<faults, starts>>

\* A handler fails: error_handler cleans the data, the conversation stays.
Fault(c, handler) ==
    /\ state' = "none" /\ command' = "none" /\ data' = Gone /\ owner' = "none"
    /\ faults' = faults \cup {h \in {handler} : owner = c}
    /\ UNCHANGED <<conv, screen, starts>>

\* The handler fails unless the keys it reads are there.
Needs(c, handler, keys, effect) ==
    IF data.alive /\ keys THEN effect ELSE Fault(c, handler)

----------------------------------------------------------------------------
(* Commands.                                                               *)

Init ==
    /\ conv = [c \in Convs |-> "none"]
    /\ state = "none" /\ command = "none" /\ mode = "none"
    /\ data = Gone /\ screen = {}
    /\ email = "none" /\ waiting = {}
    /\ owner = "none" /\ faults = {} /\ starts = 0

\* init_conv_hl_dialog, then the first screen s of conversation c.
Begin(c, cmd, s, d, buttons) ==
    /\ starts < MaxStarts /\ starts' = starts + 1
    /\ conv' = [conv EXCEPT ![c] = s]
    /\ state' = s /\ command' = cmd
    /\ owner' = IF \A k \in Convs : conv[k] = "none" THEN c ELSE "several"
    /\ data' = Saved(d, s, buttons)
    /\ screen' = buttons
    /\ UNCHANGED <<mode, dbVars, faults>>

ModeButtons == {Btn("MODE_DATE"), Btn("MODE_REPERTOIRE"), Cancel}
reserve == \E cmd \in {"reserve", "list"} :
               Begin("reserve", cmd, "MODE", Fresh, ModeButtons)
reserve_admin ==
    Begin("reserve_admin", "reserve_admin", "1", Fresh,
          {Btn("id"), Btn("params"), Cancel})
migration_admin ==
    Begin("migration_admin", "migration_admin", "0",
          [Fresh EXCEPT !.old = "message"], {Cancel})
list_wait ==
    Begin("list_wait", "list_wait", "MONTH",
          [Fresh EXCEPT !.lists = {"MONTH"}], {Btn("MONTH"), Cancel})

\* /start and /reset: a fallback of the first conversation that is open, or
\* a command of their own.
start ==
    LET open == {n \in DOMAIN Order : conv[Order[n]] # "none"} IN
    /\ \E n \in DOMAIN Order :
          (\A m \in open : n \in open /\ n <= m) /\ EndClean(Order[n])
    /\ UNCHANGED <<mode, dbVars>>

----------------------------------------------------------------------------
(* Buttons that every state has.                                           *)

cancel(c) == Takes(c, Cancel) /\ EndClean(c) /\ UNCHANGED <<mode, dbVars>>

\* main_hl.back.  A button without a target (create_btn drops a 0) makes it
\* fail; a state that was not saved makes it say so and stop.
back(c) ==
    \E s \in Anywhere :
        /\ Takes(c, Back(s))
        /\ UNCHANGED <<mode, dbVars>>
        /\ \/ s = "" /\ Fault(c, "back")
           \/ s # "" /\ Has(s) /\ Move(c, s, data, data.back[s])
           \/ /\ s # "" /\ ~ Has(s)
              /\ faults' = faults \cup {h \in {"back"} : owner = c}
              /\ UNCHANGED <<conv, state, command, data, screen, owner, starts>>

----------------------------------------------------------------------------
(* Choosing a showing: handlers/reserve/choice.py.                         *)

\* choice_mode from the button of a sold-out showing.
choice_mode(c) ==
    /\ Takes(c, Btn("OTHER_TIME"))
    /\ IF command = "none"
       THEN Fault(c, "choice_mode")
       ELSE /\ data' = Saved(Fresh, "MODE", ModeButtons)
            /\ conv' = [conv EXCEPT ![c] = "MODE"]
            /\ state' = "MODE" /\ screen' = ModeButtons
            /\ UNCHANGED <<command, owner, faults, starts>>
    /\ UNCHANGED <<mode, dbVars>>

\* A list of showings is kept for a state.
\* OwnDialogNeverFails: not kept.
Bug_not_listed(s) == data
Listed(s) == [data EXCEPT !.lists = @ \cup {s}]

choice_show_by_repertoire(c) ==
    /\ mode' = "REPERTOIRE"
    /\ UNCHANGED dbVars
    /\ \/ /\ Takes(c, Btn("MODE_REPERTOIRE"))
          /\ \/ Needs(c, "choice_show_by_repertoire", TRUE,
                      Show(c, "REP_GROUP", data,
                           {Btn("REP_GROUP"), Back("MODE"), Cancel}))
             \/ /\ command # "none"              \* no group has a showing
                /\ conv' = [conv EXCEPT ![c] = "MODE"]
                /\ screen' = {}
                /\ UNCHANGED <<state, command, data, owner, faults, starts>>
       \/ /\ Takes(c, Btn("REP_GROUP"))
          /\ Needs(c, "choice_show_by_repertoire", TRUE,
                   Show(c, "SHOW", Listed("SHOW"),
                        {Btn("SHOW"), Back("REP_GROUP"), Cancel}))

choice_month(c) ==
    /\ \/ Takes(c, Btn("MODE_DATE")) /\ mode' = "DATE"
       \/ Takes(c, Btn("params")) /\ UNCHANGED mode
    /\ Needs(c, "choice_month", TRUE,
             Show(c, "MONTH", Listed("MONTH"),
                  {Btn("MONTH"), Cancel} \cup
                  (IF Has("MODE") THEN {Back("MODE")} ELSE {})))
    /\ UNCHANGED dbVars

choice_show(c) ==
    /\ UNCHANGED <<mode, dbVars>>
    /\ \/ /\ Takes(c, Btn("MONTH")) /\ mode = "DATE"
          /\ Needs(c, "choice_show", state \in data.lists,
                   Show(c, "DATE", Listed("DATE"),
                        {Btn("DATE"), Back("MONTH"), Cancel}))
       \/ /\ \/ Takes(c, Btn("MONTH")) /\ mode # "DATE"
             \/ Takes(c, Btn("SHOW_PAGE"))
          /\ Needs(c, "choice_show", state \in data.lists,
                   Show(c, "SHOW", Listed("SHOW"),
                        {Btn("SHOW"), Btn("SHOW_PAGE"), Back("MONTH"), Cancel}))

\* Dates, or showings at once: of a repertory show, or when each date has one.
choice_date(c) ==
    LET listed == state \in data.lists
        showings == IF command = "list" THEN "LIST" ELSE "TIME"
        dates == IF command = "list_wait" THEN "LIST_WAIT" ELSE "DATE"
        At(s, d, buttons) ==
            Needs(c, "choice_date", listed,
                  Show(c, s, [d EXCEPT !.lists = @ \cup {s}],
                       buttons \cup {Back("SHOW"), Cancel}))
        known == [data EXCEPT !.theater = TRUE]
    IN
    /\ Takes(c, Btn("SHOW"))
    /\ UNCHANGED <<mode, dbVars>>
    /\ IF mode = "REPERTOIRE" /\ command # "list_wait"
       THEN At(showings, data, Each(showings, Events))
       ELSE \/ At(dates, known, {Btn(dates)})
            \/ command # "list_wait" /\ At("TIME", known, Each("TIME", Events))

choice_time(c) ==
    LET s == IF command = "list" THEN "LIST" ELSE "TIME" IN
    /\ Takes(c, Btn("DATE"))
    /\ Needs(c, "choice_time", state \in data.lists,
             Show(c, s, data, Each(s, Events) \cup {Back("DATE"), Cancel}))
    /\ UNCHANGED <<mode, dbVars>>

\* A showing is chosen: the tickets, or the waiting list when it is sold out.
\* WaitingIsShown: the description is made for the tickets only.
Bug_old_text(c) ==
    \E e \in Events :
        /\ Takes(c, <<"TIME", e>>)
        /\ UNCHANGED <<mode, dbVars>>
        /\ \/ /\ command = "reserve" /\ data.alive
              /\ Show(c, "CHOOSING", [data EXCEPT !.event = e],
                      {Btn("WAIT"), Btn("OTHER_TIME"), Back("TIME"), Cancel})
           \/ Needs(c, "choice_option_of_reserve", TRUE,
                    Show(c, "TICKET", [data EXCEPT !.event = e, !.text = e],
                         Each("TICKET", Tickets) \cup
                         {Btn("WAIT"), Back("TIME"), Cancel}))
choice_option_of_reserve(c) ==
    \E e \in Events :
        /\ Takes(c, <<"TIME", e>>)
        /\ UNCHANGED <<mode, dbVars>>
        /\ LET d == [data EXCEPT !.event = e, !.text = e] IN
           \/ /\ command = "reserve"
              /\ Needs(c, "choice_option_of_reserve", TRUE,
                       Show(c, "CHOOSING", d,
                            {Btn("WAIT"), Btn("OTHER_TIME"), Back("TIME"), Cancel}))
           \/ Needs(c, "choice_option_of_reserve", TRUE,
                    Show(c, "TICKET", d,
                         Each("TICKET", Tickets) \cup
                         {Btn("WAIT"), Back("TIME"), Cancel}))

\* /list: the buyers of a showing; /list_wait: those who wait for a date.
send_clients_data(c) ==
    /\ \E e \in Events : Takes(c, <<"LIST", e>>)
    /\ End(c) /\ UNCHANGED <<mode, dbVars>>
send_clients_wait_data(c) ==
    /\ Takes(c, Btn("LIST_WAIT"))
    /\ Needs(c, "send_clients_wait_data", data.theater, End(c))
    /\ UNCHANGED <<mode, dbVars>>

----------------------------------------------------------------------------
(* An admin chooses a showing by its number, or finds a ticket to move.    *)

enter_event_id(c) ==
    /\ Takes(c, Btn("id"))
    /\ Needs(c, "enter_event_id", TRUE,
             Show(c, "2", [data EXCEPT !.prompt = TRUE],
                  {Back(IF state = "0" THEN "" ELSE state), Cancel}))
    /\ UNCHANGED <<mode, dbVars>>

\* The admins' choice_option_of_reserve: not a number, no such showing, found.
choice_option_by_id(c) ==
    /\ Takes(c, Btn("text")) /\ conv[c] = "2"
    /\ UNCHANGED <<mode, dbVars>>
    /\ IF ~ data.alive \/ ~ data.prompt
       THEN Fault(c, "choice_option_by_id")
       ELSE \/ /\ conv' = [conv EXCEPT ![c] = "none"]
               /\ screen' = {}
               /\ UNCHANGED <<state, command, data, owner, faults, starts>>
            \/ Fault(c, "choice_option_by_id")
            \/ \E e \in Events :
                  Move(c, "TICKET", [data EXCEPT !.event = e],
                       Each("TICKET", Tickets) \cup {Back("1"), Cancel})

get_ticket_by_id(c) ==
    /\ Takes(c, Btn("text")) /\ conv[c] = "0"
    /\ UNCHANGED <<mode, dbVars>>
    /\ IF ~ data.alive \/ data.old = "none" \/ ~ Has("0")
       THEN Fault(c, "get_ticket_by_id")
       ELSE \/ Fault(c, "get_ticket_by_id")      \* not a number
            \/ /\ screen' = data.back["0"]        \* no such ticket
               /\ UNCHANGED <<conv, state, command, data, owner, faults, starts>>
            \/ LET buttons == {Btn("migration"), Btn("update"), Back(""), Cancel} IN
               /\ conv' = [conv EXCEPT ![c] = "1"]
               /\ screen' = buttons
               /\ data' = Saved([data EXCEPT !.old = "ticket"], "1", buttons)
               /\ UNCHANGED <<state, command, owner, faults, starts>>

migration_ticket(c) ==
    /\ Takes(c, Btn("migration"))
    /\ Needs(c, "migration_ticket", TRUE,
             Show(c, "1", data, {Btn("id"), Btn("params"), Cancel}))
    /\ UNCHANGED <<mode, dbVars>>

update_ticket(c) == Takes(c, Btn("update")) /\ UNCHANGED vars

----------------------------------------------------------------------------
(* A ticket, the offer, the e-mail.                                        *)

\* EveryButtonAnswered: back to the offer, which is not always shown.
Bug_back_to_offer(e) == {Back("OFFER"), Cancel}
EmailButtons(e) == {Back("TICKET"), Cancel} \cup
                   (IF e = "none" THEN {} ELSE {Btn("email_confirm")})

\* The ticket is gone or the showing is switched off: back to the showings,
\* where only the conversation learns of it.
TimeAgain(c) ==
    IF Has("TIME")
    THEN /\ conv' = [conv EXCEPT ![c] = "TIME"]
         /\ screen' = data.back["TIME"]
         /\ UNCHANGED <<state, command, data, owner, faults, starts>>
    ELSE Fault(c, "get_ticket")

\* The discount made for a ticket that was chosen before is kept.
Chosen(t) ==
    LET price == <<data.event, t>> IN
    [data EXCEPT !.ticket = t, !.price = price,
                 !.carried = data.discount \notin {NoPrice, price}]

get_ticket(c) ==
    \E t \in Tickets :
        /\ c = "reserve" /\ Takes(c, <<"TICKET", t>>)
        /\ UNCHANGED <<mode, dbVars>>
        /\ IF ~ data.alive \/ data.event = "none"
           THEN Fault(c, "get_ticket")
           ELSE \/ TimeAgain(c)
                \/ /\ t \in Individual
                   /\ conv' = [conv EXCEPT ![c] = "none"]
                   /\ state' = "END" /\ data' = Gone /\ owner' = "none"
                   /\ screen' = {}
                   /\ UNCHANGED <<command, faults, starts>>
                \/ /\ t \notin Individual
                   /\ \/ Show(c, "EMAIL", Chosen(t), EmailButtons(email))
                      \/ Show(c, "OFFER", Chosen(t), {Back("TICKET"), Cancel})

get_agreement(c) ==
    /\ Takes(c, Btn("accept")) /\ conv[c] = "OFFER"
    /\ Needs(c, "get_agreement", TRUE,
             Show(c, "EMAIL", data, EmailButtons(email)))
    /\ UNCHANGED <<mode, dbVars>>

\* The new address is kept and the form goes on, also when the user has just
\* been asked to write it once more.  Seats are checked for /studio only.
get_email(c) ==
    /\ conv[c] = "EMAIL"
    /\ \/ Takes(c, Btn("email_confirm")) /\ UNCHANGED email
       \/ Takes(c, Btn("text")) /\ email' \in {"good", "bad"}
    /\ UNCHANGED <<mode, waiting>>
    /\ IF ~ data.alive \/ "none" \in {data.ticket, data.price[2], data.text}
       THEN Fault(c, "get_email")
       ELSE IF command # "reserve"                  \* ApplicationHandlerStop
       THEN UNCHANGED <<conv, state, command, data, screen, owner, faults, starts>>
       ELSE Show(c, "FORMA", data,
                 {Btn("adult_confirm"), Back("TICKET"), Cancel})

\* The admins' dialogs go from the ticket to the form, or move a ticket.
start_forma_info(c) ==
    \E t \in Tickets :
        /\ c # "reserve" /\ Takes(c, <<"TICKET", t>>)
        /\ UNCHANGED <<mode, dbVars>>
        /\ IF \/ ~ data.alive \/ data.event = "none"
              \/ command = "migration_admin" /\ data.old # "ticket"
           THEN Fault(c, "start_forma_info")
           ELSE IF command = "migration_admin" THEN End(c) \/ EndClean(c)
           ELSE Show(c, "FORMA", Chosen(t), {Btn("adult_confirm"), Cancel})

----------------------------------------------------------------------------
(* The form: handlers/reserve/input.py.                                    *)

get_adult(c) ==
    /\ conv[c] = "FORMA"
    /\ Takes(c, Btn("text")) \/ Takes(c, Btn("adult_confirm"))
    /\ Needs(c, "get_adult", TRUE,
             Show(c, "PHONE", data, {Btn("phone_confirm"), Back("FORMA"), Cancel}))
    /\ UNCHANGED <<mode, dbVars>>

\* Without a child to choose the keyboard is a row within a row, which the
\* library refuses.
ChildrenForm(c) ==
    IF data.ticket \in Childless THEN Fault(c, "get_child_text_and_reply")
    ELSE Show(c, "CHILDREN", data,
              {Btn("children chosen"), Back("PHONE"), Cancel})

\* A number that is no phone: asked again; the conversation takes state.
AskAgain(c) ==
    /\ conv' = To(c)
    /\ screen' = {Cancel}
    /\ UNCHANGED <<state, command, data, owner, faults, starts>>

get_phone(c) ==
    /\ conv[c] = "PHONE" /\ Takes(c, Btn("text"))
    /\ \/ Needs(c, "get_phone", TRUE, AskAgain(c))
       \/ Needs(c, "get_phone", data.ticket # "none", ChildrenForm(c))
    /\ UNCHANGED <<mode, dbVars>>

\* The row of the waiting list: the showing, and the text the admins read.
AddToWaiting(c) ==
    IF ~ data.alive \/ "none" \in {data.event, data.text}
    THEN Fault(c, "send_admin_info_add_list_wait") /\ UNCHANGED waiting
    ELSE End(c) /\ waiting' = waiting \cup {<<data.event, data.text>>}

phone_confirm(c) ==
    /\ Takes(c, Btn("phone_confirm"))
    /\ UNCHANGED <<mode, email>>
    /\ \/ state = "PHONE_FOR_WAITING" /\ AddToWaiting(c)
       \/ /\ state = "PHONE"
          /\ Needs(c, "phone_confirm", data.ticket # "none", ChildrenForm(c))
          /\ UNCHANGED waiting
       \/ /\ state \notin {"PHONE", "PHONE_FOR_WAITING"}
          /\ Needs(c, "phone_confirm", TRUE,
                   /\ conv' = To(c)
                   /\ UNCHANGED <<state, command, data, screen, owner, faults,
                                  starts>>)
          /\ UNCHANGED waiting

write_list_of_waiting(c) ==
    /\ Takes(c, Btn("WAIT"))
    /\ Needs(c, "write_list_of_waiting", TRUE,
             \/ Move(c, "PHONE_FOR_WAITING", data,
                     {Btn("phone_confirm"), Back(state), Cancel})
             \/ Move(c, "PHONE_FOR_WAITING", data, {}))
    /\ UNCHANGED <<mode, dbVars>>

get_phone_for_waiting(c) ==
    /\ conv[c] = "PHONE_FOR_WAITING" /\ Takes(c, Btn("text"))
    /\ UNCHANGED <<mode, email>>
    /\ \/ Needs(c, "get_phone_for_waiting", TRUE, AskAgain(c)) /\ UNCHANGED waiting
       \/ AddToWaiting(c)

----------------------------------------------------------------------------
(* The summary and the payment: handlers/reserve/payment.py.               *)

show_reservation_summary(c, d) ==
    IF ~ d.alive \/ "none" \in {d.event, d.text, d.ticket, d.price[2]}
    THEN Fault(c, "show_reservation_summary")
    ELSE Show(c, "CONFIRM_RESERVATION", [d EXCEPT !.shown = ToPay(d)],
              {Btn("PAY"), Back("CHILDREN"), Cancel} \cup
              {b \in {Btn("PROMO_OPTION")} : d.ticket \in Dear} \cup
              {IF d.discount = NoPrice THEN Btn("PROMO") ELSE Btn("RESET_PROMO")}
              \cup {b \in {Btn("CONFIRM_WITHOUT_PAY")} :
                       command \in {"reserve_admin", "migration_admin"}})

\* What is typed adds or changes a child, or shows the form again.
get_children(c) ==
    /\ conv[c] = "CHILDREN"
    /\ \/ Takes(c, Btn("children chosen")) /\ show_reservation_summary(c, data)
       \/ /\ Takes(c, Btn("text"))
          /\ Needs(c, "get_children", data.ticket # "none", ChildrenForm(c))
    /\ UNCHANGED <<mode, dbVars>>

Discounted(p) == [data EXCEPT !.discount = p, !.carried = FALSE]
\* SummaryIsTrue: the summary is not shown again.
Bug_old_summary(c) ==
    /\ Takes(c, Btn("RESET_PROMO"))
    /\ Needs(c, "reset_promo", TRUE,
             Move(c, "CONFIRM_RESERVATION", Discounted(NoPrice), screen))
    /\ UNCHANGED <<mode, dbVars>>
reset_promo(c) ==
    /\ Takes(c, Btn("RESET_PROMO"))
    /\ show_reservation_summary(c, Discounted(NoPrice))
    /\ UNCHANGED <<mode, dbVars>>

ask_promo_code(c) ==
    /\ Takes(c, Btn("PROMO"))
    /\ Needs(c, "ask_promo_code", TRUE,
             Show(c, "PROMOCODE_INPUT", data, {Back("CONFIRM_RESERVATION")}))
    /\ UNCHANGED <<mode, dbVars>>

handle_promo_code_input(c) ==
    /\ conv[c] = "PROMOCODE_INPUT" /\ Takes(c, Btn("text"))
    /\ \/ show_reservation_summary(c, data)
       \/ data.ticket \in Dear /\ show_reservation_summary(c, Discounted(data.price))
    /\ UNCHANGED <<mode, dbVars>>
apply_option_promo(c) ==
    /\ Takes(c, Btn("PROMO_OPTION"))
    /\ \/ show_reservation_summary(c, data)
       \/ show_reservation_summary(c, Discounted(data.price))
    /\ UNCHANGED <<mode, dbVars>>

\* The seats could not be taken, or the payment service did not answer.
NoPayment(c) ==
    /\ conv' = [conv EXCEPT ![c] = "none"]
    /\ state' = "END" /\ command' = "none" /\ data' = Gone /\ owner' = "none"
    /\ screen' = {}
    /\ UNCHANGED <<faults, starts>>

create_and_send_payment(c) ==
    IF ~ data.alive \/ "none" \in {data.event, data.ticket, data.price[2]}
    THEN Fault(c, "create_and_send_payment")
    ELSE \/ NoPayment(c)
         \/ email = "bad" /\ Fault(c, "create_and_send_payment")
         \/ Move(c, "PAID", [data EXCEPT !.sold = ToPay(data)],
                 {Btn("confirm_payment"), Cancel})

\* /reserve looks once more: the showing may be switched off, or sold out.
\* Sold out fails: a button is inserted into a keyboard that is a tuple.
confirm_go_pay(c) ==
    /\ Takes(c, Btn("PAY"))
    /\ UNCHANGED <<mode, dbVars>>
    /\ \/ create_and_send_payment(c)
       \/ /\ command = "reserve"
          /\ \/ Fault(c, "confirm_go_pay")
             \/ IF Has("TIME") THEN Move(c, "TIME", data, data.back["TIME"])
                ELSE Fault(c, "confirm_go_pay")

confirm_admin_without_payment(c) ==
    /\ Takes(c, Btn("CONFIRM_WITHOUT_PAY"))
    /\ IF ~ data.alive \/ "none" \in {data.event, data.ticket, data.price[2]}
       THEN Fault(c, "confirm_admin_without_payment")
       ELSE End(c) \/ EndClean(c)
    /\ UNCHANGED <<mode, dbVars>>

confirm_payment(c) ==
    /\ Takes(c, Btn("confirm_payment"))
    /\ Move(c, "WAIT_RECEIPT", data, {})
    /\ UNCHANGED <<mode, dbVars>>

\* A picture of the receipt; then, for some codes, of the user's right to it.
process_successful_payment_with_verification(c) ==
    /\ conv[c] \in {"PAID", "WAIT_RECEIPT"} /\ Takes(c, Btn("photo"))
    /\ UNCHANGED <<mode, dbVars>>
    /\ Needs(c, "processing_successful_payment", data.sold[2] # NoPrice /\ command # "none",
             \/ data.discount # NoPrice /\ Move(c, "WAIT_DOCUMENT", data, {})
             \/ /\ conv[c] = "WAIT_RECEIPT" \/ state \in {"PAID", "END"}
                /\ End(c)
             \/ /\ conv[c] = "PAID" /\ state \notin {"PAID", "END"}
                /\ Move(c, state, data, screen))

handle_certificate_file(c) ==
    /\ conv[c] = "WAIT_DOCUMENT" /\ Takes(c, Btn("photo"))
    /\ Needs(c, "handle_certificate_file", TRUE, End(c))
    /\ UNCHANGED <<mode, dbVars>>

----------------------------------------------------------------------------
(* middleware/reserve_check.py: before a press in /reserve is handled, out  *)
(* of the states it protects, it may find the dialog old.                  *)

Protected == {"OFFER", "EMAIL", "FORMA", "PHONE", "CHILDREN", "PAID",
              "PHONE_FOR_WAITING", "CONFIRM_RESERVATION", "PROMOCODE_INPUT",
              "WAIT_RECEIPT", "WAIT_DOCUMENT"}
Checked == /\ command = "reserve" /\ state \notin Protected
           /\ screen \ {Btn("confirm_payment")} # {}

\* conversation_timeout: the dialog is reset and no button is left.
TimedOut ==
    /\ Checked
    /\ conv' = [conv EXCEPT !["reserve"] = "MODE"]
    /\ screen' = {}
    /\ UNCHANGED <<state, command, mode, data, dbVars, owner, faults, starts>>

\* The schedule has changed: choice_mode shows the first screen again.  It
\* fails on a picture, which has no text to look for a command in.
Outdated ==
    /\ Checked
    /\ UNCHANGED <<mode, dbVars>>
    /\ \/ conv["reserve"] \in {"DATE", "SHOW"} /\ Fault("reserve", "choice_mode")
       \/ /\ conv' = [conv EXCEPT !["reserve"] = "MODE"]
          /\ state' = "MODE"
          /\ data' = Saved(Fresh, "MODE", ModeButtons)
          /\ screen' = ModeButtons
          /\ UNCHANGED <<command, owner, faults, starts>>

Choosing(c) ==
    \/ cancel(c) \/ back(c) \/ choice_mode(c) \/ choice_show_by_repertoire(c)
    \/ choice_month(c) \/ choice_show(c) \/ choice_date(c) \/ choice_time(c)
    \/ choice_option_of_reserve(c) \/ send_clients_data(c)
    \/ send_clients_wait_data(c) \/ enter_event_id(c) \/ choice_option_by_id(c)
    \/ get_ticket_by_id(c) \/ migration_ticket(c) \/ update_ticket(c)
Booking(c) ==
    \/ get_ticket(c) \/ get_agreement(c) \/ get_email(c) \/ start_forma_info(c)
    \/ get_adult(c) \/ get_phone(c) \/ phone_confirm(c)
    \/ write_list_of_waiting(c) \/ get_phone_for_waiting(c) \/ get_children(c)
Paying(c) ==
    \/ reset_promo(c) \/ ask_promo_code(c) \/ handle_promo_code_input(c)
    \/ apply_option_promo(c) \/ confirm_go_pay(c)
    \/ confirm_admin_without_payment(c) \/ confirm_payment(c)
    \/ process_successful_payment_with_verification(c)
    \/ handle_certificate_file(c)

Next ==
    \/ reserve \/ reserve_admin \/ list_wait \/ migration_admin \/ start
    \/ TimedOut \/ Outdated
    \/ \E c \in Convs : Choosing(c) \/ Booking(c) \/ Paying(c)

Spec == Init /\ [][Next]_vars

----------------------------------------------------------------------------
(* Properties.                                                             *)

States == UNION {StatesOf[c] : c \in Convs}
Buttons == Typed \cup {Back(s) : s \in Anywhere} \cup
    Each("TICKET", Tickets) \cup Each("TIME", Events) \cup Each("LIST", Events) \cup
    {Btn(k) : k \in {"cancel"} \cup UNION {Kinds(c, s) : c \in Convs, s \in States}}
Price == {NoPrice} \cup (Events \X Tickets)

\* The data have their types, and a saved screen belongs to a state.
TypeOK ==
    /\ conv \in [Convs -> {"none"} \cup States]
    /\ state \in {"none", "END"} \cup States
    /\ command \in {"none", "list"} \cup Convs
    /\ mode \in {"none", "DATE", "REPERTOIRE"}
    /\ screen \subseteq Buttons
    /\ data.lists \subseteq States
    /\ DOMAIN data.back \subseteq States
    /\ \A s \in DOMAIN data.back : data.back[s] \subseteq Buttons
    /\ {data.event, data.text} \subseteq {"none"} \cup Events
    /\ data.ticket \in {"none"} \cup Tickets
    /\ {data.price, data.discount} \subseteq Price /\ data.carried \in BOOLEAN
    /\ email \in {"none", "good", "bad"}
    /\ owner \in {"none", "several"} \cup Convs

\* A dialog that started with its own data never loses its way: the only
\* handlers that fail are those below.  (A dialog left open fails later, when
\* another one has thrown its data away.)
KnownFaults ==
    {"back",                          \* "back" from a ticket found: no target
     "choice_mode",                   \* the schedule has changed under a picture
     "choice_option_by_id",           \* no showing with that number
     "get_ticket_by_id",              \* not a number
     "get_child_text_and_reply",      \* a ticket without a child
     "show_reservation_summary",      \* by its number: no text of the showing
     "confirm_go_pay",                \* sold out on the last look
     "create_and_send_payment"}       \* an address the payment service rejects
OwnDialogNeverFails == faults \subseteq KnownFaults

\* Every button on the screen of the only open dialog is answered, but for
\* those listed: the waiting list in the admins' tickets, the way back from
\* the waiting list of a sold-out showing, an admin's payment, and /list_wait
\* after /reserve by the calendar.
NoAnswer(c, i) ==
    \/ i = Btn("WAIT") /\ conv[c] = "TICKET" /\ c # "reserve"
    \/ i = Back("CHOOSING") /\ conv[c] = "PHONE_FOR_WAITING"
    \/ c = "reserve_admin" /\ conv[c] = "PAID"
    \/ c = "list_wait" /\ conv[c] = "DATE"
EveryButtonAnswered ==
    \A c \in Convs, i \in screen :
        Sole(c) /\ conv[c] # "none" => Answers(c, i) \/ NoAnswer(c, i)

\* The summary shows the price of the showing and the ticket that will be
\* booked, whole or reduced, and the payment asks for what it has shown.  One
\* thing comes between: a discount made for a ticket that was given up is
\* shown, and asked, for the next one, until a code is used or dropped.
SummaryIsTrue ==
    \A c \in Convs :
        Sole(c) =>
            /\ conv[c] = "CONFIRM_RESERVATION" =>
                   /\ data.price = <<data.event, data.ticket>>
                   /\ data.shown[2] = data.price \/ data.carried
            /\ conv[c] = "PAID" => data.sold = data.shown

\* The waiting list has the showing whose description the admins are sent.
WaitingIsShown == \A w \in waiting : w[1] = w[2]
=============================================================================
