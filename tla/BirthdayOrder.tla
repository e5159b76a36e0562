--------------------------- MODULE BirthdayOrder ----------------------------
(***************************************************************************)
(* The form by which a user orders a birthday party: a row of questions,   *)
(* each asked when the one before is answered, some by buttons and some by *)
(* typing (handlers/birthday, conv_hl/birthday_conv_hl.py).  Only four     *)
(* answers matter to one another: the place (in the theatre, or outside),  *)
(* the address, the format of the party, which is offered for the place,   *)
(* and the number of children, which is offered for the format; the note   *)
(* is the one answer that may be left out.                                 *)
(*                                                                         *)
(* Under every question there is a button back to the one before.  A       *)
(* message whose question was answered loses its buttons; those of a form  *)
(* that was left by starting it again keep them, and they go on working.   *)
(* Other dialogs, started in between, and the answer of the team are left  *)
(* out.                                                                    *)
(***************************************************************************)
EXTENDS Naturals, FiniteSets, Sequences

CONSTANTS
    MaxStarts,  \* bound: how often the form is started
    MaxBacks    \* bound: steps back while a message was left behind

\* The questions in their order; the address is asked for a party outside.
Questions == <<"PLACE", "ADDRESS", "DATE", "TIME", "CHOOSE", "AGE", "FORMAT_BD",
               "QTY_CHILD", "QTY_ADULT", "NAME_CHILD", "NAME", "PHONE", "NOTE", "CONFIRM">>
Typed == {"ADDRESS", "DATE", "TIME", "NAME_CHILD", "NAME", "PHONE", "NOTE"}
Places == {"theatre", "outside"}

VARIABLES
    conv,    \* the state of the conversation, "END" outside of it
    bd,      \* birthday_user_data
    saved,   \* reserve_user_data['back']: the keyboard of each question asked
    live,    \* the messages that still have their buttons
    mixed,   \* a button of an earlier form, or left behind by this one, was used
    orders,  \* rows of custom_made_events, and what the user was shown
    starts, backs

vars == <<conv, bd, saved, live, mixed, orders, starts, backs>>

Empty == [place |-> "none", address |-> "none", format |-> "none", qty_child |-> "none", note |-> FALSE]

\* A keyboard: its question, the place or format it was made for, the question
\* its "back" leads to, the summary it stands under; whether it is of this
\* form, and whether the form remembers it.
Kbd(q, for, before) ==
    [q |-> q, for |-> for, before |-> before, shown |-> Empty, own |-> TRUE, listed |-> TRUE]
Summary(data) == [Kbd("CONFIRM", "none", "NOTE") EXCEPT !.shown = data]
Of(q) == {k \in live : k.q = q}
Open  == conv # "END"
Next1(q) == LET i == CHOOSE j \in DOMAIN Questions : Questions[j] = q IN Questions[i + 1]

BirthdayOK ==
    /\ conv \in {"END"} \cup {Questions[i] : i \in DOMAIN Questions}
    /\ \A q \in DOMAIN saved : saved[q].q = q
    /\ Open => conv \in DOMAIN saved

Init ==
    /\ conv = "END" /\ bd = Empty /\ saved = <<>> /\ live = {}
    /\ mixed = FALSE /\ orders = {} /\ starts = 0 /\ backs = 0

Forget(ks) == {[k EXCEPT !.own = FALSE] : k \in ks}

\* Question q is asked by message k, and is what "back" comes to.
Ask(k, rest) ==
    /\ conv' = k.q
    /\ live' = rest \cup {k}
    /\ saved' = [q \in DOMAIN saved \cup {k.q} |-> IF q = k.q THEN k ELSE saved[q]]
    /\ UNCHANGED <<orders, starts, backs>>
-----------------------------------------------------------------------------
choice_place ==
    /\ starts < MaxStarts /\ starts' = starts + 1
    /\ LET k == Kbd("PLACE", "none", "none") IN
         /\ conv' = "PLACE" /\ saved' = [q \in {"PLACE"} |-> k]
         /\ live' = Forget(live) \cup {k}
    /\ bd' = Empty /\ mixed' = FALSE
    /\ UNCHANGED <<orders, backs>>

\* A button of the question the conversation is at: its message loses them.
Press(q, k) == conv = q /\ k \in Of(q) /\ mixed' = (mixed \/ ~k.own)

ask_date(k) ==
    /\ Press("PLACE", k)
    /\ bd' = [bd EXCEPT !.place = "theatre", !.address = "office"]
    /\ Ask(Kbd("DATE", "none", "PLACE"), live \ {k})

ask_address(k) ==
    /\ Press("PLACE", k)
    /\ bd' = [bd EXCEPT !.place = "outside"]
    /\ Ask(Kbd("ADDRESS", "none", "PLACE"), live \ {k})

Unlisted == Forget({k \in live : ~(k.own /\ k.listed)})

\* A typed answer: the form's messages it remembers lose their buttons.
Type(q) ==
    /\ conv = q /\ q \in Typed /\ mixed' = mixed
    /\ Ask(IF q = "NOTE" THEN Summary(bd') ELSE Kbd(Next1(q), "none", q), Unlisted)

get_address == Type("ADDRESS") /\ bd' = [bd EXCEPT !.address = "typed"]
get_date == Type("DATE") /\ UNCHANGED bd
get_time == Type("TIME") /\ UNCHANGED bd
get_name_child == Type("NAME_CHILD") /\ UNCHANGED bd
get_name == Type("NAME") /\ UNCHANGED bd
get_phone == Type("PHONE") /\ UNCHANGED bd

\* A wrong number: the question stays, its buttons are gone.
request_phone_number ==
    /\ conv = "PHONE"
    /\ live' = Unlisted
    /\ UNCHANGED <<conv, bd, saved, mixed, orders, starts, backs>>

Choose(q, k, for) == Press(q, k) /\ Ask(Kbd(Next1(q), for, q), live \ {k})

get_show(k) == Choose("CHOOSE", k, "none") /\ UNCHANGED bd

\* The formats offered are those of the place.
Bug_all_formats(place, format) == format \in Places

\* OrderFits: the formats are not chosen by flag_outside.
Offered(place, format) == format = place

get_age(k) == Choose("AGE", k, bd.place) /\ UNCHANGED bd

get_format_bd(k) ==
    \E format \in Places :
      /\ Press("FORMAT_BD", k) /\ Offered(k.for, format)
      /\ bd' = [bd EXCEPT !.format = format]
      /\ Ask(Kbd("QTY_CHILD", format, "FORMAT_BD"), live \ {k})

\* Up to ten children in the theatre, up to fifteen outside.
get_qty_child(k) ==
    \E qty \in {"up to 10", "more"} :
      /\ qty = "more" => k.for = "outside"
      /\ Choose("QTY_CHILD", k, "none")
      /\ bd' = [bd EXCEPT !.qty_child = qty]

get_qty_adult(k) == Choose("QTY_ADULT", k, "none") /\ UNCHANGED bd

\* A note may be typed or left out; one typed before stays.  The summary is
\* made of what is known now.
get_note ==
    \/ bd' = [bd EXCEPT !.note = TRUE] /\ Type("NOTE")
    \/ \E k \in Of("NOTE") :
         /\ conv = "NOTE" /\ mixed' = (mixed \/ ~k.own) /\ UNCHANGED bd
         /\ Ask(Summary(bd), Unlisted)

get_confirm(k) ==
    /\ Press("CONFIRM", k)
    /\ orders' = orders \cup {[order |-> bd, shown |-> k.shown, mixed |-> mixed']}
    /\ conv' = "END"
    /\ live' = Unlisted \ {k}
    /\ UNCHANGED <<bd, saved, starts, backs>>

\* The question before is asked again in the message that was pressed.  The
\* one about the date is sent anew, and is not remembered, unless the form's
\* command is called 'birthday' (its name is in settings, not in the
\* repository).  For a question this form has not asked an error is shown and
\* nothing changes.
back(k) ==
    /\ backs' = IF \A l \in live : l.own THEN backs ELSE backs + 1
    /\ backs' <= MaxBacks
    /\ Open /\ conv # "PLACE" /\ k \in live /\ k.before # "none"
    /\ k.before \in DOMAIN saved
    /\ conv' = k.before
    /\ \E listed \in {TRUE} \cup {k.before # "DATE"} :
         live' = (live \ {k}) \cup {[saved[k.before] EXCEPT !.listed = listed]}
    /\ mixed' = (mixed \/ ~k.own)
    /\ UNCHANGED <<bd, saved, orders, starts>>

cancel(k) ==
    /\ Open /\ k \in live
    /\ conv' = "END" /\ bd' = Empty /\ saved' = <<>>
    /\ live' = Forget(live \ {k}) /\ mixed' = FALSE
    /\ UNCHANGED <<orders, starts, backs>>
-----------------------------------------------------------------------------
Next ==
    \/ choice_place
    \/ get_address \/ get_date \/ get_time \/ get_name_child
    \/ get_name \/ get_phone \/ request_phone_number \/ get_note
    \/ \E k \in live : ask_date(k)
    \/ \E k \in live : ask_address(k)
    \/ \E k \in live : get_show(k)
    \/ \E k \in live : get_age(k)
    \/ \E k \in live : get_format_bd(k)
    \/ \E k \in live : get_qty_child(k)
    \/ \E k \in live : get_qty_adult(k)
    \/ \E k \in live : get_confirm(k)
    \/ \E k \in live : back(k)
    \/ \E k \in live : cancel(k)

\* Of an order that was made with the buttons of the question at hand: it is
\* what the user was shown when he confirmed it, the format is one for the
\* place, the address is the theatre's only for a party there, and there are
\* no more children than the format is for; however often he went back and
\* answered anew (handlers/birthday).
Fits(o) ==
    /\ o.shown = o.order
    /\ o.order.format = o.order.place
    /\ o.order.address = (IF o.order.place = "theatre" THEN "office" ELSE "typed")
    /\ o.order.qty_child = "more" => o.order.format = "outside"
OrderFits == \A o \in orders : ~o.mixed => Fits(o)

Spec == Init /\ [][Next]_vars
=============================================================================
