---------------------------- MODULE ChildrenForm ----------------------------
(***************************************************************************)
(* The form about the children in the booking dialogs (state CHILDREN):    *)
(* handlers/reserve/input.py and common.py.  It lists the children of the  *)
(* account, or those of the adult with the phone that was given; children  *)
(* are chosen, added, renamed and removed, and the chosen ones go into the *)
(* booking.  The list is read when the form is shown and kept; another     *)
(* account (an admin who looks the phone up, the other parent) or the      *)
(* profile dialog may remove a child meanwhile, and a button can be        *)
(* pressed twice before its message has changed.  Names, ages and the      *)
(* pages of the list are left out, and so is what the filters depend on:   *)
(* an admin, a second phone of the account or ten children show them.      *)
(***************************************************************************)
EXTENDS Naturals, FiniteSets

CONSTANTS Kids,        \* ids of children
          MaxChanges   \* bound: removals by other dialogs

VARIABLES
    kid,       \* the database: a child, or Nobody
    limit,     \* children of the ticket (quality_of_children)
    admin,     \* an admin's dialog
    filter,    \* child_filter_mode
    children,  \* the list that was read
    selected,  \* selected_children
    adding, editing,   \* is_adding_child, is_editing_child_data
    edit,      \* edit_person_id
    screen,    \* phone, form, add, one, edit, wrong, summary; wiped: an error
    booked,    \* data_children
    last,      \* the last input, or what a text that was typed has done
    asked,     \* what the last question is about: a new child, or which one
    changes

vars == <<kid, limit, admin, filter, children, selected, adding, editing, edit,
          screen, booked, last, asked, changes>>
form == <<limit, admin, filter, children, selected, adding, editing, edit,
          screen, booked, asked>>

Nobody == [account |-> "none", phone |-> FALSE]
Account == {"mine", "theirs"}
Text == <<"text", "text">>
None == <<"none", "none">>

Init ==
    /\ kid \in [Kids -> {Nobody} \cup
                 [account : {"mine"}, phone : BOOLEAN] \cup
                 [account : {"theirs"}, phone : {TRUE}]]
    /\ limit \in 0..2 /\ admin \in BOOLEAN
    /\ filter = "none" /\ children = {} /\ selected = {}
    /\ adding = FALSE /\ editing = FALSE /\ edit = "none"
    /\ screen = "phone" /\ booked = {}
    /\ last = None /\ asked = "none" /\ changes = 0

----------------------------------------------------------------------------
(* Lists.                                                                  *)

get_children_of(db) == {k \in Kids : db[k].account = "mine"}
get_children_by_phone(db) == {k \in Kids : db[k].phone}

\* After a change the list is read again.  The handler looks for the filter
\* and the phone in user_data, where they are not: it is always the
\* account's own list.
_update_children(db) == get_children_of(db)

\* The form: what is chosen is cut down to the list and to the ticket.
get_child_text_and_reply(list, chosen) ==
    /\ children' = list
    /\ LET here == chosen \cap list IN
       \/ Cardinality(here) <= limit /\ selected' = here
       \/ /\ Cardinality(here) > limit
          /\ selected' \in {S \in SUBSET here : Cardinality(S) = limit}
    /\ screen' = "form" /\ asked' = "none"

----------------------------------------------------------------------------
(* Into the form, and out of it.                                           *)

Fail == /\ screen' = "wiped" /\ asked' = "none"
        /\ UNCHANGED <<kid, filter, children, selected, adding, editing, edit>>

\* The form of a ticket without a child has a keyboard that the library
\* refuses.
send_msg_get_child ==
    LET mode == IF filter = "none" THEN "PHONE" ELSE filter
        found == get_children_by_phone(kid)
    IN
    /\ screen = "phone" /\ last' = None
    /\ UNCHANGED <<limit, admin, booked, changes>>
    /\ \/ limit = 0 /\ Fail
       \/ /\ limit > 0
          /\ filter' = IF found = {} THEN "MY" ELSE mode
          /\ get_child_text_and_reply(
                 IF filter' = "PHONE" THEN found ELSE get_children_of(kid),
                 selected)
          /\ UNCHANGED <<kid, adding, editing, edit>>

BackToPhone ==
    /\ screen = "form" /\ screen' = "phone" /\ last' = None
    /\ UNCHANGED <<kid, limit, admin, filter, children, selected, adding,
                   editing, edit, booked, asked, changes>>

\* Still further back a ticket is chosen again.  get_ticket drops the marks,
\* the admins' start_forma_info keeps them.
ChangeTicket ==
    /\ screen = "phone" /\ limit' \in 0..2
    /\ selected' = IF admin THEN selected ELSE {}
    /\ UNCHANGED <<kid, admin, filter, children, adding, editing, edit, screen,
                   booked, last, asked, changes>>

_finish_get_children(entries) ==
    /\ booked' = entries /\ screen' = "summary" /\ asked' = "none"
    /\ UNCHANGED <<children, selected>>

\* After an error the dialog is begun anew.
Again ==
    /\ screen = "wiped" /\ screen' = "phone"
    /\ filter' = "none" /\ children' = {} /\ selected' = {} /\ booked' = {}
    /\ adding' = FALSE /\ editing' = FALSE /\ edit' = "none" /\ last' = None
    /\ UNCHANGED <<kid, limit, admin, asked, changes>>

BackToForm ==
    /\ screen = "summary" /\ screen' = "form" /\ last' = None
    /\ UNCHANGED <<kid, limit, admin, filter, children, selected, adding,
                   editing, edit, booked, asked, changes>>

----------------------------------------------------------------------------
(* Buttons.                                                                *)

Buttons ==
    CASE screen = "form" ->
             ({"CHLD_SEL", "CHLD_EDIT_ONE"} \X children) \cup
             {<<"CHLD_ADD", "">>} \cup ({"CHLD_FLTR"} \X {"PHONE", "MY"}) \cup
             (IF limit >= 2 /\ Cardinality(selected) = limit
              THEN {<<"CHLD_CONFIRM", "">>} ELSE {})
      [] screen = "one" -> {<<"CHLD_EDIT_START", edit>>, <<"CHLD_DEL", edit>>,
                            <<"CHLD_EDIT", "">>}
      [] screen \in {"add", "edit", "wrong"} -> {<<"CHLD_EDIT", "">>}
      [] OTHER -> {}

\* TypedGoesWhereAsked: the flag of a change that was given up stays.
Bug_flag_stays ==
    /\ adding' = FALSE
    /\ get_child_text_and_reply(children, selected)
    /\ UNCHANGED <<kid, filter, edit, booked, editing>>

CHLD_EDIT ==
    /\ adding' = FALSE /\ editing' = FALSE
    /\ get_child_text_and_reply(children, selected)
    /\ UNCHANGED <<kid, filter, edit, booked>>

CHLD_ADD ==
    /\ adding' = TRUE
    /\ screen' = "add" /\ asked' = "new"
    /\ UNCHANGED <<kid, filter, children, selected, editing, edit, booked>>

CHLD_EDIT_ONE(k) ==
    LET list == IF k \in children THEN children ELSE _update_children(kid) IN
    /\ IF k \in list
       THEN /\ edit' = k /\ screen' = "one" /\ asked' = "none"
            /\ children' = list
            /\ UNCHANGED selected
       ELSE get_child_text_and_reply(list, selected) /\ UNCHANGED edit
    /\ UNCHANGED <<kid, filter, adding, editing, booked>>

CHLD_DEL(k) ==
    \/ kid[k] = Nobody /\ Fail /\ UNCHANGED booked
    \/ /\ kid[k] # Nobody
       /\ kid' = [kid EXCEPT ![k] = Nobody]
       /\ get_child_text_and_reply(_update_children(kid'), {})
       /\ UNCHANGED <<filter, adding, editing, edit, booked>>

CHLD_EDIT_START(k) ==
    /\ editing' = TRUE /\ edit' = k
    /\ screen' = "edit" /\ asked' = k
    /\ UNCHANGED <<kid, filter, children, selected, adding, booked>>

\* With one child to choose the form ends; with more it marks the child.
CHLD_SEL(k) ==
    /\ UNCHANGED <<kid, filter, adding, editing, edit>>
    /\ IF limit = 1 /\ k \in children
       THEN _finish_get_children({k})
       ELSE /\ UNCHANGED booked
            /\ IF limit = 1 \/ (k \notin selected /\ Cardinality(selected) >= limit)
               THEN UNCHANGED <<children, selected, screen, asked>>
               ELSE get_child_text_and_reply(
                        children, IF k \in selected THEN selected \ {k}
                                  ELSE selected \cup {k})

CHLD_FLTR(m) ==
    /\ filter' = m
    /\ get_child_text_and_reply(_update_children(kid), selected)
    /\ UNCHANGED <<kid, adding, editing, edit, booked>>

\* ChosenAreBooked: the marks of the first page only.
Bug_first_only ==
    /\ \E k \in selected :
          _finish_get_children(children \cap (selected \ {k}))
    /\ UNCHANGED <<kid, filter, adding, editing, edit>>

\* A child that is chosen and not on the list is passed over.
CHLD_CONFIRM ==
    /\ _finish_get_children(children \cap selected)
    /\ UNCHANGED <<kid, filter, adding, editing, edit>>

Handle(i) ==
    /\ \/ i[1] = "CHLD_EDIT" /\ CHLD_EDIT
       \/ i[1] = "CHLD_ADD" /\ CHLD_ADD
       \/ i[1] = "CHLD_EDIT_ONE" /\ CHLD_EDIT_ONE(i[2])
       \/ i[1] = "CHLD_DEL" /\ CHLD_DEL(i[2])
       \/ i[1] = "CHLD_EDIT_START" /\ CHLD_EDIT_START(i[2])
       \/ i[1] = "CHLD_SEL" /\ CHLD_SEL(i[2])
       \/ i[1] = "CHLD_FLTR" /\ CHLD_FLTR(i[2])
       \/ i[1] = "CHLD_CONFIRM" /\ CHLD_CONFIRM
    /\ UNCHANGED <<limit, admin, changes>>

Press == \E i \in Buttons : Handle(i) /\ last' = i

\* The same press once more; out of CHILDREN nothing answers it.
PressTwice ==
    /\ screen \notin {"phone", "summary", "wiped"}
    /\ last[1] \notin {"none", "text", "renamed", "created"}
    /\ Handle(last) /\ last' = None

----------------------------------------------------------------------------
(* What is typed: a name and an age.                                       *)

Rename(k) ==
    IF kid[k] = Nobody THEN Fail /\ last' = Text
    ELSE /\ last' = <<"renamed", k>>
         /\ children' = _update_children(kid)
         /\ adding' = FALSE /\ editing' = FALSE /\ edit' = "none"
         /\ screen' = "form" /\ asked' = "none"
         /\ UNCHANGED <<kid, selected, filter>>

create_child ==
    \E k \in Kids :
        /\ kid[k] = Nobody
        /\ kid' = [kid EXCEPT ![k] = [account |-> "mine",
                                     phone |-> admin \/ filter = "PHONE"]]
        /\ last' = <<"created", k>>
        /\ children' = _update_children(kid')
        /\ adding' = FALSE /\ editing' = FALSE /\ edit' = "none"
        /\ screen' = "form" /\ asked' = "none"
        /\ UNCHANGED <<selected, filter>>

get_children ==
    /\ screen \notin {"phone", "summary", "wiped"}
    /\ UNCHANGED <<limit, admin, booked, changes>>
    /\ \/ /\ adding \/ editing                       \* not a name and an age
          /\ screen' = "wrong" /\ last' = Text
          /\ UNCHANGED <<kid, filter, children, selected, adding, editing, edit,
                         asked>>
       \/ editing /\ edit # "none" /\ Rename(edit)
       \/ ~ editing /\ adding /\ create_child
       \/ /\ ~ editing /\ ~ adding                   \* the form is sent again
          /\ last' = Text
          /\ get_child_text_and_reply(_update_children(kid), selected)
          /\ UNCHANGED <<kid, filter, adding, editing, edit>>

\* Another account, or the profile dialog, removes a child.
Elsewhere ==
    \E k \in Kids :
        /\ changes < MaxChanges /\ changes' = changes + 1
        /\ kid[k] # Nobody
        /\ kid' = [kid EXCEPT ![k] = Nobody]
        /\ UNCHANGED <<form, last>>

Next ==
    \/ send_msg_get_child \/ BackToPhone \/ ChangeTicket \/ BackToForm \/ Again
    \/ Press \/ PressTwice \/ get_children \/ Elsewhere

Spec == Init /\ [][Next]_vars

----------------------------------------------------------------------------
(* Properties.                                                             *)

\* What is typed changes what was asked for last: it makes a new child after
\* "add", it renames the one child the question was about, nothing else.
TypedAsAsked ==
    last' # last =>
        /\ last'[1] = "created" => asked = "new"
        /\ last'[1] = "renamed" => asked = last'[2]
TypedGoesWhereAsked == [][TypedAsAsked]_vars

\* A child that was marked when the form was confirmed is in the booking,
\* unless it is not one of the account's own: the list of the phone shows
\* those, and every list that is read later drops them.
ChosenAreBooked ==
    screen = "summary" /\ limit >= 2 =>
        \A k \in selected :
            k \in booked \/ kid[k].account # "mine"
=============================================================================
