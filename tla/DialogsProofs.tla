--------------------------- MODULE DialogsProofs ---------------------------
(***************************************************************************)
(* The parts of Dialogs for all values of their constants: any number of   *)
(* children, orders, codes and showings, and forms of any length.  Each    *)
(* part has an inductive invariant of its own, explained where it is       *)
(* stated; at the end they are put together and the properties follow.     *)
(***************************************************************************)
EXTENDS Dialogs, Sequences, FiniteSetTheorems, TLAPS

-----------------------------------------------------------------------------
(* ChildrenForm: who was marked is booked, what is typed goes where it was *)
(* asked for.                                                              *)
(*                                                                         *)
(* While the form is open every marked child is on the list, or is no      *)
(* longer (or never was) one of the account's own: marks are cut down to   *)
(* the list whenever the form is sent, and the lists that are read again   *)
(* hold all the account's children.  A flag is set only while its question *)
(* is the last one: the screens with other buttons are reached by handlers *)
(* that reset both.  That takes the button of the last press along, for    *)
(* it may be pressed once more on the screen it led to.                    *)

KidsAreKnown ==
    /\ limit \in 0..2
    /\ kid = [k \in Kids |-> kid[k]]
    /\ children \subseteq Kids

MarkedAreListed ==
    message \notin {"phone", "wiped"} =>
        /\ selected \subseteq Kids
        /\ \A k \in selected : k \in children \/ kid[k].account # "mine"

ConfirmedAreBooked ==
    message = "summary" /\ limit > 1 => booked = children \cap selected

FlagsAreAsked ==
    message # "wiped" =>
        /\ adding => message \in {"add", "wrong"} /\ asked = "new"
        /\ editing => message \in {"edit", "wrong"} /\ asked = edit /\ ~adding

\* The screens a press leads to.
LedTo(b) ==
    CASE b = "CHLD_EDIT_START" -> {"edit"}
      [] b = "CHLD_ADD" -> {"add"}
      [] b = "CHLD_EDIT_ONE" -> {"one", "form"}
      [] OTHER -> {"form", "summary", "wiped"}

LastPress ==
    \/ last[1] \in {"none", "text", "renamed", "created"}
    \/ message \in LedTo(last[1])

ChildrenInv ==
    /\ KidsAreKnown /\ MarkedAreListed /\ ConfirmedAreBooked
    /\ FlagsAreAsked /\ LastPress

LEMMA ChildrenInit == F!Init => ChildrenInv
BY DEF F!Init, F!None, ChildrenInv, KidsAreKnown, MarkedAreListed,
       ConfirmedAreBooked, FlagsAreAsked, LastPress

\* The form that is sent has only marks of children on its list.
LEMMA FormIsCut ==
    ASSUME NEW list, NEW chosen, list \subseteq Kids,
           F!get_child_text_and_reply(list, chosen), limit' = limit,
           KidsAreKnown, DOMAIN kid' = Kids, kid' = [k \in Kids |-> kid'[k]]
    PROVE  /\ message' = "form" /\ children' = list
           /\ KidsAreKnown' /\ MarkedAreListed' /\ ConfirmedAreBooked'
<1>1. message' = "form" /\ children' = list
  BY DEF F!get_child_text_and_reply
<1>2. selected' \subseteq list
  BY DEF F!get_child_text_and_reply
<1> QED BY <1>1, <1>2 DEF KidsAreKnown, MarkedAreListed, ConfirmedAreBooked

LEMMA OwnAreKids ==
    ASSUME NEW db
    PROVE  F!get_children_of(db) \subseteq Kids /\ F!_update_children(db) \subseteq Kids
BY DEF F!get_children_of, F!_update_children

\* A button of the form, pressed on one of its screens.
LEMMA HandleKeeps ==
    ASSUME ChildrenInv, NEW i, F!Handle(i),
           message \in {"form", "one", "add", "edit", "wrong"},
           i[1] = "CHLD_ADD" => message \in {"form", "add"},
           i[1] = "CHLD_EDIT_START" => message \in {"one", "edit"},
           i[1] = "CHLD_SEL" => message = "form",
           i[1] \notin {"CHLD_ADD", "CHLD_EDIT_START", "CHLD_EDIT"} =>
               message \in {"form", "one"}
    PROVE  /\ KidsAreKnown' /\ MarkedAreListed' /\ ConfirmedAreBooked'
           /\ FlagsAreAsked'
           /\ i[1] \notin {"none", "text", "renamed", "created"}
           /\ message' \in LedTo(i[1])
<1>0. /\ limit' = limit
      /\ KidsAreKnown /\ MarkedAreListed /\ FlagsAreAsked
      /\ DOMAIN kid = Kids /\ children \subseteq Kids
      /\ F!_update_children(kid) \subseteq Kids
  BY OwnAreKids DEF F!Handle, ChildrenInv, KidsAreKnown
<1>f. ASSUME NEW list, NEW chosen, list \subseteq Kids, UNCHANGED kid,
             F!get_child_text_and_reply(list, chosen)
      PROVE  /\ message' = "form"
             /\ KidsAreKnown' /\ MarkedAreListed' /\ ConfirmedAreBooked'
  <2>1. DOMAIN kid' = Kids /\ kid' = [k \in Kids |-> kid'[k]]
    BY <1>0, <1>f DEF KidsAreKnown
  <2> QED BY <1>0, <1>f, <2>1, FormIsCut
<1>1. CASE i[1] = "CHLD_EDIT" /\ F!CHLD_EDIT
  <2>1. /\ adding' = FALSE /\ editing' = FALSE /\ kid' = kid
        /\ F!get_child_text_and_reply(children, selected)
    BY <1>1 DEF F!CHLD_EDIT
  <2>2. /\ message' = "form"
        /\ KidsAreKnown' /\ MarkedAreListed' /\ ConfirmedAreBooked'
    BY <1>0, <1>f, <2>1
  <2> QED BY <1>1, <2>1, <2>2 DEF FlagsAreAsked, LedTo
<1>2. CASE i[1] = "CHLD_ADD" /\ F!CHLD_ADD
  <2>1. /\ adding' = TRUE /\ message' = "add" /\ asked' = "new"
        /\ UNCHANGED <<kid, children, selected, editing>>
    BY <1>2 DEF F!CHLD_ADD
  <2>2. ~editing
    BY <1>0, <1>2 DEF FlagsAreAsked
  <2> QED BY <1>0, <1>2, <2>1, <2>2 DEF KidsAreKnown, MarkedAreListed,
             ConfirmedAreBooked, FlagsAreAsked, LedTo
<1>3. CASE i[1] = "CHLD_EDIT_ONE" /\ F!CHLD_EDIT_ONE(i[2])
  <2>1. PICK list : list = IF i[2] \in children THEN children
                           ELSE F!_update_children(kid)
    OBVIOUS
  <2>2. list \subseteq Kids
    BY <1>0, <2>1
  <2>3. /\ UNCHANGED <<kid, adding, editing>>
        /\ IF i[2] \in list
           THEN message' = "one" /\ children' = list /\ UNCHANGED selected
           ELSE F!get_child_text_and_reply(list, selected)
    BY <1>3, <2>1 DEF F!CHLD_EDIT_ONE
  <2>4. ~adding /\ ~editing /\ message \in {"form", "one"}
    BY <1>0, <1>3 DEF FlagsAreAsked
  <2>5. CASE i[2] \in list
    <3>1. \A k \in Kids : k \in children => k \in list \/ kid[k].account # "mine"
      BY <2>1 DEF F!_update_children, F!get_children_of
    <3>2. \A k \in Kids : k \in list \/ k \in children \/ kid[k].account # "mine"
                          \/ list = children
      BY <2>1 DEF F!_update_children, F!get_children_of
    <3>3. MarkedAreListed'
      BY <1>0, <2>1, <2>3, <2>4, <2>5, <3>1, <3>2 DEF MarkedAreListed
    <3> QED BY <1>0, <1>3, <2>2, <2>3, <2>4, <2>5, <3>3 DEF KidsAreKnown,
               ConfirmedAreBooked, FlagsAreAsked, LedTo
  <2>6. CASE i[2] \notin list
    BY <1>3, <1>f, <2>2, <2>3, <2>4, <2>6 DEF FlagsAreAsked, LedTo
  <2> QED BY <2>5, <2>6
<1>4. CASE i[1] = "CHLD_DEL" /\ F!CHLD_DEL(i[2])
  <2>1. ~adding /\ ~editing
    BY <1>0, <1>4 DEF FlagsAreAsked
  <2>2. CASE kid[i[2]] = F!Nobody /\ F!Fail /\ UNCHANGED booked
    BY <1>0, <1>4, <2>2 DEF F!Fail, KidsAreKnown, MarkedAreListed,
       ConfirmedAreBooked, FlagsAreAsked, LedTo
  <2>3. CASE kid[i[2]] # F!Nobody
    <3>1. /\ kid' = [kid EXCEPT ![i[2]] = F!Nobody]
          /\ F!get_child_text_and_reply(F!_update_children(kid'), {})
          /\ UNCHANGED <<adding, editing>>
      BY <1>4, <2>3 DEF F!CHLD_DEL
    <3>2. PICK db : db = kid'
      OBVIOUS
    <3>3. DOMAIN kid' = Kids /\ kid' = [k \in Kids |-> kid'[k]]
      BY <1>0, <3>1 DEF KidsAreKnown
    <3>4. F!_update_children(db) \subseteq Kids
      BY OwnAreKids
    <3>5. F!get_child_text_and_reply(F!_update_children(db), {})
      BY <3>1, <3>2
    <3>6. /\ message' = "form"
          /\ KidsAreKnown' /\ MarkedAreListed' /\ ConfirmedAreBooked'
      BY <1>0, <3>3, <3>4, <3>5, FormIsCut
    <3> QED BY <1>4, <2>1, <3>1, <3>6 DEF FlagsAreAsked, LedTo
  <2> QED BY <1>4, <2>2, <2>3 DEF F!CHLD_DEL
<1>5. CASE i[1] = "CHLD_EDIT_START" /\ F!CHLD_EDIT_START(i[2])
  <2>1. /\ editing' = TRUE /\ edit' = i[2] /\ message' = "edit" /\ asked' = i[2]
        /\ UNCHANGED <<kid, children, selected, adding>>
    BY <1>5 DEF F!CHLD_EDIT_START
  <2>2. ~adding
    BY <1>0, <1>5 DEF FlagsAreAsked
  <2> QED BY <1>0, <1>5, <2>1, <2>2 DEF KidsAreKnown, MarkedAreListed,
             ConfirmedAreBooked, FlagsAreAsked, LedTo
<1>6. CASE i[1] = "CHLD_SEL" /\ F!CHLD_SEL(i[2])
  <2>1. /\ UNCHANGED <<kid, adding, editing>> /\ ~adding /\ ~editing
        /\ message = "form"
    BY <1>0, <1>6 DEF F!CHLD_SEL, FlagsAreAsked
  <2>2. CASE limit = 1 /\ i[2] \in children
    <3>1. message' = "summary" /\ UNCHANGED <<children, selected>>
      BY <1>6, <2>2 DEF F!CHLD_SEL, F!_finish_get_children
    <3> QED BY <1>0, <1>6, <2>1, <2>2, <3>1 DEF KidsAreKnown, MarkedAreListed,
               ConfirmedAreBooked, FlagsAreAsked, LedTo
  <2>3. CASE UNCHANGED <<children, selected, message, asked>>
    <3>1. KidsAreKnown' /\ MarkedAreListed'
      BY <1>0, <2>1, <2>3 DEF KidsAreKnown, MarkedAreListed
    <3>2. ConfirmedAreBooked' /\ FlagsAreAsked'
      BY <1>0, <2>1, <2>3 DEF ConfirmedAreBooked, FlagsAreAsked
    <3> QED BY <1>6, <2>1, <2>3, <3>1, <3>2 DEF LedTo
  <2>4. CASE F!get_child_text_and_reply(
                 children, IF i[2] \in selected THEN selected \ {i[2]}
                           ELSE selected \cup {i[2]})
    BY <1>0, <1>6, <1>f, <2>1, <2>4 DEF FlagsAreAsked, LedTo
  <2> QED BY <1>6, <2>2, <2>3, <2>4 DEF F!CHLD_SEL
<1>7. CASE i[1] = "CHLD_FLTR" /\ F!CHLD_FLTR(i[2])
  <2>1. /\ UNCHANGED <<kid, adding, editing>> /\ ~adding /\ ~editing
        /\ F!get_child_text_and_reply(F!_update_children(kid), selected)
    BY <1>0, <1>7 DEF F!CHLD_FLTR, FlagsAreAsked
  <2> QED BY <1>0, <1>7, <1>f, <2>1 DEF FlagsAreAsked, LedTo
<1>8. CASE i[1] = "CHLD_CONFIRM" /\ F!CHLD_CONFIRM
  BY <1>0, <1>8 DEF F!CHLD_CONFIRM, F!_finish_get_children, KidsAreKnown,
     MarkedAreListed, ConfirmedAreBooked, FlagsAreAsked, LedTo
<1> QED BY <1>1, <1>2, <1>3, <1>4, <1>5, <1>6, <1>7, <1>8 DEF F!Handle

\* A name and an age: a child is made or renamed where that was asked for,
\* and the form is sent with the account's own children.
LEMMA TypedKids ==
    ASSUME ChildrenInv, F!get_children
    PROVE  ChildrenInv' /\ F!TypedAsAsked
<1>0. /\ message \notin {"phone", "summary", "wiped"} /\ limit' = limit
      /\ KidsAreKnown /\ MarkedAreListed /\ FlagsAreAsked
      /\ DOMAIN kid = Kids
  BY DEF F!get_children, ChildrenInv, KidsAreKnown
<1>1. CASE /\ adding \/ editing
           /\ message' = "wrong" /\ last' = F!Text
           /\ UNCHANGED <<kid, children, selected, adding, editing, edit, asked>>
  BY <1>0, <1>1 DEF F!Text, ChildrenInv, KidsAreKnown, MarkedAreListed,
     ConfirmedAreBooked, FlagsAreAsked, LastPress, F!TypedAsAsked
<1>2. CASE editing /\ edit # "none" /\ F!Rename(edit)
  <2>1. asked = edit
    BY <1>0, <1>2 DEF FlagsAreAsked
  <2>2. CASE kid[edit] = F!Nobody
    <3>1. message' = "wiped" /\ last' = F!Text /\ UNCHANGED <<kid, children>>
      BY <1>2, <2>2 DEF F!Rename, F!Fail
    <3> QED BY <1>0, <3>1 DEF F!Text, ChildrenInv, KidsAreKnown, MarkedAreListed,
               ConfirmedAreBooked, FlagsAreAsked, LastPress, F!TypedAsAsked
  <2>3. CASE kid[edit] # F!Nobody
    <3>1. /\ last' = <<"renamed", edit>> /\ children' = F!get_children_of(kid)
          /\ adding' = FALSE /\ editing' = FALSE /\ message' = "form"
          /\ UNCHANGED <<kid, selected>>
      BY <1>2, <2>3 DEF F!Rename, F!_update_children
    <3>2. MarkedAreListed'
      BY <1>0, <3>1 DEF MarkedAreListed, F!get_children_of
    <3> QED BY <1>0, <2>1, <3>1, <3>2, OwnAreKids DEF ChildrenInv, KidsAreKnown,
               ConfirmedAreBooked, FlagsAreAsked, LastPress, F!TypedAsAsked
  <2> QED BY <2>2, <2>3
<1>3. CASE ~editing /\ adding /\ F!create_child
  <2>1. PICK k \in Kids :
          /\ kid' = [kid EXCEPT ![k] = [account |-> "mine",
                                       phone |-> admin \/ filter = "PHONE"]]
          /\ last' = <<"created", k>>
          /\ children' = F!_update_children(kid')
          /\ adding' = FALSE /\ editing' = FALSE
          /\ message' = "form" /\ selected' = selected
    BY <1>3 DEF F!create_child
  <2>2. asked = "new"
    BY <1>0, <1>3 DEF FlagsAreAsked
  <2>3. children' = {j \in Kids : kid'[j].account = "mine"}
    BY <2>1 DEF F!_update_children, F!get_children_of
  <2>4. MarkedAreListed'
    BY <1>0, <2>1, <2>3 DEF MarkedAreListed
  <2>5. KidsAreKnown'
    BY <1>0, <2>1, <2>3 DEF KidsAreKnown
  <2> QED BY <2>1, <2>2, <2>4, <2>5 DEF ChildrenInv, ConfirmedAreBooked,
             FlagsAreAsked, LastPress, F!TypedAsAsked
<1>4. CASE /\ ~editing /\ ~adding /\ last' = F!Text
           /\ F!get_child_text_and_reply(F!_update_children(kid), selected)
           /\ UNCHANGED <<kid, adding, editing>>
  <2>1. DOMAIN kid' = Kids /\ kid' = [k \in Kids |-> kid'[k]]
    BY <1>0, <1>4 DEF KidsAreKnown
  <2>2. /\ message' = "form"
        /\ KidsAreKnown' /\ MarkedAreListed' /\ ConfirmedAreBooked'
    BY <1>0, <1>4, <2>1, FormIsCut, OwnAreKids
  <2> QED BY <1>4, <2>2 DEF F!Text, ChildrenInv, FlagsAreAsked, LastPress,
             F!TypedAsAsked
<1> QED BY <1>1, <1>2, <1>3, <1>4 DEF F!get_children

LEMMA PairOf ==
    ASSUME NEW A, NEW Z, NEW p \in A \X Z
    PROVE  p[1] \in A
OBVIOUS

LEMMA ButtonsOfScreens ==
    ASSUME NEW i, i \in F!Buttons
    PROVE  /\ message \in {"form", "one", "add", "edit", "wrong"}
           /\ i[1] = "CHLD_ADD" => message = "form"
           /\ i[1] = "CHLD_EDIT_START" => message = "one"
           /\ i[1] = "CHLD_SEL" => message = "form"
           /\ i[1] \notin {"CHLD_ADD", "CHLD_EDIT_START", "CHLD_EDIT"} =>
                 message \in {"form", "one"}
<1>2. CASE message = "form"
  <2>1. F!Buttons =
            ({"CHLD_SEL", "CHLD_EDIT_ONE"} \X children) \cup
            {<<"CHLD_ADD", "">>} \cup ({"CHLD_FLTR"} \X {"PHONE", "MY"}) \cup
            (IF limit >= 2 /\ F!Cardinality(selected) = limit
             THEN {<<"CHLD_CONFIRM", "">>} ELSE {})
    BY <1>2, Zenon DEF F!Buttons
  <2>2. \/ i \in {"CHLD_SEL", "CHLD_EDIT_ONE"} \X children
        \/ i = <<"CHLD_ADD", "">>
        \/ i \in {"CHLD_FLTR"} \X {"PHONE", "MY"}
        \/ i = <<"CHLD_CONFIRM", "">>
    BY <2>1
  <2>3. i[1] \in {"CHLD_SEL", "CHLD_EDIT_ONE", "CHLD_ADD", "CHLD_FLTR",
                  "CHLD_CONFIRM"}
    BY <2>2, PairOf
  <2> QED BY <1>2, <2>3
<1>3. CASE message = "one"
  <2>1. F!Buttons = {<<"CHLD_EDIT_START", edit>>, <<"CHLD_DEL", edit>>,
                     <<"CHLD_EDIT", "">>}
    BY <1>3 DEF F!Buttons
  <2>2. i \in {<<"CHLD_EDIT_START", edit>>, <<"CHLD_DEL", edit>>,
                <<"CHLD_EDIT", "">>}
    BY <2>1
  <2>3. i[1] \in {"CHLD_EDIT_START", "CHLD_DEL", "CHLD_EDIT"}
    <3>1. CASE i = <<"CHLD_EDIT_START", edit>>
      BY <3>1
    <3>2. CASE i = <<"CHLD_DEL", edit>>
      BY <3>2
    <3>3. CASE i = <<"CHLD_EDIT", "">>
      BY <3>3
    <3> QED BY <2>2, <3>1, <3>2, <3>3
  <2> QED BY <1>3, <2>3
<1>4. CASE message \in {"add", "edit", "wrong"}
  <2>1. F!Buttons = {<<"CHLD_EDIT", "">>}
    BY <1>4 DEF F!Buttons
  <2>2. i = <<"CHLD_EDIT", "">>
    BY <2>1
  <2> QED BY <1>4, <2>2
<1>5. CASE message \notin {"form", "one", "add", "edit", "wrong"}
  BY <1>5 DEF F!Buttons
<1> QED BY <1>2, <1>3, <1>4, <1>5

LEMMA PressedKids ==
    ASSUME ChildrenInv, F!Press \/ F!PressTwice
    PROVE  ChildrenInv' /\ F!TypedAsAsked
<1>1. CASE F!Press
  <2>1. PICK i \in F!Buttons : F!Handle(i) /\ last' = i
    BY <1>1 DEF F!Press
  <2>2. /\ message \in {"form", "one", "add", "edit", "wrong"}
        /\ i[1] = "CHLD_ADD" => message = "form"
        /\ i[1] = "CHLD_EDIT_START" => message = "one"
        /\ i[1] = "CHLD_SEL" => message = "form"
        /\ i[1] \notin {"CHLD_ADD", "CHLD_EDIT_START", "CHLD_EDIT"} =>
              message \in {"form", "one"}
    BY <2>1, ButtonsOfScreens
  <2>7. /\ KidsAreKnown' /\ MarkedAreListed' /\ ConfirmedAreBooked'
        /\ FlagsAreAsked' /\ message' \in LedTo(i[1])
        /\ i[1] \notin {"none", "text", "renamed", "created"}
    BY <2>1, <2>2, HandleKeeps
  <2> QED BY <2>1, <2>7 DEF ChildrenInv, LastPress, F!TypedAsAsked
<1>2. CASE F!PressTwice
  <2>1. F!Handle(last) /\ last' = F!None
    BY <1>2 DEF F!PressTwice
  <2>2. message \notin {"phone", "summary", "wiped"} /\ message \in LedTo(last[1])
    BY <1>2 DEF F!PressTwice, ChildrenInv, LastPress
  <2>3. message \in {"form", "one", "add", "edit"}
    BY <2>2 DEF LedTo
  <2>4. last[1] = "CHLD_ADD" => message \in {"form", "add"}
    BY <2>2 DEF LedTo
  <2>5. last[1] = "CHLD_EDIT_START" => message \in {"one", "edit"}
    BY <2>2 DEF LedTo
  <2>6. last[1] = "CHLD_SEL" => message = "form"
    BY <2>2 DEF LedTo
  <2>7. last[1] \notin {"CHLD_ADD", "CHLD_EDIT_START", "CHLD_EDIT"} =>
            message \in {"form", "one"}
    BY <2>2 DEF LedTo
  <2>8. PICK i : i = last
    OBVIOUS
  <2>9. /\ KidsAreKnown' /\ MarkedAreListed' /\ ConfirmedAreBooked'
        /\ FlagsAreAsked'
    BY <2>1, <2>3, <2>4, <2>5, <2>6, <2>7, <2>8, HandleKeeps
  <2> QED BY <2>1, <2>9 DEF F!None, ChildrenInv, LastPress, F!TypedAsAsked
<1> QED BY <1>1, <1>2

LEMMA ChildrenStep ==
    ASSUME ChildrenInv, [F!Next]_(F!vars)
    PROVE  ChildrenInv' /\ (F!TypedAsAsked \/ UNCHANGED last)
<1> USE DEF ChildrenInv
<1>1. CASE UNCHANGED F!vars
  BY <1>1 DEF F!vars, KidsAreKnown, MarkedAreListed, ConfirmedAreBooked,
     FlagsAreAsked, LastPress
<1>0. CASE F!send_msg_get_child /\ limit = 0
  <2>1. /\ message' = "wiped" /\ last' = F!None
        /\ UNCHANGED <<kid, limit, children, selected, booked>>
    BY <1>0 DEF F!send_msg_get_child, F!Fail
  <2> QED BY <2>1 DEF F!None, KidsAreKnown, MarkedAreListed, ConfirmedAreBooked,
             FlagsAreAsked, LastPress, F!TypedAsAsked
<1>2. CASE F!send_msg_get_child /\ limit > 0
  <2>1. PICK list : /\ list \in {F!get_children_by_phone(kid), F!get_children_of(kid)}
                    /\ F!get_child_text_and_reply(list, selected)
    BY <1>2 DEF F!send_msg_get_child
  <2>2. /\ message = "phone" /\ last' = F!None
        /\ UNCHANGED <<kid, limit, adding, editing, edit>>
    BY <1>2 DEF F!send_msg_get_child
  <2>3. list \subseteq Kids
    BY <2>1 DEF F!get_children_by_phone, F!get_children_of
  <2>4. DOMAIN kid' = Kids /\ kid' = [k \in Kids |-> kid'[k]]
    BY <2>2 DEF KidsAreKnown
  <2>5. /\ message' = "form"
        /\ KidsAreKnown' /\ MarkedAreListed' /\ ConfirmedAreBooked'
    BY <2>1, <2>2, <2>3, <2>4, FormIsCut
  <2>6. FlagsAreAsked'
    BY <2>2, <2>5 DEF FlagsAreAsked
  <2> QED BY <2>2, <2>5, <2>6 DEF F!None, LastPress, F!TypedAsAsked
<1>3. CASE F!BackToPhone \/ F!Again
  BY <1>3 DEF F!BackToPhone, F!Again, F!None, KidsAreKnown, MarkedAreListed,
     ConfirmedAreBooked, FlagsAreAsked, LastPress, F!TypedAsAsked
<1>4. CASE F!ChangeTicket
  BY <1>4 DEF F!ChangeTicket, KidsAreKnown, MarkedAreListed,
     ConfirmedAreBooked, FlagsAreAsked, LastPress
<1>5. CASE F!BackToForm
  BY <1>5 DEF F!BackToForm, F!None, KidsAreKnown, MarkedAreListed,
     ConfirmedAreBooked, FlagsAreAsked, LastPress, F!TypedAsAsked
<1>6. CASE F!Press \/ F!PressTwice
  BY <1>6, PressedKids
<1>7. CASE F!get_children
  BY <1>7, TypedKids
<1>8. CASE F!Elsewhere
  <2>1. PICK k \in Kids : kid' = [kid EXCEPT ![k] = F!Nobody]
    BY <1>8 DEF F!Elsewhere
  <2>2. UNCHANGED <<limit, children, selected, adding, editing, edit, message,
                    booked, last, asked>>
    BY <1>8 DEF F!Elsewhere, F!form
  <2>3. KidsAreKnown'
    BY <2>1, <2>2 DEF KidsAreKnown
  <2>4. MarkedAreListed'
    BY <2>1, <2>2 DEF KidsAreKnown, MarkedAreListed, F!Nobody
  <2> QED BY <2>2, <2>3, <2>4 DEF ConfirmedAreBooked, FlagsAreAsked, LastPress
<1>9. limit > 0 \/ limit = 0
  BY DEF KidsAreKnown
<1> QED BY <1>0, <1>1, <1>2, <1>3, <1>4, <1>5, <1>6, <1>7, <1>8, <1>9
    DEF F!Next, F!send_msg_get_child

\* A ticket for two or more: limit > 0, and what is marked is in the booking.
LEMMA MarkedAreBooked == ChildrenInv => F!ChosenAreBooked
BY DEF ChildrenInv, KidsAreKnown, MarkedAreListed, ConfirmedAreBooked, F!ChosenAreBooked

-----------------------------------------------------------------------------
(* SalesDialog: what is started is what was selected.                      *)
(*                                                                         *)
(* The message is asked for only where a selection ends, and its preview   *)
(* is no screen that "back" comes to: whoever goes back has to select      *)
(* anew before he can start.  So while the message is written or shown,    *)
(* the campaign is the one of the last selection.                          *)

CampaignShape ==
    row = [type |-> row.type, play |-> row.play, showings |-> row.showings,
           to |-> row.to, written |-> row.written, status |-> row.status]

Selected ==
    /\ row.to = found.to /\ row.type = sales.type
    /\ row.play = sales.play /\ row.showings = sales.schedule_ids

SalesInv ==
    /\ CampaignShape
    /\ "PREVIEW" \notin saved
    /\ at \in {"GET_MESSAGE", "PREVIEW"} /\ found.made /\ ~sales.dev => Selected

LEMMA SalesInit == M!Init => SalesInv
BY DEF M!Init, M!NoCampaign, M!Nothing, SalesInv, CampaignShape

\* Neither a screen nor a list that is shown on the way has a message.
LEMMA OnTheWay ==
    ASSUME SalesInv, NEW s, NEW d, M!Screen(s, d) \/ M!List(s, d), M!Same,
           s \notin {"GET_MESSAGE", "PREVIEW"}
    PROVE  SalesInv' /\ row' = row
<1>1. at' = s /\ saved' \in {saved, saved \cup {s}} /\ row' = row /\ found' = found
  BY DEF M!Screen, M!List, M!Same
<1>2. "PREVIEW" \notin saved'
  BY <1>1 DEF SalesInv
<1> QED BY <1>1, <1>2 DEF SalesInv, CampaignShape

LEMMA AudienceIsNext ==
    ASSUME SalesInv, NEW d, M!_proceed_to_audience_selection(d), M!Same
    PROVE  SalesInv' /\ row' = row
<1>1. PICK s, e : M!Screen(s, e) /\ s \notin {"GET_MESSAGE", "PREVIEW"}
  BY DEF M!_proceed_to_audience_selection, M!show_pick_filters, M!show_pick_audience_theater
<1> QED BY <1>1, OnTheWay

\* A selection makes the campaign out of itself, or makes none.
LEMMA SelectionIsKept ==
    ASSUME SalesInv, NEW d, M!show_build_audience(d)
    PROVE  SalesInv' /\ (row'.status = "running" => row' = row)
<1>1. CASE M!CannotBuild(d)
  <2>1. at' = "wiped" /\ saved' = {} /\ row' = M!NoCampaign
    BY <1>1 DEF M!show_build_audience
  <2> QED BY <2>1 DEF SalesInv, CampaignShape, M!NoCampaign
<1>2. CASE ~M!CannotBuild(d)
  <2>1. PICK none \in BOOLEAN :
          /\ sales' = d /\ found' = [made |-> ~none, to |-> M!Selection(d)]
          /\ row' = IF none THEN row ELSE M!Campaign(d)
    BY <1>2 DEF M!show_build_audience
  <2>2. saved' \subseteq saved \cup {"BUILD_AUDIENCE", "GET_MESSAGE"}
    BY <1>2 DEF M!show_build_audience
  <2>3. CASE none
    BY <2>1, <2>2, <2>3 DEF SalesInv, CampaignShape
  <2>4. CASE ~none
    BY <2>1, <2>2, <2>4 DEF SalesInv, CampaignShape, Selected, M!Campaign
  <2> QED BY <2>3, <2>4
<1> QED BY <1>1, <1>2

LEMMA SalesStep ==
    ASSUME SalesInv, [M!Next]_(M!vars)
    PROVE  SalesInv' /\ (M!AsSelected \/ UNCHANGED row)
<1>1. CASE UNCHANGED M!vars
  BY <1>1 DEF M!vars, SalesInv, CampaignShape, Selected
<1>2. CASE M!start_sales
  <2>1. at' = "PICK_TYPE" /\ saved' = {"PICK_TYPE"} /\ row' = M!NoCampaign
    BY <1>2 DEF M!start_sales
  <2> QED BY <2>1 DEF SalesInv, CampaignShape, M!NoCampaign, M!AsSelected
<1>3. CASE M!pick_type \/ M!pick_theater
  <2>1. PICK s, d : /\ M!Screen(s, d) /\ M!Same
                    /\ s \in {"PICK_THEATER", "PICK_FILTERS", "PICK_SCOPE"}
    BY <1>3 DEF M!pick_type, M!pick_theater, M!show_pick_filters
  <2> QED BY <2>1, OnTheWay
<1>4. CASE M!pick_scope
  <2>1. CASE M!show_pick_schedules(sales)
    BY <1>4, <2>1, OnTheWay DEF M!pick_scope, M!show_pick_schedules
  <2>2. CASE M!_proceed_to_audience_selection(
               [sales EXCEPT !.schedule_ids = M!_get_available_schedules(sales.play)])
    BY <1>4, <2>2, AudienceIsNext DEF M!pick_scope
  <2> QED BY <1>4, <2>1, <2>2 DEF M!pick_scope
<1>5. CASE M!pick_schedules
  <2>1. M!Same
    BY <1>5 DEF M!pick_schedules
  <2>2. CASE \E d : M!Screen("PICK_SCHEDULES", d) \/ M!List("PICK_SCHEDULES", d)
    BY <2>1, <2>2, OnTheWay
  <2>3. CASE \E d : M!_proceed_to_audience_selection(d)
    BY <2>1, <2>3, AudienceIsNext
  <2> QED BY <1>5, <2>2, <2>3 DEF M!pick_schedules
<1>6. CASE M!pick_audience_theater
  <2>1. CASE M!Same /\ \E d : M!Screen("PICK_AUDIENCE_THEATER", d)
    BY <2>1, OnTheWay
  <2>2. CASE M!show_build_audience(sales)
    BY <2>2, SelectionIsKept DEF M!AsSelected
  <2> QED BY <1>6, <2>1, <2>2 DEF M!pick_audience_theater
<1>7. CASE M!pick_filters
  <2>1. CASE M!Same /\ \E f \in M!Filters : M!List(f, sales)
    <3>1. PICK f \in M!Filters : M!List(f, sales)
      BY <2>1
    <3>2. f \notin {"GET_MESSAGE", "PREVIEW"}
      BY DEF M!Filters
    <3> QED BY <2>1, <3>1, <3>2, OnTheWay
  <2>2. CASE M!Same /\ M!Screen("PICK_TICKET_IDS", sales)
    BY <2>2, OnTheWay
  <2>3. CASE M!show_build_audience(sales)
    BY <2>3, SelectionIsKept DEF M!AsSelected
  <2> QED BY <1>7, <2>1, <2>2, <2>3 DEF M!pick_filters
<1>8. ASSUME NEW f \in M!Filters, NEW list, M!Filter(f, list)
      PROVE  SalesInv' /\ row' = row
  <2>1. PICK s, d : /\ M!Screen(s, d) \/ M!List(s, d)
                    /\ M!Same /\ s \in M!Filters \cup {"PICK_FILTERS"}
    BY <1>8 DEF M!Filter, M!show_pick_filters
  <2>2. s \notin {"GET_MESSAGE", "PREVIEW"}
    BY <2>1 DEF M!Filters
  <2> QED BY <2>1, <2>2, OnTheWay
<1>9. CASE \/ M!pick_filter_status \/ M!pick_filter_type_event
           \/ M!pick_filter_theater_event \/ M!pick_filter_base_ticket
  BY <1>8, <1>9 DEF M!pick_filter_status, M!pick_filter_type_event,
     M!pick_filter_theater_event, M!pick_filter_base_ticket, M!Filters
<1>10. CASE M!pick_filter_schedule_event
  <2>1. CASE \E list : M!Filter("schedule_event", list)
    BY <1>8, <2>1 DEF M!Filters
  <2>2. CASE M!Same /\ at = "schedule_event" /\ \E d : M!List(at, d)
    BY <2>2, OnTheWay
  <2> QED BY <1>10, <2>1, <2>2 DEF M!pick_filter_schedule_event
<1>11. CASE M!pick_ticket_ids
  BY <1>11, SelectionIsKept DEF M!pick_ticket_ids, M!AsSelected
<1>12. CASE M!input_dev_chat_ids
  <2>1. /\ sales.dev /\ sales' = sales /\ row' = [row EXCEPT !.to = Someone]
        /\ saved' = saved \cup {"GET_MESSAGE"}
    BY <1>12 DEF M!input_dev_chat_ids, M!Screen
  <2> QED BY <2>1 DEF SalesInv, CampaignShape, M!AsSelected
<1>13. CASE M!handle_admin_message
  <2>1. /\ at = "GET_MESSAGE" /\ row' = [row EXCEPT !.written = TRUE]
        /\ UNCHANGED <<saved, sales, found>>
    BY <1>13 DEF M!handle_admin_message, M!List
  <2> QED BY <2>1 DEF SalesInv, CampaignShape, Selected, M!AsSelected
<1>14. CASE M!edit_text
  <2>1. /\ at = "PREVIEW" /\ saved' = saved \cup {"GET_MESSAGE"} /\ UNCHANGED <<sales, row, found>>
    BY <1>14 DEF M!edit_text, M!Screen, M!Same
  <2> QED BY <2>1 DEF SalesInv, CampaignShape, Selected
<1>15. CASE M!edit_schedules
  BY <1>15, OnTheWay DEF M!edit_schedules, M!show_pick_schedules
<1>16. CASE M!cancel_campaign
  <2>1. at' = "idle" /\ row' = [row EXCEPT !.status = "canceled"] /\ saved' = saved
    BY <1>16 DEF M!cancel_campaign
  <2> QED BY <2>1 DEF SalesInv, CampaignShape, M!AsSelected
<1>17. CASE M!run
  <2>1. /\ at = "PREVIEW" /\ UNCHANGED <<saved, sales, found>>
        /\ row' \in {[row EXCEPT !.status = "running"], [row EXCEPT !.status = "failed"]}
    BY <1>17 DEF M!run
  <2>2. CampaignShape' /\ (Selected => Selected')
    BY <2>1 DEF SalesInv, CampaignShape, Selected
  <2>3. SalesInv'
    BY <2>1, <2>2 DEF SalesInv
  <2>4. M!AsSelected
    BY <2>1 DEF SalesInv, Selected, M!AsSelected
  <2> QED BY <2>3, <2>4
<1>18. CASE M!cancel
  BY <1>18 DEF M!cancel, SalesInv, CampaignShape
<1>19. CASE M!back
  <2>1. at' \in saved \ {"GET_MESSAGE"} /\ UNCHANGED <<saved, sales, row, found>>
    BY <1>19 DEF M!back
  <2> QED BY <2>1 DEF SalesInv, CampaignShape
<1> QED BY <1>1, <1>2, <1>3, <1>4, <1>5, <1>6, <1>7, <1>9, <1>10, <1>11, <1>12, <1>13, <1>14,
           <1>15, <1>16, <1>17, <1>18, <1>19
    DEF M!Next

-----------------------------------------------------------------------------
(* PromotionForm: saved as shown, and "back" is known.                     *)
(*                                                                         *)
(* Of a code that is edited every summary of the form shows what the form  *)
(* has: an answer leads to a new summary, and what is changed without one  *)
(* leaves the fields and the value alone.  Of a new code everything before *)
(* the question at hand was asked in this form, until a summary is shown;  *)
(* a screen of an earlier form can be come to only when all was asked.     *)

Needed == {"PROM_NAME", "PROM_CODE", "PROM_DTYPE", "PROM_VALUE", "PROM_MIN_SUM", "PROM_VISIBLE",
           "PROM_VERIFY", "PROM_VTEXT", "PROM_START", "PROM_EXPIRE", "PROM_MAX_USAGE_USER"}
Questions == Needed \cup {"PROM_MAX_USAGE", "PROM_WEEKDAYS", "PROM_DESC"}
Restrictions == {"PROM_RESTRICT_TYPE", "PROM_RESTRICT_THEATER", "PROM_RESTRICT_TICKET",
                 "PROM_RESTRICT_SCHEDULE"}
FormStates == Questions \cup Restrictions \cup {"PROM_CONFIRM"}
Menus == {"1", "2", "3"}

Rank(s) ==
    CASE s = "PROM_NAME" -> 1      [] s = "PROM_CODE" -> 2     [] s = "PROM_DTYPE" -> 3
      [] s = "PROM_VALUE" -> 4     [] s = "PROM_MIN_SUM" -> 5  [] s = "PROM_VISIBLE" -> 6
      [] s = "PROM_VERIFY" -> 7    [] s = "PROM_VTEXT" -> 8    [] s = "PROM_START" -> 9
      [] s = "PROM_EXPIRE" -> 10   [] s = "PROM_MAX_USAGE" -> 11
      [] s = "PROM_MAX_USAGE_USER" -> 12
      [] s = "PROM_WEEKDAYS" -> 13 [] s = "PROM_DESC" -> 14

Promotion ==
    [f : [C!Answered -> 0..2], code : Codes \cup {"none", "old", "generated"},
     type : {"none", "percentage", "fixed"}, value : {"none", "small", "large"},
     weekdays : {"any", "some", "never"}, only : SUBSET Restrictions]

PromotionTyped ==
    /\ answers \in Promotion /\ form \in Nat
    /\ rows \in [DOMAIN rows -> Promotion] /\ 0 \notin DOMAIN rows
    /\ at \in {"idle"} \cup Menus \cup FormStates

\* What a screen of state s is like, in form n, of code id, with these saved.
ScreenIs(s, scr, n, id, keys) ==
    /\ scr.form \in 0..n
    /\ scr.back \in {"none", "3", "PROM_CONFIRM", "PROM_MAX_USAGE"} \cup Menus \cup Needed
    /\ scr.kind = "PROM_CONFIRM" => s = "PROM_CONFIRM"
    /\ scr.skip => s \in FormStates
    /\ s \notin FormStates => scr.form = 0 \/ scr.back = "none"
    /\ s \in Questions \cup {"PROM_CONFIRM"} => scr.form # 0
    /\ scr.form = 0 => scr.back \in {"none"} \cup (Menus \cap keys)
    /\ scr.form = n /\ id # 0 =>
          scr.back \in {"none"} \cup keys \/ scr.kind \in {"refused", "PROM_WEEKDAYS"}
    /\ scr.form = n /\ id = 0 /\ s \in Questions => scr.back \in {"none", C!Before(s)}
    /\ s = "PROM_CONFIRM" => scr.back = "3"
    /\ s \in Restrictions => scr.back \in {"none", "PROM_CONFIRM"}
SummaryIs(scr, n, id, d) ==
    scr.kind = "PROM_CONFIRM" /\ scr.form = n /\ id # 0 =>
        \A e \in scr.shows : e.f = d.f /\ e.value = d.value

ScreensAre ==
    /\ \A s \in DOMAIN saved : ScreenIs(s, saved[s], form, update, DOMAIN saved)
    /\ ScreenIs(at, message, form, update, DOMAIN saved)
SummariesAre ==
    /\ \A s \in DOMAIN saved : SummaryIs(saved[s], form, update, answers)
    /\ SummaryIs(message, form, update, answers)

\* What was shown on the way to a state.
Stacked ==
    /\ "3" \in DOMAIN saved => "2" \in DOMAIN saved
    /\ "2" \in DOMAIN saved => "1" \in DOMAIN saved
    /\ at \in Menus => at \in DOMAIN saved
    /\ at \in FormStates => form # 0 /\ "3" \in DOMAIN saved
    /\ at \in Needed \cup {"PROM_CONFIRM"} => at \in DOMAIN saved
    /\ at \in Restrictions => "PROM_CONFIRM" \in DOMAIN saved
    /\ update # 0 /\ at \in FormStates => "PROM_CONFIRM" \in DOMAIN saved

AskedUpTo(m) ==
    \A q \in Needed : Rank(q) <= m => q \in DOMAIN saved /\ saved[q].form = form
\* Of a new code whose summary was not shown.
AskedInRow ==
    C!Straight =>
        /\ at \in Questions => AskedUpTo(Rank(at))
        /\ at \in Restrictions \cup {"PROM_CONFIRM"} => AskedUpTo(12)
        /\ at \in Questions /\ message.form # form => AskedUpTo(12)

PromotionInv == PromotionTyped /\ ScreensAre /\ SummariesAre /\ Stacked /\ AskedInRow

LEMMA PromotionInit == C!Init => PromotionInv
<1> SUFFICES ASSUME C!Init PROVE PromotionInv
  OBVIOUS
<1>1. /\ at = "idle" /\ saved = <<>> /\ form = 0 /\ update = 0
      /\ message = [kind |-> "blank", back |-> "none", skip |-> FALSE, shows |-> {}, form |-> 0]
      /\ answers = C!NoData /\ rows = [id \in {1} |-> C!Stored]
  BY DEF C!Init, C!MenuInit, C!Blank, C!Shown, C!NoBack
<1>2. C!NoData \in Promotion
  BY DEF C!NoData, Promotion
<1>3. C!Stored \in Promotion
  <2>1. PICK f : f = [s \in C!Answered |-> IF s \in C!Optional THEN 0 ELSE 1]
    OBVIOUS
  <2>2. f \in [C!Answered -> 0..2]
    BY <2>1
  <2>3. C!Stored = [C!NoData EXCEPT !.f = f, !.code = "old", !.type = "fixed", !.value = "large"]
    BY <2>1 DEF C!Stored
  <2> QED BY <1>2, <2>2, <2>3 DEF Promotion
<1>4. DOMAIN saved = {} /\ DOMAIN rows = {1} /\ rows \in [DOMAIN rows -> Promotion]
  BY <1>1, <1>3
<1>5. at \notin Menus \cup FormStates
  BY <1>1 DEF Menus, FormStates, Questions, Needed, Restrictions
<1>6. PromotionTyped
  BY <1>1, <1>2, <1>4 DEF PromotionTyped
<1>7. ScreensAre
  BY <1>1, <1>4, <1>5 DEF ScreensAre, ScreenIs, FormStates
<1>8. SummariesAre /\ Stacked
  BY <1>1, <1>4, <1>5 DEF SummariesAre, SummaryIs, Stacked, FormStates, Questions
<1>9. AskedInRow
  BY <1>5 DEF AskedInRow, FormStates
<1> QED BY <1>6, <1>7, <1>8, <1>9 DEF PromotionInv

LEMMA RankIs ==
    /\ Rank("PROM_NAME") = 1 /\ Rank("PROM_CODE") = 2
    /\ Rank("PROM_DTYPE") = 3 /\ Rank("PROM_VALUE") = 4
    /\ Rank("PROM_MIN_SUM") = 5 /\ Rank("PROM_VISIBLE") = 6
    /\ Rank("PROM_VERIFY") = 7 /\ Rank("PROM_VTEXT") = 8
    /\ Rank("PROM_START") = 9 /\ Rank("PROM_EXPIRE") = 10
    /\ Rank("PROM_MAX_USAGE") = 11 /\ Rank("PROM_MAX_USAGE_USER") = 12
    /\ Rank("PROM_WEEKDAYS") = 13 /\ Rank("PROM_DESC") = 14
BY DEF Rank

LEMMA BeforeIs ==
    /\ C!Before("PROM_NAME") = "3"
    /\ C!Before("PROM_CODE") = "PROM_NAME"
    /\ C!Before("PROM_DTYPE") = "PROM_CODE"
    /\ C!Before("PROM_VALUE") = "PROM_DTYPE"
    /\ C!Before("PROM_MIN_SUM") = "PROM_VALUE"
    /\ C!Before("PROM_VISIBLE") = "PROM_MIN_SUM"
    /\ C!Before("PROM_VERIFY") = "PROM_VISIBLE"
    /\ C!Before("PROM_VTEXT") = "PROM_VERIFY"
    /\ C!Before("PROM_START") = "PROM_VTEXT"
    /\ C!Before("PROM_EXPIRE") = "PROM_START"
    /\ C!Before("PROM_MAX_USAGE") = "PROM_EXPIRE"
    /\ C!Before("PROM_MAX_USAGE_USER") = "PROM_MAX_USAGE"
    /\ C!Before("PROM_WEEKDAYS") = "PROM_MAX_USAGE_USER"
    /\ C!Before("PROM_DESC") = "PROM_MAX_USAGE"
BY DEF C!Before

\* The question before another has a lower rank.
LEMMA BeforeInRow ==
    ASSUME NEW s \in Questions
    PROVE  /\ Rank(s) \in 1..14
           /\ C!Before(s) \in {"3", "PROM_MAX_USAGE"} \cup Needed
           /\ C!Before(s) \in Questions => Rank(C!Before(s)) < Rank(s)
           /\ C!Before(s) = "PROM_MAX_USAGE" => Rank(s) >= 12
           /\ s \in Needed => Rank(s) <= 12
<1>1. CASE s = "PROM_NAME"
  BY <1>1, RankIs, BeforeIs DEF Needed, Questions
<1>2. CASE s = "PROM_CODE"
  BY <1>2, RankIs, BeforeIs DEF Needed, Questions
<1>3. CASE s = "PROM_DTYPE"
  BY <1>3, RankIs, BeforeIs DEF Needed, Questions
<1>4. CASE s = "PROM_VALUE"
  BY <1>4, RankIs, BeforeIs DEF Needed, Questions
<1>5. CASE s = "PROM_MIN_SUM"
  BY <1>5, RankIs, BeforeIs DEF Needed, Questions
<1>6. CASE s = "PROM_VISIBLE"
  BY <1>6, RankIs, BeforeIs DEF Needed, Questions
<1>7. CASE s = "PROM_VERIFY"
  BY <1>7, RankIs, BeforeIs DEF Needed, Questions
<1>8. CASE s = "PROM_VTEXT"
  BY <1>8, RankIs, BeforeIs DEF Needed, Questions
<1>9. CASE s = "PROM_START"
  BY <1>9, RankIs, BeforeIs DEF Needed, Questions
<1>10. CASE s = "PROM_EXPIRE"
  BY <1>10, RankIs, BeforeIs DEF Needed, Questions
<1>11. CASE s = "PROM_MAX_USAGE"
  BY <1>11, RankIs, BeforeIs DEF Needed, Questions
<1>12. CASE s = "PROM_MAX_USAGE_USER"
  BY <1>12, RankIs, BeforeIs DEF Needed, Questions
<1>13. CASE s = "PROM_WEEKDAYS"
  BY <1>13, RankIs, BeforeIs DEF Needed, Questions
<1>14. CASE s = "PROM_DESC"
  BY <1>14, RankIs, BeforeIs DEF Needed, Questions
<1> QED BY <1>1, <1>2, <1>3, <1>4, <1>5, <1>6, <1>7, <1>8, <1>9, <1>10, <1>11, <1>12, <1>13, <1>14 DEF Questions, Needed

LEMMA StatesDiffer ==
    /\ Questions \cap Restrictions = {} /\ "PROM_CONFIRM" \notin Questions \cup Restrictions
    /\ Menus \cap FormStates = {} /\ "idle" \notin Menus \cup FormStates /\ Needed \subseteq Questions
    /\ "none" \notin Menus \cup FormStates
BY DEF Questions, Needed, Restrictions, FormStates, Menus

\* A screen stays what it is when more is saved.
LEMMA MoreIsSaved ==
    ASSUME NEW s, NEW scr, NEW n, NEW id, NEW keys, NEW more, keys \subseteq more,
           ScreenIs(s, scr, n, id, keys)
    PROVE  ScreenIs(s, scr, n, id, more)
BY DEF ScreenIs

\* One more dictionary entry.
LEMMA OneMore ==
    ASSUME NEW k, NEW v, saved' = C!With(saved, k, v)
    PROVE  /\ DOMAIN saved' = DOMAIN saved \cup {k} /\ saved'[k] = v
           /\ \A s \in DOMAIN saved : s # k => saved'[s] = saved[s]
BY DEF C!With

\* A screen is entered: it is saved, perhaps without its buttons.
LEMMA EnteredFits ==
    ASSUME PromotionInv, NEW s, NEW scr, NEW kept, NEW id, NEW n \in {form, form + 1},
           message' = scr, saved' = C!With(saved, s, kept), at' = s, form' = n, update' = id,
           n = form => id = update,
           ScreenIs(s, scr, n, id, DOMAIN saved \cup {s}),
           ScreenIs(s, kept, n, id, DOMAIN saved \cup {s}),
           SummaryIs(scr, n, id, answers'), SummaryIs(kept, n, id, answers'),
           n = form /\ id # 0 => /\ \/ s = "PROM_CONFIRM"
                                    \/ answers'.f = answers.f /\ answers'.value = answers.value
    PROVE  ScreensAre' /\ SummariesAre'
<1>1. /\ DOMAIN saved' = DOMAIN saved \cup {s} /\ saved'[s] = kept
      /\ \A q \in DOMAIN saved : q # s => saved'[q] = saved[q]
  BY OneMore
<1>2. form \in Nat
  BY DEF PromotionInv, PromotionTyped
<1>3. ASSUME NEW q \in DOMAIN saved, q # s
      PROVE  ScreenIs(q, saved[q], n, id, DOMAIN saved \cup {s})
  <2>1. ScreenIs(q, saved[q], form, update, DOMAIN saved)
    BY <1>3 DEF PromotionInv, ScreensAre
  <2>2. CASE n = form
    BY <2>1, <2>2, MoreIsSaved
  <2>3. CASE n = form + 1
    BY <1>2, <2>1, <2>3 DEF ScreenIs
  <2> QED BY <2>2, <2>3
<1>4. ASSUME NEW q \in DOMAIN saved, q # s
      PROVE  SummaryIs(saved[q], n, id, answers')
  <2>1. /\ SummaryIs(saved[q], form, update, answers)
        /\ ScreenIs(q, saved[q], form, update, DOMAIN saved)
    BY <1>4 DEF PromotionInv, ScreensAre, SummariesAre
  <2>2. CASE n = form
    BY <1>4, <2>1, <2>2 DEF SummaryIs, ScreenIs
  <2>3. CASE n = form + 1
    BY <1>2, <2>1, <2>3 DEF SummaryIs, ScreenIs
  <2> QED BY <2>2, <2>3
<1>5. ScreensAre'
  BY <1>1, <1>3 DEF ScreensAre
<1>6. SummariesAre'
  BY <1>1, <1>4 DEF SummariesAre
<1> QED BY <1>5, <1>6

\* A screen is shown that is not saved.
LEMMA ShownFits ==
    ASSUME PromotionInv, NEW s, NEW scr, message' = scr, at' = s,
           UNCHANGED <<saved, update, form>>,
           ScreenIs(s, scr, form, update, DOMAIN saved), scr.kind # "PROM_CONFIRM",
           update # 0 => answers'.f = answers.f /\ answers'.value = answers.value
    PROVE  ScreensAre' /\ SummariesAre'
<1>1. ScreensAre'
  BY DEF PromotionInv, ScreensAre
<1>2. SummariesAre'
  BY DEF PromotionInv, SummariesAre, SummaryIs
<1> QED BY <1>1, <1>2

-----------------------------------------------------------------------------
(* A question is put.                                                      *)

\* The states stay stacked when a state of the form follows another.
LEMMA StackedOn ==
    ASSUME PromotionInv, at \in FormStates, at' = at \/ at' \in Questions \cup {"PROM_CONFIRM"},
           form' = form, update' = update,
           \/ saved' = saved /\ (at' = at \/ at' \in Questions \ Needed)
           \/ \E v : saved' = C!With(saved, at', v)
    PROVE  Stacked'
<1>1. DOMAIN saved \subseteq DOMAIN saved' /\ DOMAIN saved' \subseteq DOMAIN saved \cup {at'}
  BY OneMore
<1>2. at' \in FormStates /\ at' \notin Menus
  BY StatesDiffer DEF FormStates
<1>3. at' \in Needed \cup {"PROM_CONFIRM"} => at' \in DOMAIN saved'
  BY OneMore, StatesDiffer DEF PromotionInv, Stacked
<1>4. at' \in Restrictions => at' = at
  BY StatesDiffer
<1>5. "3" # at' /\ "2" # at' /\ "1" # at'
  BY <1>2 DEF Menus
<1> QED BY <1>1, <1>2, <1>3, <1>4, <1>5 DEF PromotionInv, Stacked

\* Question s comes after what was asked.
LEMMA AskedFits ==
    ASSUME PromotionInv, NEW s \in Questions, NEW scr, NEW kept, at \in FormStates,
           at' = s, message' = scr, saved' = C!With(saved, s, kept),
           UNCHANGED <<update, form, rows>>, answers' \in Promotion,
           scr.form = form, kept.form = form, scr.kind # "PROM_CONFIRM", kept.kind # "PROM_CONFIRM",
           scr.skip \in BOOLEAN, kept.skip \in BOOLEAN,
           kept.back \in {scr.back, "none"}, kept.kind = scr.kind,
           update = 0 => scr.back = C!Before(s),
           update # 0 =>
               /\ answers'.f = answers.f /\ answers'.value = answers.value
               /\ \/ scr.back = "PROM_CONFIRM" /\ "PROM_CONFIRM" \in DOMAIN saved
                  \/ scr.back = C!Before(s) /\ C!Before(s) \in DOMAIN saved
                  \/ scr.back = C!Before(s) /\ scr.kind = "PROM_WEEKDAYS",
           C!Straight => \A q \in Needed : Rank(q) < Rank(s) =>
                             q \in DOMAIN saved /\ saved[q].form = form
    PROVE  PromotionInv' /\ rows' = rows
<1>1. form # 0 /\ form \in Nat /\ "3" \in DOMAIN saved
  BY DEF PromotionInv, PromotionTyped, Stacked
<1>2. s \in FormStates /\ s \notin Restrictions /\ s # "PROM_CONFIRM" /\ s \notin Menus
  BY StatesDiffer DEF FormStates
<1>3. ASSUME NEW b \in {scr, kept}
      PROVE  ScreenIs(s, b, form, update, DOMAIN saved \cup {s}) /\ SummaryIs(b, form, update, answers')
  <2>1. b.form = form /\ b.kind # "PROM_CONFIRM" /\ b.back \in {scr.back, "none"} /\ b.kind = scr.kind
    BY <1>3
  <2>2. scr.back \in {"3", "PROM_MAX_USAGE", "PROM_CONFIRM"} \cup Needed
    BY BeforeInRow
  <2>3. SummaryIs(b, form, update, answers')
    BY <2>1 DEF SummaryIs
  <2>4. update # 0 => b.back \in {"none"} \cup DOMAIN saved \/ b.kind \in {"refused", "PROM_WEEKDAYS"}
    BY <2>1
  <2>5. update = 0 => b.back \in {"none", C!Before(s)}
    BY <2>1
  <2> QED BY <1>1, <1>2, <2>1, <2>2, <2>3, <2>4, <2>5 DEF ScreenIs
<1>4. ScreensAre' /\ SummariesAre'
  BY <1>1, <1>3, EnteredFits
<1>5. PromotionTyped'
  BY <1>2 DEF PromotionInv, PromotionTyped
<1>6. Stacked'
  BY StackedOn
<1>7. AskedInRow'
  <2>1. /\ saved'[s] = kept /\ DOMAIN saved' = DOMAIN saved \cup {s}
        /\ \A q \in DOMAIN saved : q # s => saved'[q] = saved[q]
    BY OneMore
  <2>2. C!Straight' => C!Straight
    BY <1>2, <2>1 DEF C!Straight
  <2>3. ASSUME C!Straight', NEW q \in Needed, Rank(q) <= Rank(s)
        PROVE  q \in DOMAIN saved' /\ saved'[q].form = form'
    <3>1. CASE q = s
      BY <2>1, <3>1
    <3>2. CASE q # s
      <4>1. Rank(q) < Rank(s)
        BY <2>3, <3>2, RankIs DEF Needed, Questions
      <4> QED BY <2>1, <2>2, <2>3, <3>2, <4>1
    <3> QED BY <3>1, <3>2
  <2>4. C!Straight' => AskedUpTo(Rank(s))'
    BY <2>3 DEF AskedUpTo
  <2> QED BY <1>2, <2>4 DEF AskedInRow
<1> QED BY <1>4, <1>5, <1>6, <1>7 DEF PromotionInv

\* What was asked before question s, of a new code, when it is its turn.
Turn(s) ==
    /\ at \in FormStates
    /\ C!Straight => \A q \in Needed : Rank(q) < Rank(s) => q \in DOMAIN saved /\ saved[q].form = form

LEMMA AskedByItself ==
    ASSUME PromotionInv, NEW s \in Questions, s # "PROM_VALUE", NEW d \in Promotion, C!Ask(s, d), Turn(s),
           update # 0 => d.f = answers.f /\ d.value = answers.value
    PROVE  PromotionInv' /\ rows' = rows
<1>1. /\ at' = s /\ message' = C!AskScreen(s, d) /\ saved' = C!With(saved, s, C!AskScreen(s, d))
      /\ answers' = d /\ UNCHANGED <<update, form, rows>>
  BY DEF C!Ask, C!Put, C!Enter
<1>2. PICK target : target = IF update # 0 /\ s \notin {"PROM_VALUE", "PROM_WEEKDAYS"}
                           THEN "PROM_CONFIRM" ELSE C!Before(s)
  OBVIOUS
<1>3. PICK skip \in BOOLEAN : skip = C!Given(s, d)
  BY DEF C!Given
<1>4. C!AskScreen(s, d) = [kind |-> s, back |-> target, skip |-> skip, shows |-> {}, form |-> form]
  <2>1. C!AskScreen(s, d) = [C!Scr(s, target) EXCEPT !.skip = skip]
    BY <1>1, <1>2, <1>3 DEF C!AskScreen
  <2> QED BY <1>1, <2>1 DEF C!Scr, C!Shown
<1>5. PICK scr : scr = C!AskScreen(s, d)
  OBVIOUS
<1>6. scr.form = form /\ scr.kind = s /\ scr.back = target /\ scr.skip \in BOOLEAN
  BY <1>4, <1>5
<1>7. s # "PROM_CONFIRM"
  BY StatesDiffer
<1>8. update # 0 => "PROM_CONFIRM" \in DOMAIN saved
  BY DEF PromotionInv, Stacked, Turn
<1> QED BY <1>1, <1>2, <1>5, <1>6, <1>7, <1>8, AskedFits DEF Turn

\* A question put by the handler before it, of a new code.
LEMMA AskedNext ==
    ASSUME PromotionInv, NEW s \in Questions, NEW d \in Promotion, C!AskNext(s, d), Turn(s), update = 0
    PROVE  PromotionInv' /\ rows' = rows
<1>1. PICK scr : scr = C!Scr(s, C!Before(s))
  OBVIOUS
<1>2. /\ at' = s /\ message' = scr /\ saved' = C!With(saved, s, scr)
      /\ answers' = d /\ UNCHANGED <<update, form, rows>>
  BY <1>1 DEF C!AskNext, C!Put, C!Enter
<1>3. scr.form = form /\ scr.kind = s /\ scr.back = C!Before(s) /\ scr.skip = FALSE
  <2>1. PICK target : target = C!Before(s)
    OBVIOUS
  <2> QED BY <1>1, <1>2, <2>1 DEF C!Scr, C!Shown
<1>4. s # "PROM_CONFIRM"
  BY StatesDiffer
<1> QED BY <1>2, <1>3, <1>4, AskedFits DEF Turn

\* An answer that is refused is asked for again.
LEMMA RefusedKeeps ==
    ASSUME PromotionInv, NEW s \in Questions, at = s, C!Refused(s)
    PROVE  PromotionInv' /\ rows' = rows
<1>1. PICK scr :
        /\ scr = [kind |-> "refused", back |-> C!Before(s), skip |-> FALSE, shows |-> {}, form |-> form]
        /\ at' = s /\ message' = scr /\ UNCHANGED <<saved, answers, update, form, rows>>
  BY DEF C!Refused, C!Keep, C!Show, C!Scr, C!Shown
<1>2. scr.form = form /\ scr.kind = "refused" /\ scr.back = C!Before(s) /\ scr.skip = FALSE
  BY <1>1
<1>3. s \in FormStates /\ s \notin Restrictions /\ s # "PROM_CONFIRM" /\ form # 0 /\ form \in Nat
  BY StatesDiffer DEF FormStates, PromotionInv, PromotionTyped, Stacked
<1>4. ScreenIs(s, scr, form, update, DOMAIN saved)
  BY <1>2, <1>3, BeforeInRow DEF ScreenIs
<1>5. ScreensAre' /\ SummariesAre'
  BY <1>1, <1>2, <1>4, ShownFits
<1>6. PromotionTyped' /\ Stacked'
  BY <1>1 DEF PromotionInv, PromotionTyped, Stacked
<1>7. AskedInRow'
  <2>1. /\ C!Straight' <=> C!Straight
        /\ \A m : AskedUpTo(m)' <=> AskedUpTo(m)
    BY <1>1 DEF C!Straight, AskedUpTo
  <2> QED BY <1>1, <1>2, <1>3, <2>1 DEF PromotionInv, AskedInRow
<1> QED BY <1>1, <1>5, <1>6, <1>7 DEF PromotionInv

\* The question of the limit follows that of the end, and is not saved.
LEMMA LimitIsAsked ==
    ASSUME PromotionInv, at = "PROM_EXPIRE", update = 0, NEW d \in Promotion, C!Put(d),
           C!Show("PROM_MAX_USAGE", C!Scr("PROM_MAX_USAGE", "PROM_EXPIRE"))
    PROVE  PromotionInv' /\ rows' = rows
<1>1. PICK s, scr :
        /\ scr = [kind |-> s, back |-> C!Before(s), skip |-> FALSE, shows |-> {}, form |-> form]
        /\ s = "PROM_MAX_USAGE" /\ s \in Questions
        /\ at' = s /\ message' = scr /\ answers' = d /\ UNCHANGED <<saved, update, form, rows>>
  BY BeforeIs DEF C!Put, C!Show, C!Scr, C!Shown, Questions
<1>2. scr.form = form /\ scr.kind = s /\ scr.back = C!Before(s) /\ scr.skip = FALSE
  BY <1>1
<1>3. at \in Questions /\ at \in FormStates /\ s \in FormStates /\ s \notin Needed
      /\ s \notin Restrictions /\ s # "PROM_CONFIRM" /\ form # 0 /\ form \in Nat
  BY <1>1, StatesDiffer DEF Questions, Needed, FormStates, PromotionInv, PromotionTyped, Stacked
<1>4. ScreenIs(s, scr, form, update, DOMAIN saved)
  BY <1>1, <1>2, <1>3, BeforeInRow DEF ScreenIs
<1>5. ScreensAre' /\ SummariesAre'
  BY <1>1, <1>2, <1>3, <1>4, ShownFits
<1>6. PromotionTyped'
  BY <1>1, <1>3 DEF PromotionInv, PromotionTyped
<1>7. Stacked'
  BY <1>1, <1>3, StackedOn
<1>8. AskedInRow'
  <2>1. /\ C!Straight' <=> C!Straight
        /\ \A m : AskedUpTo(m)' <=> AskedUpTo(m)
    BY <1>1 DEF C!Straight, AskedUpTo
  <2>2. ASSUME C!Straight, NEW q \in Needed, Rank(q) <= 11
        PROVE  q \in DOMAIN saved /\ saved[q].form = form
    <3>1. AskedUpTo(10)
      BY <1>3, <2>2, RankIs DEF PromotionInv, AskedInRow
    <3>2. Rank(q) <= 10
      BY <2>2, RankIs DEF Needed
    <3> QED BY <3>1, <3>2 DEF AskedUpTo
  <2>3. C!Straight => AskedUpTo(11)
    BY <2>2 DEF AskedUpTo
  <2> QED BY <1>1, <1>2, <1>3, <2>1, <2>3, RankIs DEF AskedInRow
<1> QED BY <1>1, <1>5, <1>6, <1>7, <1>8 DEF PromotionInv

\* A summary is shown of what the form has by then.
LEMMA SummaryKeeps ==
    ASSUME PromotionInv, NEW d \in Promotion, C!Summary(d), at \in FormStates
    PROVE  PromotionInv' /\ rows' = rows
<1>1. PICK s, scr : s = "PROM_CONFIRM" /\ scr = [C!Scr("PROM_CONFIRM", "3") EXCEPT !.shows = {d}]
  OBVIOUS
<1>2. /\ at' = s /\ message' = scr /\ saved' = C!With(saved, s, scr)
      /\ answers' = d /\ UNCHANGED <<update, form, rows>>
  BY <1>1 DEF C!Summary, C!ask_promotion_summary, C!Enter
<1>3. scr.form = form /\ scr.kind = s /\ scr.back = "3" /\ scr.skip = FALSE /\ scr.shows = {d}
  BY <1>1, <1>2 DEF C!Scr, C!Shown
<1>4. /\ s \in FormStates /\ s \notin Restrictions \cup Questions /\ form # 0 /\ form \in Nat
      /\ "3" \in DOMAIN saved /\ "3" \in Menus
  BY <1>1, StatesDiffer DEF FormStates, PromotionInv, PromotionTyped, Stacked, Menus
<1>5. ScreenIs(s, scr, form, update, DOMAIN saved \cup {s})
  BY <1>1, <1>3, <1>4 DEF ScreenIs
<1>6. SummaryIs(scr, form, update, answers')
  BY <1>2, <1>3 DEF SummaryIs
<1>7. ScreensAre' /\ SummariesAre'
  BY <1>1, <1>2, <1>4, <1>5, <1>6, EnteredFits
<1>8. PromotionTyped'
  BY <1>2, <1>4 DEF PromotionInv, PromotionTyped
<1>9. Stacked'
  BY <1>1, <1>2, <1>4, StackedOn
<1>10. AskedInRow'
  <2>1. "PROM_CONFIRM" \in DOMAIN saved' /\ saved'["PROM_CONFIRM"] = scr
    BY <1>1, <1>2, OneMore
  <2> QED BY <1>2, <1>3, <2>1 DEF AskedInRow, C!Straight
<1> QED BY <1>2, <1>7, <1>8, <1>9, <1>10 DEF PromotionInv

-----------------------------------------------------------------------------
(* Answers.                                                                *)

\* Every field is asked in its turn.
LEMMA ItsTurn ==
    ASSUME PromotionInv, NEW s \in Questions,
           (at \in Questions /\ Rank(s) <= Rank(at) + 1) \/ at = "PROM_CONFIRM"
    PROVE  Turn(s)
<1>1. at \in FormStates
  BY DEF FormStates
<1>2. ASSUME C!Straight, NEW q \in Needed, Rank(q) < Rank(s)
      PROVE  q \in DOMAIN saved /\ saved[q].form = form
  <2>1. CASE at = "PROM_CONFIRM"
    <3>1. Rank(q) <= 12
      BY BeforeInRow DEF Questions
    <3> QED BY <1>2, <2>1, <3>1 DEF PromotionInv, AskedInRow, AskedUpTo
  <2>2. CASE at \in Questions /\ Rank(s) <= Rank(at) + 1
    <3>1. Rank(q) <= Rank(at)
      <4>1. Rank(q) \in 1..14 /\ Rank(at) \in 1..14 /\ Rank(s) \in 1..14
        BY <2>2, BeforeInRow DEF Questions
      <4> QED BY <1>2, <2>2, <4>1
    <3> QED BY <1>2, <2>2, <3>1 DEF PromotionInv, AskedInRow, AskedUpTo
  <2> QED BY <2>1, <2>2
<1> QED BY <1>1, <1>2 DEF Turn

LEMMA FieldIsSet ==
    ASSUME PromotionInv, NEW s \in C!Answered
    PROVE  /\ C!Set(s, C!Other(s)) \in Promotion /\ C!Set(s, 0) \in Promotion
           /\ answers \in Promotion
<1>1. answers \in Promotion
  BY DEF PromotionInv, PromotionTyped
<1>2. ASSUME NEW v \in 0..2
      PROVE  C!Set(s, v) \in Promotion
  <2>1. PICK f \in [C!Answered -> 0..2] : f = [answers.f EXCEPT ![s] = v]
    BY <1>1 DEF Promotion
  <2>2. C!Set(s, v) = [answers EXCEPT !.f = f]
    BY <2>1 DEF C!Set
  <2> QED BY <1>1, <2>2 DEF Promotion
<1>3. C!Other(s) \in 0..2
  BY DEF C!Other
<1> QED BY <1>1, <1>2, <1>3

\* An answer at question s leads to the summary or to question n.
AnswerLeads(s, n) ==
    /\ at = s
    /\ \/ C!Refused(s)
       \/ \E d \in Promotion : update # 0 /\ C!Summary(d)
       \/ \E d \in Promotion : update = 0 /\ (C!AskNext(n, d) \/ C!Ask(n, d))

LEMMA AnswerKeeps ==
    ASSUME PromotionInv, NEW s \in Questions, NEW n \in Questions, n # "PROM_VALUE",
           Rank(n) <= Rank(s) + 1, AnswerLeads(s, n)
    PROVE  PromotionInv' /\ rows' = rows
<1>1. at = s /\ at \in FormStates /\ Turn(n)
  BY ItsTurn DEF AnswerLeads, FormStates
<1>2. CASE C!Refused(s)
  BY <1>1, <1>2, RefusedKeeps
<1>3. CASE \E d \in Promotion : C!Summary(d)
  BY <1>1, <1>3, SummaryKeeps
<1>4. CASE \E d \in Promotion : update = 0 /\ C!AskNext(n, d)
  BY <1>1, <1>4, AskedNext
<1>5. CASE \E d \in Promotion : update = 0 /\ C!Ask(n, d)
  BY <1>1, <1>5, AskedByItself
<1> QED BY <1>2, <1>3, <1>4, <1>5 DEF AnswerLeads

LEMMA FieldsKeep ==
    ASSUME PromotionInv,
           \/ C!handle_prom_name \/ C!handle_prom_min_sum \/ C!handle_prom_visible
           \/ C!handle_prom_verify \/ C!handle_prom_vtext \/ C!handle_prom_start
           \/ C!handle_prom_max_usage \/ C!handle_prom_max_usage_user
    PROVE  PromotionInv' /\ rows' = rows
<1>1. CASE C!handle_prom_name
  <2>1. AnswerLeads("PROM_NAME", "PROM_CODE")
    BY <1>1, FieldIsSet DEF C!handle_prom_name, C!Then, C!Answered, AnswerLeads
  <2> QED BY <2>1, AnswerKeeps, RankIs DEF Questions, Needed
<1>2. CASE C!handle_prom_min_sum
  <2>1. AnswerLeads("PROM_MIN_SUM", "PROM_VISIBLE")
    BY <1>2, FieldIsSet DEF C!handle_prom_min_sum, C!Number, C!Then, C!Answered, AnswerLeads
  <2> QED BY <2>1, AnswerKeeps, RankIs DEF Questions, Needed
<1>3. CASE C!handle_prom_visible
  <2>1. AnswerLeads("PROM_VISIBLE", "PROM_VERIFY")
    BY <1>3, FieldIsSet DEF C!handle_prom_visible, C!YesNo, C!Then, C!Answered, AnswerLeads
  <2> QED BY <2>1, AnswerKeeps, RankIs DEF Questions, Needed
<1>4. CASE C!handle_prom_verify
  <2>1. AnswerLeads("PROM_VERIFY", "PROM_VTEXT")
    BY <1>4, FieldIsSet
    DEF C!handle_prom_verify, C!YesNo, C!handle_prom_vtext_start, C!Then, C!Answered, AnswerLeads
  <2> QED BY <2>1, AnswerKeeps, RankIs DEF Questions, Needed
<1>5. CASE C!handle_prom_vtext
  <2>1. AnswerLeads("PROM_VTEXT", "PROM_START")
    BY <1>5, FieldIsSet
    DEF C!handle_prom_vtext, C!OrSkipped, C!handle_prom_start_start, C!Then, C!Answered, AnswerLeads
  <2> QED BY <2>1, AnswerKeeps, RankIs DEF Questions, Needed
<1>6. CASE C!handle_prom_start
  <2>1. AnswerLeads("PROM_START", "PROM_EXPIRE")
    BY <1>6, FieldIsSet
    DEF C!handle_prom_start, C!OrSkipped, C!WrongDate, C!Then, C!Answered, AnswerLeads
  <2> QED BY <2>1, AnswerKeeps, RankIs DEF Questions, Needed
<1>7. CASE C!handle_prom_max_usage
  <2>1. AnswerLeads("PROM_MAX_USAGE", "PROM_MAX_USAGE_USER")
    BY <1>7, FieldIsSet
    DEF C!handle_prom_max_usage, C!Number, C!handle_prom_max_usage_user_start, C!Then,
        C!Answered, AnswerLeads
  <2> QED BY <2>1, AnswerKeeps, RankIs DEF Questions, Needed
<1>8. CASE C!handle_prom_max_usage_user
  <2>1. AnswerLeads("PROM_MAX_USAGE_USER", "PROM_WEEKDAYS")
    BY <1>8, FieldIsSet
    DEF C!handle_prom_max_usage_user, C!Number, C!handle_prom_weekdays_start, C!Then,
        C!Answered, AnswerLeads
  <2> QED BY <2>1, AnswerKeeps, RankIs DEF Questions, Needed
<1> QED BY <1>1, <1>2, <1>3, <1>4, <1>5, <1>6, <1>7, <1>8

LEMMA CodeKeeps ==
    ASSUME PromotionInv, C!handle_prom_code \/ C!generate_prom_code
    PROVE  PromotionInv' /\ rows' = rows
<1>1. at = "PROM_CODE" /\ at \in Questions /\ "PROM_DTYPE" \in Questions
  BY DEF C!handle_prom_code, C!generate_prom_code, Questions, Needed
<1>2. ASSUME NEW c \in Codes \cup {"generated"}
      PROVE  /\ [answers EXCEPT !.code = c] \in Promotion
             /\ [answers EXCEPT !.code = c].f = answers.f
             /\ [answers EXCEPT !.code = c].value = answers.value
  BY DEF PromotionInv, PromotionTyped, Promotion
<1>3. CASE C!handle_prom_code
  <2>1. AnswerLeads("PROM_CODE", "PROM_DTYPE")
    BY <1>2, <1>3 DEF C!handle_prom_code, C!Then, C!ask_prom_type, AnswerLeads
  <2> QED BY <1>1, <2>1, AnswerKeeps, RankIs
<1>4. CASE C!generate_prom_code
  <2>1. C!Ask("PROM_DTYPE", [answers EXCEPT !.code = "generated"])
    BY <1>4 DEF C!generate_prom_code, C!ask_prom_type
  <2>2. Turn("PROM_DTYPE")
    BY <1>1, ItsTurn, RankIs
  <2> QED BY <1>1, <1>2, <2>1, <2>2, AskedByItself
<1> QED BY <1>3, <1>4

\* The type is changed before the value is asked for.
LEMMA TypeKeeps ==
    ASSUME PromotionInv, C!handle_prom_type
    PROVE  PromotionInv' /\ rows' = rows
<1>1. PICK s, d, scr :
        /\ s = "PROM_VALUE" /\ scr = C!Scr("PROM_VALUE", "PROM_DTYPE") /\ at = "PROM_DTYPE"
        /\ \E t \in {"percentage", "fixed"} : d = [answers EXCEPT !.type = t]
        /\ C!Put(d)
  BY DEF C!handle_prom_type
<1>2. /\ at' = s /\ message' = scr /\ saved' = C!With(saved, s, [scr EXCEPT !.back = "none"])
      /\ answers' = d /\ UNCHANGED <<update, form, rows>>
  BY <1>1 DEF C!handle_prom_type, C!Put, C!NoBack
<1>3. d \in Promotion /\ d.f = answers.f /\ d.value = answers.value
  BY <1>1 DEF PromotionInv, PromotionTyped, Promotion
<1>4. scr = [kind |-> s, back |-> "PROM_DTYPE", skip |-> FALSE, shows |-> {}, form |-> form]
  BY <1>1, <1>2 DEF C!Scr, C!Shown
<1>5. PICK kept : kept = [scr EXCEPT !.back = "none"]
  OBVIOUS
<1>6. /\ scr.form = form /\ scr.kind = s /\ scr.back = "PROM_DTYPE" /\ scr.skip = FALSE
      /\ kept.form = form /\ kept.kind = s /\ kept.back = "none" /\ kept.skip = FALSE
  BY <1>4, <1>5
<1>7. /\ s \in Questions /\ at \in Questions /\ at \in Needed /\ s # "PROM_CONFIRM"
      /\ C!Before(s) = "PROM_DTYPE" /\ Rank(s) <= Rank(at) + 1
  BY <1>1, BeforeIs, RankIs DEF Questions, Needed
<1>8. Turn(s) /\ "PROM_DTYPE" \in DOMAIN saved
  BY <1>1, <1>7, ItsTurn DEF PromotionInv, Stacked
<1>9. /\ scr.back = C!Before(s) /\ C!Before(s) \in DOMAIN saved
      /\ kept.back \in {scr.back, "none"} /\ kept.kind = scr.kind /\ scr.skip \in BOOLEAN
      /\ kept.skip \in BOOLEAN /\ scr.kind # "PROM_CONFIRM" /\ kept.kind # "PROM_CONFIRM"
  BY <1>6, <1>7, <1>8
<1>10. saved' = C!With(saved, s, kept)
  BY <1>2, <1>5
<1>11. /\ at \in FormStates
       /\ C!Straight => \A q \in Needed : Rank(q) < Rank(s) =>
                             q \in DOMAIN saved /\ saved[q].form = form
  BY <1>8 DEF Turn
<1> QED BY <1>2, <1>3, <1>6, <1>7, <1>9, <1>10, <1>11, AskedFits

LEMMA ValueKeeps ==
    ASSUME PromotionInv, C!handle_prom_value
    PROVE  PromotionInv' /\ rows' = rows
<1>1. ASSUME NEW v \in {"small", "large"}
      PROVE  [answers EXCEPT !.value = v] \in Promotion
  BY DEF PromotionInv, PromotionTyped, Promotion
<1>2. AnswerLeads("PROM_VALUE", "PROM_MIN_SUM")
  BY <1>1 DEF C!handle_prom_value, C!Then, AnswerLeads
<1> QED BY <1>2, AnswerKeeps, RankIs DEF Questions, Needed

LEMMA ExpireKeeps ==
    ASSUME PromotionInv, C!handle_prom_expire
    PROVE  PromotionInv' /\ rows' = rows
<1>1. at = "PROM_EXPIRE" /\ at \in Questions /\ at \in FormStates
  BY DEF C!handle_prom_expire, C!OrSkipped, C!WrongDate, Questions, Needed, FormStates
<1>2. \/ C!Refused("PROM_EXPIRE")
      \/ \E d \in Promotion : update # 0 /\ C!Summary(d)
      \/ /\ update = 0 /\ C!Show("PROM_MAX_USAGE", C!Scr("PROM_MAX_USAGE", "PROM_EXPIRE"))
         /\ \E d \in Promotion : C!Put(d)
  BY FieldIsSet DEF C!handle_prom_expire, C!OrSkipped, C!WrongDate, C!Then, C!Answered
<1> QED BY <1>1, <1>2, RefusedKeeps, SummaryKeeps, LimitIsAsked

LEMMA DaysKeep ==
    ASSUME PromotionInv, C!handle_prom_weekdays
    PROVE  PromotionInv' /\ rows' = rows
<1>1. at = "PROM_WEEKDAYS" /\ at \in Questions /\ "PROM_DESC" \in Questions
  BY DEF C!handle_prom_weekdays, Questions
<1>2. answers \in Promotion
  BY DEF PromotionInv, PromotionTyped
<1>3. CASE \E w \in {"any", "some", "never"} : C!Ask("PROM_WEEKDAYS", [answers EXCEPT !.weekdays = w])
  <2>1. PICK w \in {"any", "some", "never"} : C!Ask("PROM_WEEKDAYS", [answers EXCEPT !.weekdays = w])
    BY <1>3
  <2>2. PICK d : d = [answers EXCEPT !.weekdays = w]
    OBVIOUS
  <2>3. d \in Promotion /\ d.f = answers.f /\ d.value = answers.value
    BY <1>2, <2>2 DEF Promotion
  <2>4. Turn("PROM_WEEKDAYS")
    BY <1>1, ItsTurn, RankIs
  <2> QED BY <1>1, <2>1, <2>2, <2>3, <2>4, AskedByItself
<1>4. CASE C!Then(answers, C!handle_prom_desc_start(answers))
  <2>1. AnswerLeads("PROM_WEEKDAYS", "PROM_DESC")
    BY <1>1, <1>2, <1>4 DEF C!Then, C!handle_prom_desc_start, AnswerLeads
  <2> QED BY <1>1, <2>1, AnswerKeeps, RankIs
<1> QED BY <1>3, <1>4 DEF C!handle_prom_weekdays, C!handle_prom_weekdays_start

LEMMA DescriptionKeeps ==
    ASSUME PromotionInv, C!handle_prom_desc
    PROVE  PromotionInv' /\ rows' = rows
<1>1. at = "PROM_DESC" /\ at \in FormStates
  BY DEF C!handle_prom_desc, FormStates, Questions
<1>2. answers \in Promotion /\ answers.f["PROM_NAME"] \in 0..2
  BY DEF PromotionInv, PromotionTyped, Promotion, C!Answered
<1>3. C!Set("PROM_DESC", answers.f["PROM_NAME"]) \in Promotion
  <2>1. PICK f \in [C!Answered -> 0..2] :
          f = [answers.f EXCEPT !["PROM_DESC"] = answers.f["PROM_NAME"]]
    BY <1>2 DEF Promotion
  <2>2. C!Set("PROM_DESC", answers.f["PROM_NAME"]) = [answers EXCEPT !.f = f]
    BY <2>1 DEF C!Set
  <2> QED BY <1>2, <2>2 DEF Promotion
<1>4. C!Set("PROM_DESC", C!Other("PROM_DESC")) \in Promotion
  BY FieldIsSet DEF C!Answered
<1> QED BY <1>1, <1>3, <1>4, SummaryKeeps DEF C!handle_prom_desc

-----------------------------------------------------------------------------
(* The lists of the restrictions.                                          *)

LEMMA RestrictionKeeps ==
    ASSUME PromotionInv, NEW s \in Restrictions, C!open_restrict(s) \/ C!handle_restrict_cb(s)
    PROVE  PromotionInv' /\ rows' = rows
<1>1. /\ s \in FormStates /\ s \notin Questions \cup Menus \cup Needed /\ s # "PROM_CONFIRM"
      /\ "PROM_CONFIRM" \in FormStates /\ form \in Nat
  BY StatesDiffer DEF FormStates, PromotionInv, PromotionTyped
<1>2. at \in {s, "PROM_CONFIRM"} /\ at \in FormStates
  BY <1>1 DEF C!open_restrict, C!handle_restrict_cb
<1>3. form # 0 /\ "3" \in DOMAIN saved /\ "PROM_CONFIRM" \in DOMAIN saved
  BY <1>1, <1>2 DEF PromotionInv, Stacked
<1>4. answers \in Promotion
  BY DEF PromotionInv, PromotionTyped
<1>5. CASE C!Summary(answers)
  BY <1>2, <1>4, <1>5, SummaryKeeps
<1>6. ASSUME at' = s, message' = C!Scr(s, "PROM_CONFIRM"), UNCHANGED <<update, form, rows>>,
             answers' \in Promotion, answers'.f = answers.f, answers'.value = answers.value,
             (saved' = saved /\ at = s) \/ saved' = C!With(saved, s, C!Blank)
      PROVE  PromotionInv'
  <2>1. PICK scr, blank : scr = C!Scr(s, "PROM_CONFIRM") /\ blank = C!Blank
    OBVIOUS
  <2>2. scr.form = form /\ scr.kind = s /\ scr.back = "PROM_CONFIRM" /\ scr.skip = FALSE
    BY <1>6, <2>1 DEF C!Scr, C!Shown
  <2>3. blank.form = 0 /\ blank.kind = "blank" /\ blank.back = "none" /\ blank.skip = FALSE
    BY <2>1 DEF C!Blank, C!Shown, C!NoBack
  <2>4. ScreenIs(s, scr, form, update, DOMAIN saved)
    BY <1>1, <1>3, <2>2 DEF ScreenIs
  <2>5. ScreenIs(s, blank, form, update, DOMAIN saved \cup {s})
    BY <1>1, <1>3, <2>3 DEF ScreenIs
  <2>6. SummaryIs(blank, form, update, answers') /\ SummaryIs(scr, form, update, answers')
    BY <1>1, <2>2, <2>3 DEF SummaryIs
  <2>7. ScreensAre' /\ SummariesAre'
    <3>1. CASE saved' = saved
      BY <1>1, <1>6, <2>1, <2>2, <2>4, <3>1, ShownFits
    <3>2. CASE saved' = C!With(saved, s, blank)
      <4>1. ScreenIs(s, scr, form, update, DOMAIN saved \cup {s})
        BY <2>4, MoreIsSaved
      <4> QED BY <1>6, <2>1, <2>5, <2>6, <3>2, <4>1, EnteredFits
    <3> QED BY <1>6, <2>1, <3>1, <3>2
  <2>8. PromotionTyped'
    BY <1>1, <1>6 DEF PromotionInv, PromotionTyped
  <2>9. DOMAIN saved' \subseteq DOMAIN saved \cup {s} /\ DOMAIN saved \subseteq DOMAIN saved'
        /\ \A q \in DOMAIN saved : q # s => saved'[q] = saved[q]
    BY <1>6, OneMore
  <2>10. Stacked'
    <3>1. s \notin {"1", "2", "3"}
      BY <1>1 DEF Menus
    <3> QED BY <1>1, <1>3, <1>6, <2>9, <3>1 DEF PromotionInv, Stacked
  <2>11. AskedInRow'
    <3>1. C!Straight' => C!Straight
      BY <1>1, <1>3, <1>6, <2>9 DEF C!Straight
    <3>2. C!Straight => AskedUpTo(12)
      BY <1>2 DEF PromotionInv, AskedInRow
    <3>3. AskedUpTo(12) => AskedUpTo(12)'
      BY <1>1, <1>6, <2>9 DEF AskedUpTo
    <3> QED BY <1>1, <1>6, <3>1, <3>2, <3>3 DEF AskedInRow
  <2> QED BY <2>7, <2>8, <2>10, <2>11 DEF PromotionInv
<1>7. CASE C!open_restrict(s)
  BY <1>4, <1>6, <1>7 DEF C!open_restrict, C!_render_multi_select, C!Keep
<1>8. CASE C!handle_restrict_cb(s) /\ ~C!Summary(answers)
  <2>1. PICK d : /\ C!Put(d) /\ C!Show(s, C!Scr(s, "PROM_CONFIRM")) /\ at = s
                 /\ \E only \in {answers.only \ {s}, answers.only \cup {s}} :
                       d = [answers EXCEPT !.only = only]
    BY <1>8 DEF C!handle_restrict_cb, C!_render_multi_select
  <2>2. d \in Promotion /\ d.f = answers.f /\ d.value = answers.value
    BY <1>4, <2>1 DEF Promotion
  <2> QED BY <1>6, <2>1, <2>2 DEF C!Put, C!Show
<1> QED BY <1>5, <1>7, <1>8 DEF C!handle_restrict_cb, C!Put

-----------------------------------------------------------------------------
(* The menus, and the step back.                                           *)

LEMMA MenuKeeps ==
    ASSUME PromotionInv, NEW s \in Menus \cup {"idle"}, NEW scr, at' = s, message' = scr,
           UNCHANGED <<answers, update, form>>,
           rows' \in [DOMAIN rows' -> Promotion], 0 \notin DOMAIN rows',
           scr.kind # "PROM_CONFIRM", scr.skip = FALSE,
           scr.form = 0 \/ (scr.form = form /\ scr.back = "none"),
           scr.back \in {"none"} \cup (Menus \cap DOMAIN saved),
           \/ saved' = saved /\ (s = "idle" \/ s \in DOMAIN saved)
           \/ /\ saved' = C!With(saved, s, scr) /\ s # "idle" /\ scr.form = 0
              /\ s = "3" => "2" \in DOMAIN saved
              /\ s = "2" => "1" \in DOMAIN saved
    PROVE  PromotionInv'
<1>1. s \notin FormStates /\ form \in Nat
  BY StatesDiffer DEF PromotionInv, PromotionTyped
<1>2. s \notin Questions \cup Restrictions \cup Needed \cup {"PROM_CONFIRM"}
  BY <1>1, StatesDiffer DEF FormStates
<1>3. ScreenIs(s, scr, form, update, DOMAIN saved) /\ SummaryIs(scr, form, update, answers')
  BY <1>1, <1>2 DEF ScreenIs, SummaryIs
<1>4. ScreensAre' /\ SummariesAre'
  <2>1. CASE saved' = saved
    BY <1>3, <2>1, ShownFits
  <2>2. CASE saved' = C!With(saved, s, scr)
    <3>1. ScreenIs(s, scr, form, update, DOMAIN saved \cup {s})
      BY <1>3, MoreIsSaved
    <3> QED BY <1>3, <2>2, <3>1, EnteredFits
  <2> QED BY <2>1, <2>2
<1>5. PromotionTyped'
  BY DEF PromotionInv, PromotionTyped
<1>6. Stacked'
  <2>1. \/ DOMAIN saved' = DOMAIN saved
        \/ DOMAIN saved' = DOMAIN saved \cup {s} /\ s # "idle"
    BY OneMore
  <2>2. s \in Menus => s \in DOMAIN saved'
    <3>1. CASE saved' = C!With(saved, s, scr)
      BY <3>1, OneMore
    <3> QED BY <3>1, StatesDiffer
  <2> QED BY <1>1, <1>2, <2>1, <2>2 DEF PromotionInv, Stacked, Menus
<1>7. AskedInRow'
  BY <1>2 DEF AskedInRow
<1> QED BY <1>4, <1>5, <1>6, <1>7 DEF PromotionInv

LEMMA MenusKeep ==
    ASSUME PromotionInv,
           \/ C!choice_db_settings /\ C!Keep
           \/ C!cancel /\ C!Keep
           \/ C!promotion_select
           \/ C!handle_promotion_delete
           \/ C!refuse_delete
    PROVE  PromotionInv' /\ rows' = rows
<1>1. rows \in [DOMAIN rows -> Promotion] /\ 0 \notin DOMAIN rows
  BY DEF PromotionInv, PromotionTyped
<1>2. CASE C!choice_db_settings /\ C!Keep
  <2>1. PICK s, scr :
          /\ scr = C!Shown("db", "1") /\ s = "2" /\ at = "1" /\ at' = s /\ message' = scr
          /\ saved' = C!With(saved, s, scr) /\ UNCHANGED <<answers, update, form, rows>>
    BY <1>2 DEF C!choice_db_settings, C!db, C!Enter, C!Keep
  <2>2. scr.kind = "db" /\ scr.back = "1" /\ scr.skip = FALSE /\ scr.form = 0
    BY <2>1 DEF C!Shown
  <2>3. /\ "1" \in DOMAIN saved /\ s \in Menus /\ "1" \in Menus /\ s # "idle"
        /\ s = "3" => "2" \in DOMAIN saved
    BY <2>1 DEF PromotionInv, Stacked, Menus
  <2> QED BY <1>1, <2>1, <2>2, <2>3, MenuKeeps
<1>3. CASE C!cancel /\ C!Keep
  <2>1. PICK scr : /\ scr = C!Blank /\ at' = "idle" /\ message' = scr
                   /\ UNCHANGED <<saved, answers, update, form, rows>>
    BY <1>3 DEF C!cancel, C!Keep
  <2>2. scr.kind = "blank" /\ scr.back = "none" /\ scr.skip = FALSE /\ scr.form = 0
    BY <2>1 DEF C!Blank, C!Shown, C!NoBack
  <2> QED BY <1>1, <2>1, <2>2, MenuKeeps
<1>4. CASE C!promotion_select
  <2>1. PICK scr : /\ scr = [C!Shown("promotion", "2") EXCEPT !.shows = DOMAIN rows]
                   /\ at' = "3" /\ message' = scr /\ at \in {"2", "3"}
                   /\ saved' = C!With(saved, "3", scr) /\ UNCHANGED <<answers, update, form, rows>>
    BY <1>4 DEF C!promotion_select, C!get_settings, C!select_again, C!_paginated_select, C!Enter,
       C!Keep
  <2>2. scr.kind = "promotion" /\ scr.back = "2" /\ scr.skip = FALSE /\ scr.form = 0
    BY <2>1 DEF C!Shown
  <2>3. "2" \in DOMAIN saved /\ "2" \in Menus /\ "3" \in Menus
    BY <2>1 DEF PromotionInv, Stacked, Menus
  <2> QED BY <1>1, <2>1, <2>2, <2>3, MenuKeeps
<1>5. CASE C!handle_promotion_delete
  <2>1. /\ at = "PROM_CONFIRM" /\ at' = "3" /\ UNCHANGED <<saved, answers, update, form, rows>>
        /\ \/ message' = C!Blank
           \/ message' = [C!Scr("delete", "none") EXCEPT !.shows = {update}]
    BY <1>5 DEF C!handle_promotion_delete, C!Keep, C!Show, C!NoBack
  <2>2. PICK scr : scr = message'
    OBVIOUS
  <2>3. /\ scr.kind # "PROM_CONFIRM" /\ scr.back = "none"
        /\ scr.skip = FALSE /\ scr.form \in {0, form}
    <3>1. CASE scr = C!Blank
      BY <3>1 DEF C!Blank, C!Shown, C!NoBack
    <3>2. CASE scr = [C!Scr("delete", "none") EXCEPT !.shows = {update}]
      BY <2>1, <3>2 DEF C!Scr, C!Shown
    <3> QED BY <2>1, <2>2, <3>1, <3>2
  <2>4. "3" \in DOMAIN saved /\ "3" \in Menus
    BY <2>1 DEF PromotionInv, Stacked, Menus, FormStates
  <2> QED BY <1>1, <2>1, <2>2, <2>3, <2>4, MenuKeeps
<1>6. CASE C!refuse_delete
  <2>1. PICK scr : /\ scr = C!Shown("deletable", "3") /\ at = "3" /\ at' = "3" /\ message' = scr
                   /\ UNCHANGED <<saved, answers, update, form, rows>>
    BY <1>6 DEF C!refuse_delete, C!promotion_delete_start, C!Show, C!Keep
  <2>2. scr.kind = "deletable" /\ scr.back = "3" /\ scr.skip = FALSE /\ scr.form = 0
    BY <2>1 DEF C!Shown
  <2>3. "3" \in DOMAIN saved /\ "3" \in Menus
    BY <2>1 DEF PromotionInv, Stacked, Menus
  <2> QED BY <1>1, <2>1, <2>2, <2>3, MenuKeeps
<1> QED BY <1>2, <1>3, <1>4, <1>5, <1>6

\* A row that is left is as it was.
LEMMA DeleteKeeps ==
    ASSUME PromotionInv, C!confirm_promotion_delete
    PROVE  PromotionInv' /\ \A id \in DOMAIN rows' : rows'[id] = rows[id]
<1>1. PICK scr : /\ scr = C!Shown("deletable", "3") /\ at = "3" /\ at' = "3" /\ message' = scr
                 /\ UNCHANGED <<saved, answers, update, form>>
                 /\ rows' = [id \in DOMAIN rows \ message.shows |-> rows[id]]
  BY DEF C!confirm_promotion_delete, C!promotion_delete_start, C!Show
<1>2. scr.kind = "deletable" /\ scr.back = "3" /\ scr.skip = FALSE /\ scr.form = 0
  BY <1>1 DEF C!Shown
<1>3. "3" \in DOMAIN saved /\ "3" \in Menus
  BY <1>1 DEF PromotionInv, Stacked, Menus
<1>4. rows' \in [DOMAIN rows' -> Promotion] /\ 0 \notin DOMAIN rows'
  BY <1>1 DEF PromotionInv, PromotionTyped
<1> QED BY <1>1, <1>2, <1>3, <1>4, MenuKeeps

\* What is saved is what the form has.
LEMMA SaveKeeps ==
    ASSUME PromotionInv, C!promotion_confirm_save
    PROVE  /\ PromotionInv'
           /\ \A id \in DOMAIN rows \cap DOMAIN rows' :
                 rows'[id] = rows[id] \/ (id = update /\ rows'[id] = answers)
<1>1. PICK s, scr : /\ scr = C!Shown("db", "1") /\ s = "2" /\ at = "PROM_CONFIRM" /\ at' = s
                    /\ message' = scr /\ saved' = C!With(saved, s, scr)
                    /\ UNCHANGED <<answers, update, form>>
  BY DEF C!promotion_confirm_save, C!db, C!Enter
<1>2. scr.kind = "db" /\ scr.back = "1" /\ scr.skip = FALSE /\ scr.form = 0
  BY <1>1 DEF C!Shown
<1>3. /\ "1" \in DOMAIN saved /\ s \in Menus /\ "1" \in Menus /\ s # "idle"
      /\ s = "3" => "2" \in DOMAIN saved
  BY <1>1 DEF PromotionInv, Stacked, Menus, FormStates
<1>4. /\ rows \in [DOMAIN rows -> Promotion] /\ answers \in Promotion /\ 0 \notin DOMAIN rows
      /\ 0 \notin Ids
  BY PartsAssumption DEF PromotionInv, PromotionTyped
<1>5. \/ rows' = rows
      \/ rows' = [rows EXCEPT ![update] = answers]
      \/ \E id \in Ids \ DOMAIN rows : rows' = C!With(rows, id, answers)
  BY DEF C!promotion_confirm_save, C!update_promotion, C!create_promotion
<1>6. /\ rows' \in [DOMAIN rows' -> Promotion] /\ 0 \notin DOMAIN rows'
      /\ \A id \in DOMAIN rows \cap DOMAIN rows' :
            rows'[id] = rows[id] \/ (id = update /\ rows'[id] = answers)
  <2>1. CASE rows' = rows
    BY <1>4, <2>1
  <2>2. CASE rows' = [rows EXCEPT ![update] = answers]
    BY <1>4, <2>2
  <2>3. CASE \E id \in Ids \ DOMAIN rows : rows' = C!With(rows, id, answers)
    BY <1>4, <2>3 DEF C!With
  <2> QED BY <1>5, <2>1, <2>2, <2>3
<1> QED BY <1>1, <1>2, <1>3, <1>6, MenuKeeps

LEMMA SettingsStartKeeps ==
    ASSUME PromotionInv, C!start_settings, C!Keep
    PROVE  PromotionInv' /\ rows' = rows
<1>1. PICK s, scr : /\ scr = C!Shown("start", "none") /\ s = "1" /\ at' = s /\ message' = scr
                    /\ saved' = C!With(<<>>, s, scr) /\ UNCHANGED <<answers, update, form, rows>>
  BY DEF C!start_settings, C!Keep, C!NoBack
<1>2. scr.kind = "start" /\ scr.back = "none" /\ scr.skip = FALSE /\ scr.form = 0
  BY <1>1 DEF C!Shown
<1>3. DOMAIN saved' = {s} /\ saved'[s] = scr
  BY <1>1 DEF C!With
<1>4. s \in Menus /\ s \notin FormStates /\ form \in Nat
  BY <1>1, StatesDiffer DEF Menus, PromotionInv, PromotionTyped
<1>5. s \notin Questions \cup Restrictions \cup Needed \cup {"PROM_CONFIRM"}
  BY <1>4, StatesDiffer DEF FormStates
<1>6. ScreenIs(s, scr, form, update, {s}) /\ SummaryIs(scr, form, update, answers)
  BY <1>2, <1>4, <1>5 DEF ScreenIs, SummaryIs
<1>7. ScreensAre' /\ SummariesAre'
  BY <1>1, <1>3, <1>6 DEF ScreensAre, SummariesAre
<1>8. PromotionTyped' /\ Stacked' /\ AskedInRow'
  BY <1>1, <1>3, <1>4, <1>5 DEF PromotionInv, PromotionTyped, Stacked, AskedInRow
<1> QED BY <1>1, <1>7, <1>8 DEF PromotionInv

-----------------------------------------------------------------------------
(* The form is opened, left, and gone back in.                             *)

LEMMA CreateKeeps ==
    ASSUME PromotionInv, C!promotion_create_start
    PROVE  PromotionInv' /\ rows' = rows
<1>1. PICK s, scr :
        /\ s = "PROM_NAME" /\ scr = C!AskScreen("PROM_NAME", C!NoData) /\ at = "3"
        /\ at' = s /\ message' = scr /\ saved' = C!With(saved, s, scr)
        /\ answers' = C!NoData /\ update' = 0 /\ form' = form + 1 /\ rows' = rows
  BY DEF C!promotion_create_start, C!Enter
<1>2. C!Given(s, C!NoData) \in BOOLEAN
  BY DEF C!Given
<1>3. PICK skip \in BOOLEAN : skip = C!Given(s, C!NoData)
  BY <1>2
<1>4. scr = [C!Scr(s, "3") EXCEPT !.skip = skip]
  BY <1>1, <1>3, BeforeIs DEF C!AskScreen
<1>5. scr.form = form + 1 /\ scr.kind = s /\ scr.back = "3" /\ scr.skip = skip
  BY <1>1, <1>4 DEF C!Scr, C!Shown
<1>6. form \in Nat /\ "3" \in DOMAIN saved /\ "3" \in Menus /\ C!NoData \in Promotion
  BY <1>1 DEF PromotionInv, PromotionTyped, Stacked, Menus, C!NoData, Promotion
<1>7. /\ s \in Questions /\ s \in Needed /\ s \in FormStates /\ s # "PROM_CONFIRM"
      /\ s \notin Restrictions \cup Menus /\ C!Before(s) = "3"
  BY <1>1, StatesDiffer, BeforeIs DEF Questions, Needed, FormStates
<1>8. ScreenIs(s, scr, form + 1, 0, DOMAIN saved \cup {s})
  BY <1>5, <1>6, <1>7 DEF ScreenIs
<1>9. SummaryIs(scr, form + 1, 0, answers')
  BY DEF SummaryIs
<1>10. ScreensAre' /\ SummariesAre'
  BY <1>1, <1>6, <1>8, <1>9, EnteredFits
<1>11. PromotionTyped'
  BY <1>1, <1>6, <1>7 DEF PromotionInv, PromotionTyped
<1>12. DOMAIN saved' = DOMAIN saved \cup {s} /\ saved'[s] = scr
  BY <1>1, OneMore
<1>13. Stacked'
  <2>1. s \notin {"1", "2", "3"}
    BY <1>7 DEF Menus
  <2> QED BY <1>1, <1>6, <1>7, <1>12, <2>1 DEF PromotionInv, Stacked
<1>14. AskedInRow'
  <2>1. ASSUME NEW q \in Needed, Rank(q) <= Rank(s)
        PROVE  q = s
    BY <1>1, <2>1, RankIs DEF Needed
  <2>2. AskedUpTo(Rank(s))'
    BY <1>1, <1>5, <1>12, <2>1 DEF AskedUpTo
  <2> QED BY <1>1, <1>5, <1>7, <2>2 DEF AskedInRow
<1> QED BY <1>1, <1>10, <1>11, <1>13, <1>14 DEF PromotionInv

LEMMA UpdateKeeps ==
    ASSUME PromotionInv, C!handle_promotion_to_update
    PROVE  PromotionInv' /\ rows' = rows
<1>1. at = "3" /\ "3" \in DOMAIN saved /\ "3" \in Menus /\ form \in Nat
  BY DEF C!handle_promotion_to_update, PromotionInv, PromotionTyped, Stacked, Menus
<1>2. rows \in [DOMAIN rows -> Promotion] /\ 0 \notin DOMAIN rows
  BY DEF PromotionInv, PromotionTyped
<1>3. CASE C!Show("3", C!Blank) /\ C!Keep
  <2>1. PICK scr : /\ scr = C!Blank /\ at' = "3" /\ message' = scr
                   /\ UNCHANGED <<saved, answers, update, form, rows>>
    BY <1>3 DEF C!Show, C!Keep
  <2>2. scr.kind = "blank" /\ scr.back = "none" /\ scr.skip = FALSE /\ scr.form = 0
    BY <2>1 DEF C!Blank, C!Shown, C!NoBack
  <2> QED BY <1>1, <1>2, <2>1, <2>2, MenuKeeps
<1>4. ASSUME NEW id \in DOMAIN rows, update' = id, form' = form + 1,
             C!ask_promotion_summary(rows[id])
      PROVE  PromotionInv' /\ rows' = rows
  <2>1. PICK d, s, scr : /\ d = rows[id] /\ s = "PROM_CONFIRM"
                         /\ scr = [C!Scr("PROM_CONFIRM", "3") EXCEPT !.shows = {d}]
    OBVIOUS
  <2>2. /\ at' = s /\ message' = scr /\ saved' = C!With(saved, s, scr) /\ answers' = d /\ rows' = rows
    BY <1>4, <2>1 DEF C!ask_promotion_summary, C!Enter
  <2>3. scr.form = form + 1 /\ scr.kind = s /\ scr.back = "3" /\ scr.skip = FALSE /\ scr.shows = {d}
    BY <1>4, <2>1 DEF C!Scr, C!Shown
  <2>4. id # 0 /\ d \in Promotion
    BY <1>2, <2>1
  <2>5. s \in FormStates /\ s \notin Restrictions \cup Questions \cup Menus \cup Needed
    BY <2>1, StatesDiffer DEF FormStates
  <2>6. ScreenIs(s, scr, form + 1, id, DOMAIN saved \cup {s})
    BY <1>1, <2>1, <2>3, <2>5 DEF ScreenIs
  <2>7. SummaryIs(scr, form + 1, id, answers')
    BY <2>2, <2>3 DEF SummaryIs
  <2>8. ScreensAre' /\ SummariesAre'
    BY <1>1, <1>4, <2>2, <2>6, <2>7, EnteredFits
  <2>9. PromotionTyped'
    BY <1>1, <1>4, <2>2, <2>4, <2>5 DEF PromotionInv, PromotionTyped
  <2>10. DOMAIN saved' = DOMAIN saved \cup {s}
    BY <2>2, OneMore
  <2>11. Stacked'
    <3>1. s \notin {"1", "2", "3"}
      BY <2>5 DEF Menus
    <3> QED BY <1>1, <1>4, <2>1, <2>2, <2>5, <2>10, <3>1 DEF PromotionInv, Stacked
  <2>12. AskedInRow'
    BY <1>4, <2>4 DEF AskedInRow, C!Straight
  <2> QED BY <2>2, <2>8, <2>9, <2>11, <2>12 DEF PromotionInv
<1> QED BY <1>3, <1>4 DEF C!handle_promotion_to_update

\* Fields are asked for again from the summary.
LEMMA EditKeeps ==
    ASSUME PromotionInv, C!edit_field
    PROVE  PromotionInv' /\ rows' = rows
<1>1. PICK s \in Questions : s # "PROM_VALUE" /\ C!Ask(s, answers)
  BY DEF C!edit_field, C!handle_prom_name_start, C!handle_prom_code_start, C!ask_prom_type,
     C!handle_prom_min_sum_start, C!handle_prom_visible_start, C!handle_prom_verify_start,
     C!handle_prom_vtext_start, C!handle_prom_start_start, C!handle_prom_expire_start,
     C!handle_prom_max_usage_start, C!handle_prom_max_usage_user_start,
     C!handle_prom_desc_start, C!handle_prom_weekdays_start, Questions, Needed
<1>2. at = "PROM_CONFIRM" /\ answers \in Promotion
  BY DEF C!edit_field, PromotionInv, PromotionTyped
<1>3. Turn(s)
  BY <1>2, ItsTurn
<1> QED BY <1>1, <1>2, <1>3, AskedByItself

LEMMA SkipKeeps ==
    ASSUME PromotionInv, C!skip_to_confirm
    PROVE  PromotionInv' /\ rows' = rows
<1>1. at \in FormStates /\ answers \in Promotion
  BY DEF C!skip_to_confirm, PromotionInv, PromotionTyped, ScreensAre, ScreenIs
<1> QED BY <1>1, SummaryKeeps DEF C!skip_to_confirm

\* "Back" comes to a question whose predecessors were asked, as this one's were.
LEMMA GoBackKeeps ==
    ASSUME PromotionInv, C!Back
    PROVE  PromotionInv' /\ rows' = rows
<1>1. PICK s : /\ s = message.back /\ s # "none" /\ s \in DOMAIN saved /\ at' = s
               /\ message' = saved[s] /\ UNCHANGED <<saved, answers, update, form, rows>>
  BY DEF C!Back, C!back, C!CanGoBack, C!Keep, C!NoBack
<1>2. /\ ScreenIs(at, message, form, update, DOMAIN saved)
      /\ ScreenIs(s, saved[s], form, update, DOMAIN saved)
      /\ SummaryIs(saved[s], form, update, answers)
  BY <1>1 DEF PromotionInv, ScreensAre, SummariesAre
<1>3. s \in Menus \cup Needed \cup {"PROM_CONFIRM", "PROM_MAX_USAGE"}
  BY <1>1, <1>2 DEF ScreenIs, Menus
<1>4. s \notin Restrictions /\ s \in Menus \cup FormStates
  BY <1>3, StatesDiffer DEF Needed, Restrictions, Menus, FormStates, Questions
<1>5. ScreensAre' /\ SummariesAre'
  BY <1>1, <1>2 DEF PromotionInv, ScreensAre, SummariesAre
<1>6. PromotionTyped'
  BY <1>1, <1>4 DEF PromotionInv, PromotionTyped
<1>7. s \in FormStates => at \in FormStates
  <2>1. CASE at \notin FormStates
    <3>1. message.form = 0
      BY <1>1, <1>2, <2>1 DEF ScreenIs
    <3>2. s \in Menus
      BY <1>1, <1>2, <3>1 DEF ScreenIs
    <3> QED BY <3>2, StatesDiffer
  <2> QED BY <2>1
<1>8. Stacked'
  BY <1>1, <1>4, <1>7 DEF PromotionInv, Stacked
<1>9. AskedInRow'
  <2>1. /\ C!Straight' <=> C!Straight
        /\ \A m : AskedUpTo(m)' <=> AskedUpTo(m)
    BY <1>1 DEF C!Straight, AskedUpTo
  <2> SUFFICES ASSUME C!Straight, s \in FormStates
               PROVE  /\ s \in Questions => AskedUpTo(Rank(s))
                      /\ s = "PROM_CONFIRM" => AskedUpTo(12)
                      /\ s \in Questions /\ saved[s].form # form => AskedUpTo(12)
    BY <1>1, <1>4, <2>1, StatesDiffer DEF AskedInRow, FormStates
  <2>2. at \in FormStates /\ update = 0
    BY <1>7 DEF C!Straight
  <2>3. ASSUME NEW m \in Nat, NEW n \in Nat, AskedUpTo(n), m <= n \/ n >= 12
        PROVE  AskedUpTo(m)
    <3>1. ASSUME NEW q \in Needed, Rank(q) <= m
          PROVE  Rank(q) <= n
      BY <2>3, <3>1, BeforeInRow DEF Questions
    <3> QED BY <2>3, <3>1 DEF AskedUpTo
  <2>4. s \in Questions => Rank(s) \in Nat
    BY BeforeInRow
  <2>5. CASE at \in Questions /\ message.form = form
    <3>1. s = C!Before(at)
      BY <1>1, <1>2, <2>2, <2>5 DEF ScreenIs
    <3>2. AskedUpTo(Rank(at)) /\ Rank(at) \in Nat
      BY <2>5, BeforeInRow DEF PromotionInv, AskedInRow
    <3>3. s # "PROM_CONFIRM"
      BY <2>5, <3>1, BeforeInRow DEF Needed
    <3>4. s \in Questions => AskedUpTo(Rank(s))
      <4>1. s \in Questions => Rank(s) <= Rank(at)
        BY <2>5, <3>1, BeforeInRow
      <4> QED BY <2>3, <2>4, <3>2, <4>1
    <3>5. CASE s \in Needed
      <4>1. Rank(s) <= Rank(at)
        BY <2>5, <3>1, <3>5, BeforeInRow DEF Questions
      <4>2. saved[s].form = form
        BY <3>2, <3>5, <4>1 DEF AskedUpTo
      <4> QED BY <3>3, <3>4, <4>2
    <3>6. CASE s = "PROM_MAX_USAGE"
      <4>1. Rank(at) >= 12
        BY <2>5, <3>1, <3>6, BeforeInRow
      <4>2. AskedUpTo(12)
        BY <2>3, <3>2, <4>1
      <4> QED BY <3>3, <3>4, <4>2
    <3> QED BY <1>3, <3>3, <3>4, <3>5, <3>6, StatesDiffer DEF FormStates
  <2>6. CASE at \in Questions /\ message.form # form
    <3>1. AskedUpTo(12)
      BY <2>6 DEF PromotionInv, AskedInRow
    <3> QED BY <2>3, <2>4, <3>1
  <2>7. CASE at \in Restrictions
    <3>1. AskedUpTo(12)
      BY <2>7 DEF PromotionInv, AskedInRow
    <3> QED BY <2>3, <2>4, <3>1
  <2>8. CASE at = "PROM_CONFIRM"
    <3>1. s = "3"
      BY <1>1, <1>2, <2>8 DEF ScreenIs
    <3> QED BY <3>1, StatesDiffer DEF Menus
  <2> QED BY <2>2, <2>5, <2>6, <2>7, <2>8 DEF FormStates
<1> QED BY <1>1, <1>5, <1>6, <1>8, <1>9 DEF PromotionInv

\* A step keeps what the form shows, and saves what is shown.
LEMMA PromotionStep ==
    ASSUME PromotionInv, [C!Next]_(C!vars)
    PROVE  PromotionInv' /\ (C!AsShown \/ rows' = rows)
<1>1. CASE UNCHANGED C!vars
  <2>1. UNCHANGED <<at, message, saved, answers, update, form, rows>>
    BY <1>1 DEF C!vars, C!menu, C!own
  <2> QED BY <2>1 DEF PromotionInv, PromotionTyped, ScreensAre, SummariesAre, Stacked, AskedInRow,
          AskedUpTo, C!Straight
<1>2. CASE C!Menu
  BY <1>2, SettingsStartKeeps, MenusKeep DEF C!Menu
<1>3. CASE C!Back
  BY <1>3, GoBackKeeps
<1>4. CASE C!promotion_select \/ C!handle_promotion_delete \/ C!refuse_delete
  BY <1>4, MenusKeep
<1>5. CASE C!promotion_create_start \/ C!handle_promotion_to_update
  BY <1>5, CreateKeeps, UpdateKeeps
<1>6. CASE C!confirm_promotion_delete
  BY <1>6, DeleteKeeps DEF C!AsShown
<1>7. CASE \/ C!handle_prom_name \/ C!handle_prom_min_sum \/ C!handle_prom_visible
           \/ C!handle_prom_verify \/ C!handle_prom_vtext \/ C!handle_prom_start
           \/ C!handle_prom_max_usage \/ C!handle_prom_max_usage_user
  BY <1>7, FieldsKeep
<1>8. CASE C!handle_prom_code \/ C!generate_prom_code
  BY <1>8, CodeKeeps
<1>9. CASE C!handle_prom_type \/ C!handle_prom_value \/ C!handle_prom_expire
  BY <1>9, TypeKeeps, ValueKeeps, ExpireKeeps
<1>10. CASE C!handle_prom_weekdays \/ C!handle_prom_desc
  BY <1>10, DaysKeep, DescriptionKeeps
<1>11. CASE C!skip_to_confirm \/ C!edit_field
  BY <1>11, SkipKeeps, EditKeeps
<1>12. CASE \/ C!restrict_type \/ C!restrict_theater \/ C!restrict_ticket
            \/ C!restrict_schedule
  BY <1>12, RestrictionKeeps
  DEF C!restrict_type, C!restrict_theater, C!restrict_ticket, C!restrict_schedule, Restrictions
<1>13. CASE C!promotion_confirm_save
  <2>1. /\ PromotionInv'
        /\ \A id \in DOMAIN rows \cap DOMAIN rows' :
              rows'[id] = rows[id] \/ (id = update /\ rows'[id] = answers)
    BY <1>13, SaveKeeps
  <2>2. ASSUME NEW id \in DOMAIN rows \cap DOMAIN rows', rows'[id] # rows[id], message.form = form,
               NEW d \in message.shows
        PROVE  rows'[id].f = d.f /\ rows'[id].value = d.value
    <3>1. id = update /\ rows'[id] = answers /\ update # 0
      BY <2>1, <2>2 DEF PromotionInv, PromotionTyped
    <3>2. message.kind = "PROM_CONFIRM" /\ SummaryIs(message, form, update, answers)
      BY <1>13 DEF C!promotion_confirm_save, PromotionInv, SummariesAre
    <3> QED BY <2>2, <3>1, <3>2 DEF SummaryIs
  <2> QED BY <2>1, <2>2 DEF C!AsShown
<1> QED BY <1>1, <1>2, <1>3, <1>4, <1>5, <1>6, <1>7, <1>8, <1>9, <1>10, <1>11, <1>12, <1>13
    DEF C!Next

\* The screen that is shown can be gone back from, with the exceptions.
LEMMA BackOfForm == PromotionInv => C!BackIsKnown
<1> SUFFICES ASSUME PromotionInv, message.back # "none", message.form \in {0, form}
             PROVE  \/ C!CanGoBack
                    \/ update = 0 /\ (~C!Straight \/ message.back = "PROM_MAX_USAGE")
                    \/ update # 0 /\ message.kind \in {"refused", "PROM_WEEKDAYS"}
  BY DEF C!BackIsKnown, C!NoBack
<1>1. ScreenIs(at, message, form, update, DOMAIN saved)
  BY DEF PromotionInv, ScreensAre
<1>2. message.back \in DOMAIN saved => C!CanGoBack
  BY DEF C!CanGoBack, C!NoBack
<1>3. CASE message.form = 0
  BY <1>1, <1>2, <1>3 DEF ScreenIs
<1>4. CASE message.form = form /\ update # 0
  BY <1>1, <1>2, <1>4 DEF ScreenIs
<1>5. CASE message.form = form /\ message.form # 0 /\ update = 0 /\ C!Straight
  <2>1. at \in FormStates /\ "3" \in DOMAIN saved
    BY <1>1, <1>5 DEF ScreenIs, PromotionInv, Stacked
  <2>2. CASE at = "PROM_CONFIRM"
    BY <1>1, <1>2, <2>1, <2>2 DEF ScreenIs
  <2>3. CASE at \in Restrictions
    BY <1>1, <1>2, <2>3 DEF ScreenIs, PromotionInv, Stacked
  <2>4. CASE at \in Questions
    <3>1. message.back = C!Before(at)
      BY <1>1, <1>5, <2>4 DEF ScreenIs
    <3>2. AskedUpTo(Rank(at))
      BY <1>5, <2>4 DEF PromotionInv, AskedInRow
    <3>3. CASE message.back \in Needed
      <4>1. Rank(message.back) <= Rank(at)
        BY <2>4, <3>1, <3>3, BeforeInRow DEF Questions
      <4> QED BY <1>2, <3>2, <3>3, <4>1 DEF AskedUpTo
    <3> QED BY <1>2, <1>5, <2>1, <2>4, <3>1, <3>3, BeforeInRow
  <2> QED BY <2>1, <2>2, <2>3, <2>4 DEF FormStates
<1> QED BY <1>3, <1>4, <1>5

-----------------------------------------------------------------------------
(* ScheduleForm: saving keeps the free seats, and a form that is filled in *)
(* straight does not fail.                                                 *)
(*                                                                         *)
(* The form writes the counter it has loaded, so it has to be the one in   *)
(* the table, as long as nobody has booked; and no form is entered but by  *)
(* the two starts, which load it: no screen outside of a form leads "back" *)
(* into one.                                                               *)

ScheduleData ==
    [type : BOOLEAN, play : BOOLEAN, date : BOOLEAN, qty : Nat, free : Int,
     santa : BOOLEAN, tickets : BOOLEAN, on : BOOLEAN]
ScheduleService ==
    [id : Events \cup {S!New}, jump : BOOLEAN, temp : BOOLEAN,
     filter : {"actual", "all"}, known : BOOLEAN]

\* A screen of state s: outside of a form it does not lead into one, and a
\* list shows what is in the table.
ScreenFits(s, scr, showings) ==
    /\ s \notin S!States => scr.back \notin S!States
    /\ s = "3" => scr.shows \subseteq showings
ScreensFit ==
    /\ ScreenFits(at, message, DOMAIN rows)
    /\ \A s \in DOMAIN saved : ScreenFits(s, saved[s], DOMAIN rows)

FormTyped == answers \in ScheduleData /\ service \in ScheduleService
TableTyped ==
    /\ DOMAIN rows \subseteq Events /\ rows \in [DOMAIN rows -> [qty : Nat, free : Int]]
    /\ opened \in [DOMAIN rows -> Nat] /\ taken \in [Events -> Nat]
    /\ \A e \in Events \ DOMAIN rows : taken[e] = 0

\* The free seats a form will write are those in the table.
LoadedIsFree ==
    at \in S!States /\ service.id # S!New /\ service.id \in DOMAIN rows \ busy =>
        answers.free = rows[service.id].free

\* A form without a step back or a refusal: its screen is that of its state
\* and says what is noted, its message is known, and there is a date to show.
FormStraight ==
    clean /\ at \in S!States =>
        /\ \/ message.kind = at
           \/ at = "SCH_DATETIME" /\ message.kind = "time"
           \/ at = "SCH_CONFIRM" /\ message.kind = "create"
        /\ service.jump \/ at # "SCH_PRICE_TYPE" => service.known
        /\ service.jump \/ at \notin {"SCH_TYPE", "SCH_THEATER", "SCH_DATETIME"} => answers.date
        /\ at = "SCH_FLAGS" => message.shows = S!If(answers.santa, "santa")
        /\ at = "SCH_BT_SELECT" => message.shows = S!If(answers.tickets, "marked")
        /\ message.kind = "SCH_CONFIRM" => message.shows = S!If(answers.on, "on")

ScheduleInv ==
    FormTyped /\ TableTyped /\ ScreensFit /\ LoadedIsFree /\ FormStraight /\ S!FreeSeatsKept


LEMMA ScheduleInit == S!Init => ScheduleInv
<1> SUFFICES ASSUME S!Init PROVE ScheduleInv
  OBVIOUS
<1>1. PICK n \in Seats : /\ rows = [e \in {First} |-> [qty |-> n, free |-> n]]
                         /\ opened = [e \in {First} |-> n]
  BY DEF S!Init
<1>2. n \in Nat /\ First \in Events
  BY PartsAssumption
<1>3. DOMAIN rows = {First} /\ rows[First] = [qty |-> n, free |-> n] /\ opened[First] = n
  BY <1>1
<1>4. FormTyped
  BY DEF S!Init, FormTyped, ScheduleData, ScheduleService, S!NoData, S!NoService
<1>5. TableTyped
  BY <1>1, <1>2, <1>3 DEF S!Init, TableTyped
<1>6. at = "idle" /\ at \notin S!States /\ message.back = "none" /\ DOMAIN saved = {}
  BY DEF S!Init, S!MenuInit, S!States, S!Steps, S!Blank, S!Shown, S!NoBack
<1>7. ScreensFit /\ LoadedIsFree /\ FormStraight
  BY <1>6 DEF ScreensFit, ScreenFits, LoadedIsFree, FormStraight, S!States, S!Steps
<1>8. S!FreeSeatsKept
  BY <1>1, <1>2, <1>3 DEF S!Init, S!FreeSeatsKept
<1> QED BY <1>4, <1>5, <1>7, <1>8 DEF ScheduleInv

\* A screen that fits is shown, and saved or not.
LEMMA ScreensStayFit ==
    ASSUME ScreensFit, DOMAIN rows \subseteq DOMAIN rows', NEW s, NEW scr,
           ScreenFits(s, scr, DOMAIN rows'), S!Enter(s, scr) \/ S!Show(s, scr)
    PROVE  ScreensFit'
<1>1. ASSUME NEW t \in DOMAIN saved' PROVE ScreenFits(t, saved'[t], DOMAIN rows')
  <2>1. CASE S!Enter(s, scr) /\ t = s
    <3>1. saved'[t] = scr
      BY <2>1, <1>1 DEF S!Enter, S!With
    <3> QED BY <2>1, <3>1
  <2>2. CASE ~(S!Enter(s, scr) /\ t = s)
    <3>1. t \in DOMAIN saved /\ saved'[t] = saved[t]
      BY <2>2, <1>1 DEF S!Enter, S!Show, S!With
    <3> QED BY <3>1 DEF ScreensFit, ScreenFits
  <2> QED BY <2>1, <2>2
<1> QED BY <1>1 DEF ScreensFit, S!Enter, S!Show

LEMMA PageFits ==
    ASSUME ScreensFit, UNCHANGED rows, NEW s \in S!States, NEW scr, NEW ok,
           S!Page(s, scr, ok) \/ S!Note(s, scr, ok) \/ S!Wipe
    PROVE  ScreensFit'
<1>1. s # "3"
  BY DEF S!States, S!Steps
<1>2. CASE S!Wipe
  BY <1>2 DEF S!Wipe, ScreensFit, ScreenFits, S!Blank, S!Shown, S!NoBack, S!States, S!Steps
<1>3. CASE S!Enter(s, scr) \/ S!Show(s, scr)
  <2>1. ScreenFits(s, scr, DOMAIN rows')
    BY <1>1 DEF ScreenFits
  <2> QED BY <1>3, <2>1, ScreensStayFit
<1> QED BY <1>2, <1>3 DEF S!Page, S!Note

LEMMA AskKeeps ==
    ASSUME ScreensFit, UNCHANGED rows, NEW svc \in ScheduleService, NEW ok,
           NEW typed \in BOOLEAN,
           \/ S!ask_type_event(svc) \/ S!_render_theater_list(svc) \/ S!ask_datetime(svc)
           \/ S!ask_qty_child(svc, ok) \/ S!ask_qty_adult(svc, ok)
           \/ S!ask_price_type(svc, ok, typed) \/ S!ask_flags(svc) \/ S!ask_base_tickets(svc)
           \/ S!ask_schedule_summary(svc, ok) \/ S!ask_summary(svc)
    PROVE  service' \in ScheduleService /\ service'.id = svc.id /\ ScreensFit'
<1>1. {"SCH_TYPE", "SCH_THEATER", "SCH_DATETIME", "SCH_QTY_CHILD", "SCH_QTY_ADULT",
       "SCH_PRICE_TYPE", "SCH_FLAGS", "SCH_BT_SELECT", "SCH_CONFIRM"} \subseteq S!States
  BY DEF S!States, S!Steps
<1>2. service' \in ScheduleService /\ service'.id = svc.id
  BY DEF S!ask_type_event, S!_render_theater_list, S!ask_datetime, S!ask_qty_child,
         S!ask_qty_adult, S!ask_price_type, S!ask_flags, S!ask_base_tickets,
         S!ask_schedule_summary, S!ask_summary, ScheduleService
<1>3. ASSUME S!ask_base_tickets(svc) PROVE ScreensFit'
  <2>1. CASE S!Wipe
    BY <1>1, <2>1, PageFits
  <2>2. CASE ~S!Wipe
    <3>1. /\ at' = "SCH_BT_SELECT"
          /\ saved' = S!With(saved, "SCH_BT_SELECT", S!Blank)
      BY <1>3, <2>2 DEF S!ask_base_tickets
    <3>2. \A t \in DOMAIN saved' : t = "SCH_BT_SELECT" \/ (t \in DOMAIN saved /\ saved'[t] = saved[t])
      BY <3>1 DEF S!With
    <3> QED BY <1>1, <3>1, <3>2 DEF ScreensFit, ScreenFits
  <2> QED BY <2>1, <2>2
<1>4. ASSUME ~S!ask_base_tickets(svc) PROVE ScreensFit'
  <2>1. PICK s \in S!States : \E scr, o : S!Page(s, scr, o)
    BY <1>1, <1>4 DEF S!ask_type_event, S!_render_theater_list, S!ask_datetime,
         S!ask_qty_child, S!ask_qty_adult, S!ask_price_type, S!ask_flags,
         S!ask_schedule_summary, S!ask_summary
  <2> QED BY <2>1, PageFits
<1> QED BY <1>2, <1>3, <1>4

\* What the form knows after a question was put from a form that is straight.
LEMMA AskStraight ==
    ASSUME NEW svc \in ScheduleService, svc.known, svc.jump => answers'.date,
           answers' \in ScheduleData
    PROVE  /\ S!ask_type_event(svc) /\ message.kind # "SCH_TYPE" =>
                at' = "SCH_TYPE" /\ FormStraight'
           /\ S!_render_theater_list(svc) /\ message.kind # "SCH_THEATER" =>
                at' = "SCH_THEATER" /\ FormStraight'
           /\ S!ask_datetime(svc) /\ message.kind # "SCH_DATETIME" =>
                at' = "SCH_DATETIME" /\ FormStraight'
           /\ S!ask_qty_child(svc, TRUE) /\ message.kind # "SCH_QTY_CHILD" /\ answers'.date =>
                at' = "SCH_QTY_CHILD" /\ FormStraight'
           /\ S!ask_qty_adult(svc, TRUE) /\ message.kind # "SCH_QTY_ADULT" /\ answers'.date =>
                at' = "SCH_QTY_ADULT" /\ FormStraight'
           /\ \A typed \in BOOLEAN : S!ask_price_type(svc, TRUE, typed)
                                     /\ message.kind # "SCH_PRICE_TYPE" /\ answers'.date
                             /\ (typed => ~svc.jump) =>
                at' = "SCH_PRICE_TYPE" /\ FormStraight'
           /\ S!ask_base_tickets(svc) /\ answers'.date
              /\ message.kind # "SCH_BT_SELECT" =>
                at' = "SCH_BT_SELECT" /\ FormStraight'
           /\ S!ask_summary(svc) /\ answers'.date /\ message.kind # "create" =>
                at' = "SCH_CONFIRM" /\ FormStraight'
<1> USE DEF FormStraight, S!Page, S!Enter, S!Question, S!Shown, S!WithMarks, S!_render_multi_select,
            ScheduleService, ScheduleData
<1>1. S!ask_type_event(svc) /\ message.kind # "SCH_TYPE" => at' = "SCH_TYPE" /\ FormStraight'
  BY DEF S!ask_type_event
<1>2. S!_render_theater_list(svc) /\ message.kind # "SCH_THEATER" =>
        at' = "SCH_THEATER" /\ FormStraight'
  BY DEF S!_render_theater_list
<1>3. S!ask_datetime(svc) /\ message.kind # "SCH_DATETIME" =>
        at' = "SCH_DATETIME" /\ FormStraight'
  BY DEF S!ask_datetime
<1>4. S!ask_qty_child(svc, TRUE) /\ message.kind # "SCH_QTY_CHILD" /\ answers'.date =>
        at' = "SCH_QTY_CHILD" /\ FormStraight'
  BY DEF S!ask_qty_child
<1>5. S!ask_qty_adult(svc, TRUE) /\ message.kind # "SCH_QTY_ADULT" /\ answers'.date =>
        at' = "SCH_QTY_ADULT" /\ FormStraight'
  BY DEF S!ask_qty_adult
<1>6. \A typed \in BOOLEAN : S!ask_price_type(svc, TRUE, typed)
                             /\ message.kind # "SCH_PRICE_TYPE" /\ answers'.date
                             /\ (typed => ~svc.jump) =>
        at' = "SCH_PRICE_TYPE" /\ FormStraight'
  BY DEF S!ask_price_type
<1>7. S!ask_base_tickets(svc) /\ answers'.date /\ message.kind # "SCH_BT_SELECT" =>
        at' = "SCH_BT_SELECT" /\ FormStraight'
  BY DEF S!ask_base_tickets
<1>8. S!ask_summary(svc) /\ answers'.date /\ message.kind # "create" =>
        at' = "SCH_CONFIRM" /\ FormStraight'
  BY DEF S!ask_summary
<1> QED BY <1>1, <1>2, <1>3, <1>4, <1>5, <1>6, <1>7, <1>8

\* The flags and the summary are also shown again, with another mark.
LEMMA MarksStraight ==
    ASSUME NEW svc \in ScheduleService, svc.known, answers' \in ScheduleData, answers'.date
    PROVE  /\ S!ask_flags(svc)
              /\ (message.kind # "SCH_FLAGS" \/ message.shows # S!If(answers'.santa, "santa")) =>
                at' = "SCH_FLAGS" /\ FormStraight'
           /\ S!ask_schedule_summary(svc, TRUE)
              /\ (message.kind # "SCH_CONFIRM" \/ message.shows # S!If(answers'.on, "on")) =>
                at' = "SCH_CONFIRM" /\ FormStraight'
<1> USE DEF FormStraight, S!Page, S!Enter, S!Question, S!Shown, S!WithMarks,
            ScheduleService, ScheduleData
<1>1. S!ask_flags(svc)
      /\ (message.kind # "SCH_FLAGS" \/ message.shows # S!If(answers'.santa, "santa")) =>
        at' = "SCH_FLAGS" /\ FormStraight'
  BY DEF S!ask_flags
<1>2. S!ask_schedule_summary(svc, TRUE)
      /\ (message.kind # "SCH_CONFIRM" \/ message.shows # S!If(answers'.on, "on")) =>
        at' = "SCH_CONFIRM" /\ FormStraight'
  BY DEF S!ask_schedule_summary
<1> QED BY <1>1, <1>2
-----------------------------------------------------------------------------
\* A step of an open form that leaves the table alone.
LEMMA ScheduleAnswerKeeps ==
    ASSUME ScheduleInv, UNCHANGED S!table, at \in S!States, answers' \in ScheduleData,
           answers'.free = answers.free, service' \in ScheduleService,
           service'.id = service.id, ScreensFit', FormStraight'
    PROVE  ScheduleInv'
<1>1. UNCHANGED <<rows, opened, taken, busy>>
  BY DEF S!table
<1>2. TableTyped' /\ S!FreeSeatsKept'
  BY <1>1 DEF ScheduleInv, TableTyped, S!FreeSeatsKept
<1>3. LoadedIsFree'
  BY <1>1 DEF ScheduleInv, LoadedIsFree
<1> QED BY <1>2, <1>3 DEF ScheduleInv, FormTyped

\* An answer given to the question that was put, and not refused: the form
\* goes to the summary when it came from there, else to the next question.
LEMMA ThenKeeps ==
    ASSUME ScheduleInv, at \in S!States, NEW d \in ScheduleData, d.free = answers.free,
           NEW ok, clean => ok = TRUE /\ service.known,
           at # "SCH_CONFIRM", clean => d.date,
           answers' = d, UNCHANGED <<S!table, clean>>,
           NEW from \in ScheduleService, from.id = service.id,
           from.known = service.known,
           S!ask_schedule_summary([from EXCEPT !.jump = FALSE], ok)
    PROVE  ScheduleInv' /\ S!NoFailure
<1>1. PICK svc : svc = [from EXCEPT !.jump = FALSE]
  OBVIOUS
<1>2. service \in ScheduleService /\ svc \in ScheduleService /\ svc.id = service.id
      /\ svc.known = service.known
  BY <1>1 DEF ScheduleInv, FormTyped, ScheduleService
<1>3. service' \in ScheduleService /\ service'.id = svc.id /\ ScreensFit'
  <2>1. S!ask_schedule_summary(svc, ok)
    BY <1>1
  <2> QED BY <1>2, <2>1, AskKeeps DEF ScheduleInv, S!table
<1>4. ASSUME clean PROVE at' = "SCH_CONFIRM" /\ FormStraight'
  <2>1. S!ask_schedule_summary(svc, TRUE)
    BY <1>1, <1>4
  <2>2. message.kind # "SCH_CONFIRM"
    BY <1>4 DEF ScheduleInv, FormStraight, S!States, S!Steps
  <2> QED BY <1>2, <1>4, <2>1, <2>2, MarksStraight
<1>5. S!NoFailure /\ FormStraight'
  BY <1>4 DEF S!NoFailure, FormStraight
<1> QED BY <1>2, <1>3, <1>5, ScheduleAnswerKeeps

LEMMA NextKeeps ==
    ASSUME ScheduleInv, at \in S!States, answers' \in ScheduleData,
           answers'.free = answers.free, UNCHANGED S!table,
           service' \in ScheduleService, service'.id = service.id, ScreensFit',
           clean' => at' # "wiped" /\ FormStraight'
    PROVE  ScheduleInv' /\ S!NoFailure
<1>1. S!NoFailure /\ FormStraight'
  BY DEF S!NoFailure, FormStraight
<1> QED BY <1>1, ScheduleAnswerKeeps

LEMMA ScheduleTypeKeeps ==
    ASSUME ScheduleInv, S!handle_type_selected
    PROVE  ScheduleInv' /\ S!NoFailure
<1>1. PICK d, ok : d = [answers EXCEPT !.type = TRUE] /\ ok = (~FALSE \/ service.known)
  OBVIOUS
<1>2. /\ answers' = d /\ UNCHANGED <<S!table, clean>> /\ at = "SCH_TYPE"
      /\ IF service.jump
         THEN S!ask_schedule_summary([service EXCEPT !.jump = FALSE], ok)
         ELSE S!_render_theater_list(service)
  BY <1>1 DEF S!handle_type_selected, S!Then, S!ThenFrom, S!Pressed, S!Unchanged
<1>3. /\ at \in S!States /\ service \in ScheduleService /\ d \in ScheduleData
      /\ d.free = answers.free /\ ScreensFit
      /\ clean => ok = TRUE /\ service.known /\ (service.jump => d.date)
                  /\ message.kind = "SCH_TYPE"
  BY <1>1, <1>2 DEF S!States, S!Steps, ScheduleInv, FormTyped, ScheduleData, FormStraight
<1>4. CASE service.jump
  BY <1>2, <1>3, <1>4, ThenKeeps
<1>5. CASE ~service.jump
  <2>1. service' \in ScheduleService /\ service'.id = service.id /\ ScreensFit'
    BY <1>2, <1>3, <1>5, AskKeeps DEF S!table
  <2>2. clean' => at' # "wiped" /\ FormStraight'
    BY <1>2, <1>3, <1>5, AskStraight
  <2> QED BY <1>2, <1>3, <2>1, <2>2, NextKeeps
<1> QED BY <1>4, <1>5

LEMMA TheaterKeeps ==
    ASSUME ScheduleInv, S!handle_theater_cb
    PROVE  ScheduleInv' /\ S!NoFailure
<1>1. PICK d, ok : d = [answers EXCEPT !.play = TRUE] /\ ok = (~FALSE \/ service.known)
  OBVIOUS
<1>2. /\ at = "SCH_THEATER" /\ UNCHANGED S!table
      /\ \/ /\ answers' = d /\ UNCHANGED clean
            /\ IF service.jump
               THEN S!ask_schedule_summary([service EXCEPT !.jump = FALSE], ok)
               ELSE S!ask_datetime(service)
         \/ /\ answers' = answers /\ clean' = FALSE
            /\ \E f \in {"actual", "all"} :
                  S!_render_theater_list([service EXCEPT !.filter = f])
  BY <1>1 DEF S!handle_theater_cb, S!Then, S!ThenFrom, S!Again, S!Pressed, S!Unchanged
<1>3. /\ at \in S!States /\ service \in ScheduleService /\ d \in ScheduleData
      /\ answers \in ScheduleData /\ d.free = answers.free /\ ScreensFit
      /\ clean => ok = TRUE /\ service.known /\ (service.jump => d.date)
                  /\ message.kind = "SCH_THEATER"
  BY <1>1, <1>2 DEF S!States, S!Steps, ScheduleInv, FormTyped, ScheduleData, FormStraight
<1>4. CASE answers' = d /\ UNCHANGED clean /\ service.jump
           /\ S!ask_schedule_summary([service EXCEPT !.jump = FALSE], ok)
  BY <1>2, <1>3, <1>4, ThenKeeps
<1>5. CASE answers' = d /\ UNCHANGED clean /\ ~service.jump /\ S!ask_datetime(service)
  <2>1. service' \in ScheduleService /\ service'.id = service.id /\ ScreensFit'
    BY <1>2, <1>3, <1>5, AskKeeps DEF S!table
  <2>2. clean' => at' # "wiped" /\ FormStraight'
    BY <1>2, <1>3, <1>5, AskStraight
  <2> QED BY <1>2, <1>3, <1>5, <2>1, <2>2, NextKeeps
<1>6. ASSUME NEW f \in {"actual", "all"}, answers' = answers, clean' = FALSE,
             S!_render_theater_list([service EXCEPT !.filter = f])
      PROVE  ScheduleInv' /\ S!NoFailure
  <2>1. PICK svc : svc = [service EXCEPT !.filter = f]
    OBVIOUS
  <2>2. svc \in ScheduleService /\ svc.id = service.id
    BY <2>1, <1>3 DEF ScheduleService
  <2>3. service' \in ScheduleService /\ service'.id = service.id /\ ScreensFit'
    BY <1>2, <1>3, <1>6, <2>1, <2>2, AskKeeps DEF S!table
  <2> QED BY <1>2, <1>3, <1>6, <2>3, NextKeeps
<1> QED BY <1>2, <1>4, <1>5, <1>6

LEMMA DateNotedKeeps ==
    ASSUME ScheduleInv, S!handle_datetime_btn
    PROVE  ScheduleInv' /\ S!NoFailure
<1>1. /\ at = "SCH_DATETIME" /\ message.kind = "SCH_DATETIME" /\ answers' = answers
      /\ UNCHANGED <<clean, S!table>> /\ service' = [service EXCEPT !.temp = TRUE]
      /\ S!Note("SCH_DATETIME", S!Shown("time", "SCH_DATETIME"), TRUE)
  BY DEF S!handle_datetime_btn, S!Pressed, S!Unchanged
<1>2. at \in S!States /\ service \in ScheduleService /\ answers \in ScheduleData /\ ScreensFit
  BY <1>1 DEF S!States, S!Steps, ScheduleInv, FormTyped
<1>3. service' \in ScheduleService /\ service'.id = service.id
      /\ service'.known = service.known /\ service'.jump = service.jump
  BY <1>1, <1>2 DEF ScheduleService
<1>4. ScreensFit'
  BY <1>1, <1>2, PageFits DEF S!table
<1>5. at' = "SCH_DATETIME" /\ message'.kind = "time"
  BY <1>1 DEF S!Note, S!Show, S!Shown
<1>6. FormStraight'
  BY <1>1, <1>3, <1>5 DEF ScheduleInv, FormStraight, S!States, S!Steps
<1> QED BY <1>1, <1>2, <1>3, <1>4, <1>5, <1>6, NextKeeps

LEMMA DateKeeps ==
    ASSUME ScheduleInv, S!handle_datetime
    PROVE  ScheduleInv' /\ S!NoFailure
<1>1. PICK d, ok, svc : /\ d = [answers EXCEPT !.date = TRUE]
                        /\ svc = [service EXCEPT !.temp = FALSE]
                        /\ ok = (~TRUE \/ svc.known)
  OBVIOUS
<1>2. /\ at = "SCH_DATETIME" /\ UNCHANGED S!table
      /\ \/ /\ answers' = d /\ UNCHANGED clean
            /\ IF svc.jump
               THEN S!ask_schedule_summary([svc EXCEPT !.jump = FALSE], ok)
               ELSE S!ask_qty_child(svc, svc.known)
         \/ /\ answers' = answers /\ clean' = FALSE /\ UNCHANGED service
            /\ \E scr : S!Note("SCH_DATETIME", scr, service.known)
  BY <1>1 DEF S!handle_datetime, S!ThenFrom, S!Again, S!Unchanged
<1>3. /\ at \in S!States /\ service \in ScheduleService /\ svc \in ScheduleService
      /\ svc.id = service.id /\ svc.known = service.known /\ svc.jump = service.jump
      /\ d \in ScheduleData /\ answers \in ScheduleData
      /\ d.free = answers.free /\ d.date /\ ScreensFit
      /\ clean => ok = TRUE /\ service.known = TRUE /\ message.kind \in {"SCH_DATETIME", "time"}
  BY <1>1, <1>2
  DEF S!States, S!Steps, ScheduleInv, FormTyped, ScheduleData, ScheduleService, FormStraight
<1>4. CASE answers' = d /\ UNCHANGED clean /\ svc.jump
           /\ S!ask_schedule_summary([svc EXCEPT !.jump = FALSE], ok)
  BY <1>2, <1>3, <1>4, ThenKeeps
<1>5. CASE answers' = d /\ UNCHANGED clean /\ ~svc.jump
           /\ S!ask_qty_child(svc, svc.known)
  <2>1. service' \in ScheduleService /\ service'.id = svc.id /\ ScreensFit'
    BY <1>2, <1>3, <1>5, AskKeeps DEF S!table
  <2>2. clean' => at' # "wiped" /\ FormStraight'
    BY <1>2, <1>3, <1>5, AskStraight
  <2> QED BY <1>2, <1>3, <1>5, <2>1, <2>2, NextKeeps
<1>6. ASSUME NEW scr, answers' = answers, clean' = FALSE, UNCHANGED service,
             S!Note("SCH_DATETIME", scr, service.known)
      PROVE  ScheduleInv' /\ S!NoFailure
  <2>1. ScreensFit'
    BY <1>2, <1>3, <1>6, PageFits DEF S!table
  <2> QED BY <1>2, <1>3, <1>6, <2>1, NextKeeps
<1> QED BY <1>2, <1>4, <1>5, <1>6

LEMMA QtyChildKeeps ==
    ASSUME ScheduleInv, S!handle_qty_child
    PROVE  ScheduleInv' /\ S!NoFailure
<1>1. PICK ok : ok = (~TRUE \/ service.known)
  OBVIOUS
<1>2. /\ at = "SCH_QTY_CHILD" /\ UNCHANGED S!table
      /\ \/ /\ UNCHANGED clean
            /\ \E n \in Seats : answers' = [answers EXCEPT !.qty = n]
            /\ IF service.jump
               THEN S!ask_schedule_summary([service EXCEPT !.jump = FALSE], ok)
               ELSE S!ask_qty_adult(service, service.known)
         \/ /\ answers' = answers /\ clean' = FALSE /\ UNCHANGED service
            /\ \E scr : S!Note("SCH_QTY_CHILD", scr, service.known)
  BY <1>1 DEF S!handle_qty_child, S!Then, S!ThenFrom, S!Again, S!Unchanged
<1>3. /\ at \in S!States /\ service \in ScheduleService
      /\ answers \in ScheduleData /\ ScreensFit
      /\ clean => ok = TRUE /\ service.known = TRUE /\ message.kind = "SCH_QTY_CHILD"
                  /\ answers.date
  BY <1>1, <1>2
  DEF S!States, S!Steps, ScheduleInv, FormTyped, ScheduleService, FormStraight
<1>4. ASSUME NEW n \in Seats, answers' = [answers EXCEPT !.qty = n], UNCHANGED clean,
             IF service.jump
             THEN S!ask_schedule_summary([service EXCEPT !.jump = FALSE], ok)
             ELSE S!ask_qty_adult(service, service.known)
      PROVE  ScheduleInv' /\ S!NoFailure
  <2>1. PICK d : d = [answers EXCEPT !.qty = n]
    OBVIOUS
  <2>2. d \in ScheduleData /\ d.free = answers.free /\ d.date = answers.date
    BY <1>3, <2>1, PartsAssumption DEF ScheduleData
  <2>3. CASE service.jump
    BY <1>2, <1>3, <1>4, <2>1, <2>2, <2>3, ThenKeeps
  <2>4. CASE ~service.jump
    <3>1. service' \in ScheduleService /\ service'.id = service.id /\ ScreensFit'
      BY <1>2, <1>3, <1>4, <2>4, AskKeeps DEF S!table
    <3>2. clean' => at' # "wiped" /\ FormStraight'
      BY <1>2, <1>3, <1>4, <2>1, <2>2, <2>4, AskStraight
    <3> QED BY <1>2, <1>3, <1>4, <2>1, <2>2, <3>1, <3>2, NextKeeps
  <2> QED BY <2>3, <2>4
<1>5. ASSUME NEW scr, answers' = answers, clean' = FALSE, UNCHANGED service,
             S!Note("SCH_QTY_CHILD", scr, service.known)
      PROVE  ScheduleInv' /\ S!NoFailure
  <2>1. ScreensFit'
    BY <1>2, <1>3, <1>5, PageFits DEF S!table
  <2> QED BY <1>2, <1>3, <1>5, <2>1, NextKeeps
<1> QED BY <1>2, <1>4, <1>5

LEMMA QtyAdultKeeps ==
    ASSUME ScheduleInv, S!handle_qty_adult
    PROVE  ScheduleInv' /\ S!NoFailure
<1>1. PICK ok : ok = (~TRUE \/ service.known)
  OBVIOUS
<1>2. /\ at = "SCH_QTY_ADULT" /\ UNCHANGED S!table /\ answers' = answers
      /\ \/ /\ UNCHANGED clean
            /\ IF service.jump
               THEN S!ask_schedule_summary([service EXCEPT !.jump = FALSE], ok)
               ELSE S!ask_price_type(service, service.known, TRUE)
         \/ /\ clean' = FALSE /\ UNCHANGED service
            /\ \E scr : S!Note("SCH_QTY_ADULT", scr, service.known)
  BY <1>1 DEF S!handle_qty_adult, S!Then, S!ThenFrom, S!Again, S!Unchanged
<1>3. /\ at \in S!States /\ service \in ScheduleService
      /\ answers \in ScheduleData /\ ScreensFit
      /\ clean => ok = TRUE /\ service.known = TRUE /\ message.kind = "SCH_QTY_ADULT"
                  /\ answers.date
  BY <1>1, <1>2
  DEF S!States, S!Steps, ScheduleInv, FormTyped, ScheduleService, FormStraight
<1>4. CASE UNCHANGED clean /\ service.jump
           /\ S!ask_schedule_summary([service EXCEPT !.jump = FALSE], ok)
  BY <1>2, <1>3, <1>4, ThenKeeps
<1>5. CASE UNCHANGED clean /\ ~service.jump
           /\ S!ask_price_type(service, service.known, TRUE)
  <2>1. service' \in ScheduleService /\ service'.id = service.id /\ ScreensFit'
    BY <1>2, <1>3, <1>5, AskKeeps DEF S!table
  <2>2. clean' => at' # "wiped" /\ FormStraight'
    BY <1>2, <1>3, <1>5, AskStraight
  <2> QED BY <1>2, <1>3, <1>5, <2>1, <2>2, NextKeeps
<1>6. ASSUME NEW scr, clean' = FALSE, UNCHANGED service,
             S!Note("SCH_QTY_ADULT", scr, service.known)
      PROVE  ScheduleInv' /\ S!NoFailure
  <2>1. ScreensFit'
    BY <1>2, <1>3, <1>6, PageFits DEF S!table
  <2> QED BY <1>2, <1>3, <1>6, <2>1, NextKeeps
<1> QED BY <1>2, <1>4, <1>5, <1>6

\* Once the list of prices is there, the form knows its message again.
LEMMA PriceKeeps ==
    ASSUME ScheduleInv, S!handle_price_type
    PROVE  ScheduleInv' /\ S!NoFailure
<1>1. PICK ok : ok = (~FALSE \/ service.known)
  OBVIOUS
<1>2. /\ at = "SCH_PRICE_TYPE" /\ UNCHANGED <<S!table, clean>> /\ answers' = answers
      /\ IF service.jump
         THEN S!ask_schedule_summary([service EXCEPT !.jump = FALSE], ok)
         ELSE S!ask_flags(service)
  BY <1>1 DEF S!handle_price_type, S!Then, S!ThenFrom, S!Pressed, S!Unchanged
<1>3. /\ at \in S!States /\ service \in ScheduleService
      /\ answers \in ScheduleData /\ ScreensFit
      /\ clean => ok = TRUE /\ message.kind = "SCH_PRICE_TYPE" /\ answers.date
  BY <1>1, <1>2
  DEF S!States, S!Steps, ScheduleInv, FormTyped, ScheduleService, FormStraight
<1>4. CASE ~service.jump
  <2>1. service' \in ScheduleService /\ service'.id = service.id /\ ScreensFit'
    BY <1>2, <1>3, <1>4, AskKeeps DEF S!table
  <2>2. clean => at' = "SCH_FLAGS" /\ FormStraight'
    BY <1>2, <1>3, <1>4
    DEF S!ask_flags, FormStraight, S!Page, S!Enter, S!Question, S!Shown, S!WithMarks,
        ScheduleService, ScheduleData
  <2> QED BY <1>2, <1>3, <2>1, <2>2, NextKeeps
<1>5. CASE service.jump
  <2>1. clean => service.known
    BY <1>2, <1>3, <1>5 DEF ScheduleInv, FormStraight
  <2> QED BY <1>2, <1>3, <1>5, <2>1, ThenKeeps
<1> QED BY <1>4, <1>5

\* A flag is pressed, or the question is done.
LEMMA FlagsKeep ==
    ASSUME ScheduleInv, S!handle_flags
    PROVE  ScheduleInv' /\ S!NoFailure
<1>1. /\ at = "SCH_FLAGS" /\ UNCHANGED <<S!table, clean>>
      /\ \/ answers' = [answers EXCEPT !.santa = ~@] /\ S!ask_flags(service)
         \/ answers' = answers /\ S!ask_schedule_summary(service, TRUE)
         \/ answers' = answers /\ S!ask_base_tickets(service)
  BY DEF S!handle_flags, S!Pressed, S!Unchanged
<1>2. /\ at \in S!States /\ service \in ScheduleService
      /\ answers \in ScheduleData /\ ScreensFit
      /\ clean => service.known /\ message.kind = "SCH_FLAGS" /\ answers.date
                  /\ message.shows = S!If(answers.santa, "santa")
  BY <1>1 DEF S!States, S!Steps, ScheduleInv, FormTyped, ScheduleService, FormStraight
<1>3. /\ answers' \in ScheduleData /\ answers'.free = answers.free
      /\ answers'.date = answers.date
  BY <1>1, <1>2 DEF ScheduleData
<1>4. service' \in ScheduleService /\ service'.id = service.id /\ ScreensFit'
  <2>1. PICK ok : ok = TRUE
    OBVIOUS
  <2>2. S!ask_flags(service) \/ S!ask_schedule_summary(service, ok) \/ S!ask_base_tickets(service)
    BY <1>1, <2>1
  <2> QED BY <1>1, <1>2, <2>2, AskKeeps DEF S!table
<1>5. ASSUME clean PROVE at' # "wiped" /\ FormStraight'
  <2>1. CASE answers' = [answers EXCEPT !.santa = ~@] /\ S!ask_flags(service)
    <3>1. message.shows # S!If(answers'.santa, "santa")
      BY <1>2, <1>5, <2>1 DEF S!If, ScheduleData
    <3> QED BY <1>2, <1>3, <1>5, <2>1, <3>1, MarksStraight
  <2>2. CASE S!ask_schedule_summary(service, TRUE)
    BY <1>2, <1>3, <1>5, <2>2, MarksStraight
  <2>3. CASE S!ask_base_tickets(service)
    BY <1>2, <1>3, <1>5, <2>3, AskStraight
  <2> QED BY <1>1, <2>1, <2>2, <2>3
<1> QED BY <1>1, <1>2, <1>3, <1>4, <1>5, NextKeeps

\* A ticket is marked, the page is pressed again, or the question is done.
LEMMA TicketsKeep ==
    ASSUME ScheduleInv, S!handle_base_tickets_cb
    PROVE  ScheduleInv' /\ S!NoFailure
<1>1. /\ at = "SCH_BT_SELECT" /\ UNCHANGED S!table
      /\ \/ /\ answers' = [answers EXCEPT !.tickets = ~@] /\ UNCHANGED <<clean, service>>
            /\ S!Note("SCH_BT_SELECT", S!_render_multi_select, TRUE)
         \/ /\ answers' = answers /\ clean' = FALSE /\ UNCHANGED service
            /\ S!Note("SCH_BT_SELECT", S!_render_multi_select, TRUE)
         \/ /\ UNCHANGED clean /\ answers' \in {answers, [answers EXCEPT !.tickets = FALSE]}
            /\ S!ask_schedule_summary(service, TRUE) \/ S!ask_summary(service)
  BY DEF S!handle_base_tickets_cb, S!Again, S!Pressed, S!Unchanged
<1>2. /\ at \in S!States /\ service \in ScheduleService
      /\ answers \in ScheduleData /\ ScreensFit
      /\ clean => service.known /\ message.kind = "SCH_BT_SELECT" /\ answers.date
                  /\ message.shows = S!If(answers.tickets, "marked")
  BY <1>1 DEF S!States, S!Steps, ScheduleInv, FormTyped, ScheduleService, FormStraight
<1>3. /\ answers' \in ScheduleData /\ answers'.free = answers.free
      /\ answers'.date = answers.date
  BY <1>1, <1>2 DEF ScheduleData
<1>4. ASSUME UNCHANGED service, S!Note("SCH_BT_SELECT", S!_render_multi_select, TRUE),
             \/ clean' = FALSE
             \/ answers' = [answers EXCEPT !.tickets = ~@] /\ UNCHANGED clean
      PROVE  ScheduleInv' /\ S!NoFailure
  <2>1. ScreensFit'
    BY <1>1, <1>2, <1>4, PageFits DEF S!table
  <2>2. ASSUME clean' PROVE at' # "wiped" /\ FormStraight'
    <3>1. clean /\ answers'.tickets = ~answers.tickets
      BY <1>2, <1>4, <2>2 DEF ScheduleData
    <3>2. message # S!_render_multi_select
      BY <1>2, <3>1 DEF S!_render_multi_select, S!WithMarks, S!Question, S!Shown, S!If, ScheduleData
    <3>3. at' = "SCH_BT_SELECT" /\ message' = S!_render_multi_select
      BY <1>4, <3>2 DEF S!Note, S!Show
    <3>4. /\ message'.kind = "SCH_BT_SELECT"
          /\ message'.shows = S!If(answers'.tickets, "marked")
      BY <3>3 DEF S!_render_multi_select, S!WithMarks, S!Question, S!Shown
    <3> QED BY <1>2, <1>3, <1>4, <3>1, <3>3, <3>4 DEF FormStraight
  <2> QED BY <1>1, <1>2, <1>3, <1>4, <2>1, <2>2, NextKeeps
<1>5. CASE UNCHANGED clean /\ (S!ask_schedule_summary(service, TRUE) \/ S!ask_summary(service))
  <2>1. service' \in ScheduleService /\ service'.id = service.id /\ ScreensFit'
    <3>1. PICK ok : ok = TRUE
      OBVIOUS
    <3>2. S!ask_schedule_summary(service, ok) \/ S!ask_summary(service)
      BY <1>5, <3>1
    <3> QED BY <1>1, <1>2, <3>2, AskKeeps DEF S!table
  <2>2. clean' => at' # "wiped" /\ FormStraight'
    BY <1>2, <1>3, <1>5, AskStraight, MarksStraight
  <2> QED BY <1>1, <1>2, <1>3, <1>5, <2>1, <2>2, NextKeeps
<1> QED BY <1>1, <1>4, <1>5

\* A question is put again from the summary.
LEMMA ScheduleEditKeeps ==
    ASSUME ScheduleInv,
           \/ S!edit_type_start \/ S!edit_theater_start \/ S!edit_datetime_start
           \/ S!edit_qty_child_start \/ S!edit_qty_adult_start \/ S!edit_price_type_start
           \/ S!edit_flags_start \/ S!edit_bt_start
    PROVE  ScheduleInv' /\ S!NoFailure
<1>1. PICK svc, ok, typed : svc = [service EXCEPT !.jump = TRUE] /\ ok = TRUE /\ typed = FALSE
  OBVIOUS
<1>2. /\ at = "SCH_CONFIRM" /\ message.kind = "SCH_CONFIRM"
      /\ answers' = answers /\ UNCHANGED <<S!table, clean>>
      /\ \/ S!ask_type_event(svc) \/ S!_render_theater_list(svc) \/ S!ask_datetime(svc)
         \/ S!ask_qty_child(svc, ok) \/ S!ask_qty_adult(svc, ok)
         \/ S!ask_price_type(svc, ok, typed) \/ S!ask_flags(svc) \/ S!ask_base_tickets(svc)
  BY <1>1 DEF S!edit_type_start, S!edit_theater_start, S!edit_datetime_start,
     S!edit_qty_child_start, S!edit_qty_adult_start, S!edit_price_type_start,
     S!edit_flags_start, S!edit_bt_start, S!Edit, S!Jump, S!Pressed, S!Unchanged
<1>3. /\ at \in S!States /\ svc \in ScheduleService /\ svc.id = service.id
      /\ answers \in ScheduleData /\ ScreensFit /\ typed \in BOOLEAN
      /\ clean => svc.known /\ answers.date
  BY <1>1, <1>2
  DEF S!States, S!Steps, ScheduleInv, FormTyped, ScheduleService, FormStraight
<1>4. service' \in ScheduleService /\ service'.id = service.id /\ ScreensFit'
  BY <1>2, <1>3, AskKeeps DEF S!table
<1>5. ASSUME clean PROVE at' # "wiped" /\ FormStraight'
  <2>1. \/ S!ask_type_event(svc) \/ S!_render_theater_list(svc) \/ S!ask_datetime(svc)
        \/ S!ask_qty_child(svc, TRUE) \/ S!ask_qty_adult(svc, TRUE)
        \/ S!ask_price_type(svc, TRUE, FALSE) \/ S!ask_flags(svc) \/ S!ask_base_tickets(svc)
    BY <1>1, <1>2
  <2>2. CASE S!ask_flags(svc)
    BY <1>2, <1>3, <1>5, <2>2, MarksStraight
  <2>3. CASE S!ask_price_type(svc, TRUE, FALSE)
    BY <1>2, <1>3, <1>5, <2>3, AskStraight
  <2> QED BY <1>2, <1>3, <1>5, <2>1, <2>2, <2>3, AskStraight
<1> QED BY <1>2, <1>3, <1>4, <1>5, NextKeeps

LEMMA TurnKeeps ==
    ASSUME ScheduleInv, S!edit_turn_start
    PROVE  ScheduleInv' /\ S!NoFailure
<1>1. /\ at = "SCH_CONFIRM" /\ message.kind = "SCH_CONFIRM"
      /\ answers' = [answers EXCEPT !.on = ~@] /\ UNCHANGED <<S!table, clean>>
      /\ S!ask_schedule_summary(service, TRUE)
  BY DEF S!edit_turn_start, S!Edit, S!Pressed, S!Unchanged
<1>2. /\ at \in S!States /\ service \in ScheduleService
      /\ answers \in ScheduleData /\ ScreensFit
      /\ clean => service.known /\ answers.date /\ message.shows = S!If(answers.on, "on")
  BY <1>1 DEF S!States, S!Steps, ScheduleInv, FormTyped, ScheduleService, FormStraight
<1>3. /\ answers' \in ScheduleData /\ answers'.free = answers.free
      /\ answers'.date = answers.date /\ answers'.on = ~answers.on
  BY <1>1, <1>2 DEF ScheduleData
<1>4. service' \in ScheduleService /\ service'.id = service.id /\ ScreensFit'
  <2>1. PICK ok : ok = TRUE
    OBVIOUS
  <2>2. S!ask_schedule_summary(service, ok)
    BY <1>1, <2>1
  <2> QED BY <1>1, <1>2, <2>2, AskKeeps DEF S!table
<1>5. ASSUME clean PROVE at' # "wiped" /\ FormStraight'
  <2>1. message.shows # S!If(answers'.on, "on")
    BY <1>2, <1>3, <1>5 DEF S!If, ScheduleData
  <2> QED BY <1>1, <1>2, <1>3, <1>5, <2>1, MarksStraight
<1> QED BY <1>1, <1>2, <1>3, <1>4, <1>5, NextKeeps

-----------------------------------------------------------------------------
\* Opening a form: everything it will write back is loaded.
LEMMA CreateStartKeeps ==
    ASSUME ScheduleInv, S!schedule_create_start
    PROVE  ScheduleInv' /\ S!NoFailure
<1>1. /\ at = "3" /\ message.kind = "schedule_event" /\ answers' = S!NoData
      /\ UNCHANGED S!table /\ S!ask_type_event(S!NoService)
  BY DEF S!schedule_create_start, S!Unchanged
<1>2. /\ S!NoData \in ScheduleData /\ S!NoService \in ScheduleService
      /\ S!NoService.id = S!New /\ S!NoService.known /\ ~S!NoService.jump
  BY DEF S!NoData, S!NoService, ScheduleData, ScheduleService
<1>3. service' \in ScheduleService /\ service'.id = S!New /\ ScreensFit'
  BY <1>1, <1>2, AskKeeps DEF ScheduleInv, S!table
<1>4. FormStraight'
  BY <1>1, <1>2, AskStraight
<1>5. TableTyped' /\ S!FreeSeatsKept' /\ LoadedIsFree' /\ FormTyped'
  BY <1>1, <1>2, <1>3
  DEF ScheduleInv, TableTyped, S!FreeSeatsKept, S!table, LoadedIsFree, FormTyped
<1>6. S!NoFailure
  BY <1>1 DEF S!NoFailure, S!States, S!Steps
<1> QED BY <1>3, <1>4, <1>5, <1>6 DEF ScheduleInv

LEMMA UpdateStartKeeps ==
    ASSUME ScheduleInv, S!schedule_update_start
    PROVE  ScheduleInv' /\ S!NoFailure
<1>1. PICK e \in message.shows :
        /\ at = "3" /\ message.kind = "schedule_event" /\ UNCHANGED S!table
        /\ answers' = [S!NoData EXCEPT !.type = TRUE, !.play = TRUE, !.date = TRUE,
                                       !.qty = rows[e].qty, !.free = rows[e].free]
        /\ S!ask_schedule_summary([S!NoService EXCEPT !.id = e], TRUE)
  BY DEF S!schedule_update_start, S!Unchanged
<1>2. PICK svc, ok : svc = [S!NoService EXCEPT !.id = e] /\ ok = TRUE
  OBVIOUS
<1>3. S!ask_schedule_summary(svc, ok)
  BY <1>1, <1>2
<1>4. e \in DOMAIN rows /\ e \in Events
  BY <1>1 DEF ScheduleInv, ScreensFit, ScreenFits, TableTyped
<1>5. rows[e].qty \in Nat /\ rows[e].free \in Int
  BY <1>4 DEF ScheduleInv, TableTyped
<1>6. /\ answers' \in ScheduleData /\ answers'.free = rows[e].free /\ answers'.date
      /\ svc \in ScheduleService /\ svc.id = e /\ svc.known
  BY <1>1, <1>2, <1>4, <1>5 DEF S!NoData, S!NoService, ScheduleData, ScheduleService
<1>7. service' \in ScheduleService /\ service'.id = e /\ ScreensFit'
  BY <1>1, <1>3, <1>6, AskKeeps DEF ScheduleInv, S!table
<1>8. FormStraight'
  <2>1. S!ask_schedule_summary(svc, TRUE)
    BY <1>1, <1>2
  <2> QED BY <1>1, <1>6, <2>1, MarksStraight
<1>9. TableTyped' /\ S!FreeSeatsKept' /\ LoadedIsFree' /\ FormTyped'
  BY <1>1, <1>6, <1>7
  DEF ScheduleInv, TableTyped, S!FreeSeatsKept, S!table, LoadedIsFree, FormTyped
<1>10. S!NoFailure
  BY <1>1 DEF S!NoFailure, S!States, S!Steps
<1> QED BY <1>7, <1>8, <1>9, <1>10 DEF ScheduleInv

\* What is saved is what was loaded, or a showing that has no booking yet.
LEMMA ScheduleSaveKeeps ==
    ASSUME ScheduleInv, S!handle_confirm_save
    PROVE  ScheduleInv' /\ S!NoFailure
<1>1. at = "SCH_CONFIRM" /\ UNCHANGED <<answers, service, clean, taken, busy>>
  BY DEF S!handle_confirm_save
<1>2. at \in S!States /\ answers \in ScheduleData /\ service \in ScheduleService
  BY <1>1 DEF S!States, S!Steps, ScheduleInv, FormTyped
<1>3. answers.qty \in Nat /\ answers.free \in Int
  BY <1>2 DEF ScheduleData
<1>4. CASE UNCHANGED <<S!menu, dels, rows, opened>>
  BY <1>1, <1>4 DEF ScheduleInv, S!menu, FormTyped, TableTyped, ScreensFit, LoadedIsFree,
     FormStraight, S!FreeSeatsKept, S!NoFailure, S!States, S!Steps
<1>5. CASE S!db /\ service.id = S!New /\ S!create_schedule_event
  <2>1. PICK e \in Events \ DOMAIN rows :
          /\ rows' = S!With(rows, e, [qty |-> answers.qty, free |-> answers.qty])
          /\ opened' = S!With(opened, e, answers.qty)
    BY <1>5 DEF S!create_schedule_event
  <2>2. /\ DOMAIN rows' = DOMAIN rows \cup {e} /\ DOMAIN opened' = DOMAIN rows \cup {e}
        /\ rows'[e] = [qty |-> answers.qty, free |-> answers.qty] /\ opened'[e] = answers.qty
        /\ \A x \in DOMAIN rows : rows'[x] = rows[x] /\ opened'[x] = opened[x]
    BY <2>1 DEF S!With, ScheduleInv, TableTyped
  <2>3. TableTyped'
    <3>1. rows' \in [DOMAIN rows' -> [qty : Nat, free : Int]]
      BY <1>3, <2>1, <2>2 DEF S!With, ScheduleInv, TableTyped
    <3>2. opened' \in [DOMAIN rows' -> Nat]
      BY <1>3, <2>1, <2>2 DEF S!With, ScheduleInv, TableTyped
    <3> QED BY <1>1, <2>2, <3>1, <3>2 DEF ScheduleInv, TableTyped
  <2>4. S!FreeSeatsKept'
    <3>1. taken[e] = 0
      BY DEF ScheduleInv, TableTyped
    <3> QED BY <1>1, <1>3, <2>2, <3>1 DEF ScheduleInv, S!FreeSeatsKept
  <2>5. ScreensFit'
    <3>1. ScreenFits("2", S!Shown("db", "1"), DOMAIN rows')
      BY DEF ScreenFits, S!Shown, S!States, S!Steps
    <3> QED BY <1>5, <2>2, <3>1, ScreensStayFit DEF S!db, ScheduleInv
  <2>6. at' = "2" /\ "2" \notin S!States
    BY <1>5 DEF S!db, S!Enter, S!States, S!Steps
  <2> QED BY <1>1, <1>2, <2>3, <2>4, <2>5, <2>6
      DEF ScheduleInv, FormTyped, LoadedIsFree, FormStraight, S!NoFailure
<1>6. CASE S!db /\ service.id # S!New /\ S!update_schedule_event
  <2>1. /\ rows' = [rows EXCEPT ![service.id] = [qty |-> answers.qty, free |-> answers.free]]
        /\ UNCHANGED opened
    BY <1>6 DEF S!update_schedule_event
  <2>2. DOMAIN rows' = DOMAIN rows
    BY <2>1
  <2>3. TableTyped'
    BY <1>1, <1>3, <2>1, <2>2 DEF ScheduleInv, TableTyped
  <2>4. S!FreeSeatsKept'
    <3>1. ASSUME NEW e \in DOMAIN rows \ busy PROVE rows'[e].free = opened[e] - taken[e]
      <4>1. rows'[e].free = rows[e].free
        BY <1>2, <1>6, <2>1 DEF ScheduleInv, LoadedIsFree
      <4> QED BY <4>1 DEF ScheduleInv, S!FreeSeatsKept
    <3> QED BY <1>1, <2>1, <2>2, <3>1 DEF S!FreeSeatsKept
  <2>5. ScreensFit'
    <3>1. ScreenFits("2", S!Shown("db", "1"), DOMAIN rows')
      BY DEF ScreenFits, S!Shown, S!States, S!Steps
    <3> QED BY <1>6, <2>2, <3>1, ScreensStayFit DEF S!db, ScheduleInv
  <2>6. at' = "2" /\ "2" \notin S!States
    BY <1>6 DEF S!db, S!Enter, S!States, S!Steps
  <2> QED BY <1>1, <1>2, <2>3, <2>4, <2>5, <2>6
      DEF ScheduleInv, FormTyped, LoadedIsFree, FormStraight, S!NoFailure
<1> QED BY <1>4, <1>5, <1>6 DEF S!handle_confirm_save

\* A seat is booked or released: on a showing whose form is open, it is noted.
LEMMA SeatsKeep ==
    ASSUME ScheduleInv, NEW e \in DOMAIN rows, S!change_seats(e)
    PROVE  ScheduleInv' /\ S!NoFailure
<1>1. UNCHANGED <<at, message, saved, answers, service, dels, clean, opened>> /\ S!Touched(e)
  BY DEF S!change_seats, S!menu, S!own
<1>2. e \in Events /\ rows[e] \in [qty : Nat, free : Int] /\ taken[e] \in Nat
      /\ opened[e] \in Nat
  BY DEF ScheduleInv, TableTyped
<1>3. \/ rows' = [rows EXCEPT ![e].free = @ - 1] /\ taken' = [taken EXCEPT ![e] = @ + 1]
      \/ /\ rows' = [rows EXCEPT ![e].free = @ + 1] /\ taken[e] > 0
         /\ taken' = [taken EXCEPT ![e] = @ - 1]
  BY DEF S!change_seats
<1>4. /\ DOMAIN rows' = DOMAIN rows
      /\ \A x \in DOMAIN rows \ {e} : rows'[x] = rows[x]
      /\ \A x \in Events \ {e} : taken'[x] = taken[x]
      /\ rows'[e].free + taken'[e] = rows[e].free + taken[e]
      /\ rows' \in [DOMAIN rows -> [qty : Nat, free : Int]] /\ taken' \in [Events -> Nat]
  <2>1. rows \in [DOMAIN rows -> [qty : Nat, free : Int]] /\ taken \in [Events -> Nat]
    BY DEF ScheduleInv, TableTyped
  <2>2. PICK m \in Int, n \in Nat :
          /\ rows' = [rows EXCEPT ![e] = [rows[e] EXCEPT !.free = m]]
          /\ taken' = [taken EXCEPT ![e] = n] /\ m + n = rows[e].free + taken[e]
    <3>1. CASE rows' = [rows EXCEPT ![e].free = @ - 1] /\ taken' = [taken EXCEPT ![e] = @ + 1]
      <4>1. rows[e].free - 1 \in Int /\ taken[e] + 1 \in Nat
            /\ (rows[e].free - 1) + (taken[e] + 1) = rows[e].free + taken[e]
        BY <1>2
      <4> QED BY <3>1, <4>1
    <3>2. CASE rows' = [rows EXCEPT ![e].free = @ + 1] /\ taken[e] > 0
               /\ taken' = [taken EXCEPT ![e] = @ - 1]
      <4>1. rows[e].free + 1 \in Int /\ taken[e] - 1 \in Nat
            /\ (rows[e].free + 1) + (taken[e] - 1) = rows[e].free + taken[e]
        BY <1>2, <3>2
      <4> QED BY <3>2, <4>1
    <3> QED BY <1>3, <3>1, <3>2
  <2>3. rows'[e].free = m /\ rows'[e] \in [qty : Nat, free : Int] /\ taken'[e] = n
    BY <1>2, <2>1, <2>2
  <2> QED BY <1>2, <2>1, <2>2, <2>3
<1>5. TableTyped'
  BY <1>1, <1>2, <1>3, <1>4 DEF ScheduleInv, TableTyped
<1>6. busy \subseteq busy' /\ (at \in S!States /\ service.id = e => e \in busy')
  BY <1>1 DEF S!Touched
<1>7. S!FreeSeatsKept'
  <2>1. ASSUME NEW x \in DOMAIN rows \ busy' PROVE rows'[x].free = opened[x] - taken'[x]
    <3>1. rows[x].free = opened[x] - taken[x]
      BY <1>6 DEF ScheduleInv, S!FreeSeatsKept
    <3>2. x \in Events
      BY DEF ScheduleInv, TableTyped
    <3> QED BY <1>2, <1>4, <3>1, <3>2
  <2> QED BY <1>1, <1>4, <2>1 DEF S!FreeSeatsKept
<1>8. LoadedIsFree'
  BY <1>1, <1>4, <1>6 DEF ScheduleInv, LoadedIsFree
<1>9. ScreensFit' /\ FormTyped' /\ FormStraight'
  BY <1>1, <1>4 DEF ScheduleInv, ScreensFit, FormTyped, FormStraight
<1>10. ASSUME at \in S!States PROVE at # "wiped"
  BY <1>10 DEF S!States, S!Steps
<1>11. S!NoFailure
  BY <1>1, <1>10 DEF S!NoFailure
<1> QED BY <1>5, <1>7, <1>8, <1>9, <1>11 DEF ScheduleInv

\* Outside of a form: nothing is loaded, so nothing has to be right.
LEMMA OutsideKeeps ==
    ASSUME ScheduleInv, UNCHANGED <<answers, service, clean, S!table>>,
           at' \notin S!States, ScreensFit', at' # "wiped" \/ at \notin S!States
    PROVE  ScheduleInv' /\ S!NoFailure
BY DEF ScheduleInv, FormTyped, TableTyped, LoadedIsFree, FormStraight, S!table,
       S!FreeSeatsKept, S!NoFailure

LEMMA ListsKeep ==
    ASSUME ScheduleInv, UNCHANGED <<answers, service, clean, S!table>>,
           NEW list, NEW ids \in SUBSET DOMAIN rows,
           \/ S!get_settings(list, ids) \/ S!select_again(list, ids) \/ S!choose_filter(ids)
    PROVE  ScheduleInv' /\ S!NoFailure
<1>1. PICK name : S!Enter("3", [S!Shown(name, "2") EXCEPT !.shows = ids])
  BY DEF S!get_settings, S!select_again, S!choose_filter, S!_paginated_select
<1>2. PICK scr : scr = [S!Shown(name, "2") EXCEPT !.shows = ids]
  OBVIOUS
<1>3. ScreenFits("3", scr, DOMAIN rows') /\ "3" \notin S!States
  BY <1>2 DEF ScreenFits, S!Shown, S!States, S!Steps, S!table
<1>4. ScreensFit'
  BY <1>1, <1>2, <1>3, ScreensStayFit DEF ScheduleInv, S!table
<1>5. at' = "3"
  BY <1>1 DEF S!Enter
<1> QED BY <1>3, <1>4, <1>5, OutsideKeeps

LEMMA ScheduleMenusKeep ==
    ASSUME ScheduleInv, S!Menu
    PROVE  ScheduleInv' /\ S!NoFailure
<1>1. UNCHANGED <<answers, service, clean, S!table>>
  BY DEF S!Menu, S!Unchanged
<1>2. CASE S!start_settings
  <2>1. at' = "1" /\ "1" \notin S!States /\ message' = S!Shown("start", "none")
        /\ \A s \in DOMAIN saved' : s = "1" /\ saved'[s] = message'
    BY <1>2 DEF S!start_settings, S!With, S!States, S!Steps, S!NoBack
  <2>2. ScreensFit'
    BY <2>1 DEF ScreensFit, ScreenFits, S!Shown, S!States, S!Steps
  <2> QED BY <1>1, <2>1, <2>2, OutsideKeeps
<1>3. CASE S!get_updates_option
  <2>1. at' = "updates" /\ "updates" \notin S!States /\ message' = S!Shown("updates", "1")
        /\ \A s \in DOMAIN saved' : \/ s = "UPDATES" /\ saved'[s] = message'
                                    \/ s \in DOMAIN saved /\ saved'[s] = saved[s]
    BY <1>3 DEF S!get_updates_option, S!With, S!States, S!Steps
  <2>2. ScreensFit'
    BY <1>1, <2>1 DEF ScreensFit, ScreenFits, S!Shown, S!States, S!Steps, ScheduleInv, S!table
  <2> QED BY <1>1, <2>1, <2>2, OutsideKeeps
<1>4. CASE S!theater_event_create
  <2>1. at = "41" /\ at' = "wiped" /\ message'.back = "none" /\ DOMAIN saved' = {}
    BY <1>4 DEF S!theater_event_create, S!Blank, S!Shown, S!NoBack
  <2>2. ScreensFit' /\ at \notin S!States /\ at' \notin S!States
    BY <2>1 DEF ScreensFit, ScreenFits, S!States, S!Steps
  <2> QED BY <1>1, <2>2, OutsideKeeps
<1>5. ASSUME \/ S!theater_event_select \/ S!base_ticket_select \/ S!event_type_select
      PROVE  ScheduleInv' /\ S!NoFailure
  <2>1. \E list : S!get_settings(list, {}) \/ S!select_again(list, {})
    BY <1>5 DEF S!theater_event_select, S!base_ticket_select, S!event_type_select
  <2> QED BY <1>1, <2>1, ListsKeep
<1>6. ASSUME NEW s \in {"2", "3", "41", "idle"}, NEW kind, NEW target \in {"none", "1", "3"},
             S!Enter(s, S!Shown(kind, target)) \/ S!Show(s, S!Shown(kind, target))
      PROVE  ScheduleInv' /\ S!NoFailure
  <2>1. ScreenFits(s, S!Shown(kind, target), DOMAIN rows') /\ s \notin S!States
    BY <1>6 DEF ScreenFits, S!Shown, S!States, S!Steps
  <2>2. ScreensFit'
    BY <1>1, <1>6, <2>1, ScreensStayFit DEF ScheduleInv, S!table
  <2>3. at' = s /\ s # "wiped"
    BY <1>6 DEF S!Enter, S!Show
  <2> QED BY <1>1, <2>1, <2>2, <2>3, OutsideKeeps
<1>7. CASE S!choice_db_settings
  BY <1>6, <1>7 DEF S!choice_db_settings, S!db
<1>8. CASE S!filter_menu \/ S!update_start_later
  BY <1>6, <1>8 DEF S!filter_menu, S!update_start_later
<1>9. CASE S!theater_event_preview \/ S!theater_event_check \/ S!cancel
  BY <1>6, <1>9 DEF S!theater_event_preview, S!theater_event_check, S!cancel, S!Blank,
     S!NoBack, S!Show
<1> QED BY <1>2, <1>3, <1>4, <1>5, <1>7, <1>8, <1>9 DEF S!Menu, S!Entered

\* A step back leads into a form only from within it.
LEMMA ScheduleBackKeeps ==
    ASSUME ScheduleInv, S!Back
    PROVE  ScheduleInv' /\ S!NoFailure
<1>1. /\ UNCHANGED <<answers, saved, S!table>> /\ clean' = FALSE
      /\ at' = message.back /\ message' = saved[message.back] /\ message.back \in DOMAIN saved
      /\ service' = [service EXCEPT !.known = FALSE] \/ UNCHANGED service
  BY DEF S!Back, S!Unchanged, S!back, S!CanGoBack
<1>2. at' \in S!States => at \in S!States
  BY <1>1 DEF ScheduleInv, ScreensFit, ScreenFits
<1>3. service' \in ScheduleService /\ service'.id = service.id
  BY <1>1 DEF ScheduleInv, FormTyped, ScheduleService
<1>4. ScreensFit'
  BY <1>1 DEF ScheduleInv, ScreensFit, S!table
<1> QED BY <1>1, <1>2, <1>3, <1>4
    DEF ScheduleInv, FormTyped, TableTyped, LoadedIsFree, FormStraight, S!table,
        S!FreeSeatsKept, S!NoFailure

LEMMA ScheduleStep ==
    ASSUME ScheduleInv, [S!Next]_(S!vars)
    PROVE  ScheduleInv' /\ (S!NoFailure \/ UNCHANGED S!vars)
<1>1. CASE S!Menu
  BY <1>1, ScheduleMenusKeep
<1>2. CASE S!Back
  BY <1>2, ScheduleBackKeeps
<1>3. CASE S!Bookings
  BY <1>3, SeatsKeep DEF S!Bookings
<1>4. CASE S!schedule_event_select
  <2>1. PICK ids \in SUBSET DOMAIN rows :
          \/ S!get_settings("schedule_event", ids) \/ S!select_again("schedule_event", ids)
          \/ S!choose_filter(ids)
    BY <1>4 DEF S!schedule_event_select
  <2>2. UNCHANGED <<answers, service, clean, S!table>>
    BY <1>4 DEF S!schedule_event_select, S!Unchanged
  <2> QED BY <2>1, <2>2, ListsKeep
<1>5. CASE S!schedule_create_start \/ S!schedule_update_start
  BY <1>5, CreateStartKeeps, UpdateStartKeeps
<1>6. CASE \/ S!handle_type_selected \/ S!handle_theater_cb \/ S!handle_datetime_btn
           \/ S!handle_datetime \/ S!handle_qty_child \/ S!handle_qty_adult
  BY <1>6, ScheduleTypeKeeps, TheaterKeeps, DateNotedKeeps, DateKeeps, QtyChildKeeps, QtyAdultKeeps
<1>7. CASE S!handle_price_type \/ S!handle_flags \/ S!handle_base_tickets_cb
  BY <1>7, PriceKeeps, FlagsKeep, TicketsKeep
<1>8. CASE \/ S!edit_type_start \/ S!edit_theater_start \/ S!edit_datetime_start
           \/ S!edit_qty_child_start \/ S!edit_qty_adult_start \/ S!edit_price_type_start
           \/ S!edit_flags_start \/ S!edit_bt_start
  BY <1>8, ScheduleEditKeeps
<1>9. CASE S!edit_turn_start \/ S!handle_confirm_save
  BY <1>9, TurnKeeps, ScheduleSaveKeeps
<1>10. CASE UNCHANGED S!vars
  BY <1>10 DEF S!vars, S!menu, S!own, S!table, ScheduleInv, FormTyped, TableTyped, ScreensFit,
     LoadedIsFree, FormStraight, S!FreeSeatsKept
<1> QED BY <1>1, <1>2, <1>3, <1>4, <1>5, <1>6, <1>7, <1>8, <1>9, <1>10 DEF S!Next

-----------------------------------------------------------------------------
(* BirthdayOrder: an order fits.                                           *)
(*                                                                         *)
(* As long as no button of an earlier form was pressed, the only message   *)
(* of this form that has its buttons is the one that asks the question at  *)
(* hand, and it was made for the answers the form has: for the place when  *)
(* it offers formats, for the format when it offers numbers.  That is kept *)
(* for every question up to the one at hand, so that a step back comes to  *)
(* a message that is right again; what comes after it may be wrong, and is *)
(* asked anew.                                                             *)

Party ==
    [place : B!Places \cup {"none"}, address : {"none", "office", "typed"},
     format : B!Places \cup {"none"}, qty_child : {"none", "up to 10", "more"},
     note : BOOLEAN]

FromAdults == {"QTY_ADULT", "NAME_CHILD", "NAME", "PHONE", "NOTE", "CONFIRM"}
FromChildren == {"QTY_CHILD"} \cup FromAdults
FromFormat == {"FORMAT_BD"} \cup FromChildren
FromDate == {"DATE", "TIME", "CHOOSE", "AGE"} \cup FromFormat
Asked == {"PLACE", "ADDRESS"} \cup FromDate

Keyboards ==
    [q : Asked, for : B!Places \cup {"none"}, before : Asked \cup {"none"}, shown : Party,
     own : BOOLEAN, listed : BOOLEAN]

PartyTyped ==
    /\ bd \in Party /\ live \subseteq Keyboards /\ mixed \in BOOLEAN
    /\ DOMAIN saved \subseteq Asked /\ saved \in [DOMAIN saved -> Keyboards]
    /\ at \in {"END"} \cup Asked /\ (at # "END" => at \in DOMAIN saved)

\* What is behind a question: not one that comes after it.
IsBehind(p, q) ==
    CASE q = "PLACE" -> p = "none"
      [] q = "ADDRESS" -> p = "PLACE"
      [] q = "DATE" -> p \in {"PLACE", "ADDRESS"}
      [] q \in {"TIME", "CHOOSE", "AGE", "FORMAT_BD"} -> p \in FromDate \ FromFormat
      [] q = "QTY_CHILD" -> p = "FORMAT_BD"
      [] q = "QTY_ADULT" -> p = "QTY_CHILD"
      [] OTHER -> p \in FromAdults \ {"CONFIRM"}
Chained == \A q \in DOMAIN saved :
    saved[q].q = q /\ saved[q].own /\ IsBehind(saved[q].before, q)

\* The one message of this form with buttons asks the question at hand.
OwnAsksAtHand ==
    ~mixed => \A k \in live : k.own =>
        /\ \A l \in live : l.own => l = k
        /\ k.q = at /\ at \in DOMAIN saved
        /\ k = [saved[at] EXCEPT !.listed = k.listed]

AnswersFit ==
    ~mixed /\ at # "END" =>
        /\ at # "PLACE" => bd.place \in B!Places
        /\ at = "ADDRESS" => bd.place = "outside"
        /\ at \in FromDate =>
               /\ bd.address = (IF bd.place = "theatre" THEN "office" ELSE "typed")
               /\ "DATE" \in DOMAIN saved
               /\ saved["DATE"].before = "ADDRESS" => bd.place = "outside"
        /\ at \in FromFormat =>
               "FORMAT_BD" \in DOMAIN saved /\ saved["FORMAT_BD"].for = bd.place
        /\ at \in FromChildren =>
               /\ bd.format = bd.place
               /\ "QTY_CHILD" \in DOMAIN saved /\ saved["QTY_CHILD"].for = bd.format
        /\ at \in FromAdults /\ bd.qty_child = "more" => bd.format = "outside"
        /\ at = "CONFIRM" => saved["CONFIRM"].shown = bd

BirthdayInv == PartyTyped /\ Chained /\ OwnAsksAtHand /\ AnswersFit /\ B!OrderFits

LEMMA BirthdayInit == B!Init => BirthdayInv
<1> SUFFICES ASSUME B!Init PROVE BirthdayInv
  OBVIOUS
<1>1. DOMAIN saved = {} /\ at = "END" /\ live = {} /\ bd = B!Empty /\ mixed = FALSE /\ orders = {}
  BY DEF B!Init
<1>2. saved \in [DOMAIN saved -> Keyboards]
  BY DEF B!Init
<1>3. B!Empty \in Party
  BY DEF B!Empty, Party
<1> QED BY <1>1, <1>2, <1>3
    DEF BirthdayInv, PartyTyped, Chained, OwnAsksAtHand, AnswersFit, B!OrderFits

LEMMA KeyboardTyped ==
    ASSUME NEW q \in Asked, NEW for \in B!Places \cup {"none"}, NEW before \in Asked \cup {"none"}
    PROVE  /\ B!Kbd(q, for, before) \in Keyboards /\ B!Kbd(q, for, before).own
           /\ B!Kbd(q, for, before).q = q /\ B!Kbd(q, for, before).for = for
           /\ B!Kbd(q, for, before).before = before
BY DEF B!Kbd, B!Empty, Keyboards, Party

LEMMA SummaryTyped ==
    ASSUME NEW d \in Party
    PROVE  /\ B!Summary(d) \in Keyboards /\ B!Summary(d).own
           /\ B!Summary(d).q = "CONFIRM" /\ B!Summary(d).before = "NOTE"
           /\ B!Summary(d).shown = d
BY DEF B!Summary, B!Kbd, B!Empty, Keyboards, Party, Asked, FromDate, FromFormat, FromChildren,
   FromAdults

LEMMA ForgottenTyped ==
    ASSUME NEW ks \in SUBSET Keyboards
    PROVE  B!Forget(ks) \subseteq Keyboards /\ \A l \in B!Forget(ks) : ~l.own
BY DEF B!Forget, Keyboards

LEMMA NextQuestion ==
    /\ B!Next1("ADDRESS") = "DATE" /\ B!Next1("DATE") = "TIME" /\ B!Next1("TIME") = "CHOOSE"
    /\ B!Next1("CHOOSE") = "AGE" /\ B!Next1("AGE") = "FORMAT_BD"
    /\ B!Next1("QTY_CHILD") = "QTY_ADULT" /\ B!Next1("QTY_ADULT") = "NAME_CHILD"
    /\ B!Next1("NAME_CHILD") = "NAME" /\ B!Next1("NAME") = "PHONE" /\ B!Next1("PHONE") = "NOTE"
<1>1. ASSUME NEW n \in 1..14, NEW q, B!Questions[n] = q,
             \A j \in 1..14 : B!Questions[j] = q => j = n
      PROVE  B!Next1(q) = B!Questions[n + 1]
  <2>1. DOMAIN B!Questions = 1..14
    BY DEF B!Questions
  <2>2. (CHOOSE j \in DOMAIN B!Questions : B!Questions[j] = q) = n
    BY <1>1, <2>1
  <2> QED BY <2>2 DEF B!Next1
<1>2. B!Next1("ADDRESS") = B!Questions[3]
  BY <1>1 DEF B!Questions
<1>3. B!Next1("DATE") = B!Questions[4]
  BY <1>1 DEF B!Questions
<1>4. B!Next1("TIME") = B!Questions[5]
  BY <1>1 DEF B!Questions
<1>5. B!Next1("CHOOSE") = B!Questions[6]
  BY <1>1 DEF B!Questions
<1>6. B!Next1("AGE") = B!Questions[7]
  BY <1>1 DEF B!Questions
<1>7. B!Next1("QTY_CHILD") = B!Questions[9]
  BY <1>1 DEF B!Questions
<1>8. B!Next1("QTY_ADULT") = B!Questions[10]
  BY <1>1 DEF B!Questions
<1>9. B!Next1("NAME_CHILD") = B!Questions[11]
  BY <1>1 DEF B!Questions
<1>10. B!Next1("NAME") = B!Questions[12]
  BY <1>1 DEF B!Questions
<1>11. B!Next1("PHONE") = B!Questions[13]
  BY <1>1 DEF B!Questions
<1> QED BY <1>2, <1>3, <1>4, <1>5, <1>6, <1>7, <1>8, <1>9, <1>10, <1>11 DEF B!Questions

-----------------------------------------------------------------------------
(* A question is asked.                                                    *)

LEMMA AskedKeeps ==
    ASSUME BirthdayInv, NEW k \in Keyboards, NEW rest \in SUBSET Keyboards, B!Ask(k, rest),
           bd' \in Party, mixed' \in BOOLEAN, k.own, IsBehind(k.before, k.q),
           ~mixed' => \A l \in rest : ~l.own
    PROVE  /\ PartyTyped' /\ Chained' /\ OwnAsksAtHand' /\ B!OrderFits'
           /\ at' = k.q /\ k.q \in DOMAIN saved' /\ saved'[k.q] = k
           /\ \A q \in DOMAIN saved : q \in DOMAIN saved' /\ (q # k.q => saved'[q] = saved[q])
<1>1. /\ at' = k.q /\ live' = rest \cup {k} /\ orders' = orders
      /\ saved' = [q \in DOMAIN saved \cup {k.q} |-> IF q = k.q THEN k ELSE saved[q]]
  BY DEF B!Ask
<1>2. k.q \in Asked
  BY DEF Keyboards
<1>3. /\ DOMAIN saved' = DOMAIN saved \cup {k.q} /\ saved'[k.q] = k
      /\ \A q \in DOMAIN saved : q # k.q => saved'[q] = saved[q]
  BY <1>1
<1>4. PartyTyped'
  <2>1. saved' \in [DOMAIN saved' -> Keyboards]
    BY <1>1 DEF BirthdayInv, PartyTyped
  <2> QED BY <1>1, <1>2, <1>3, <2>1 DEF BirthdayInv, PartyTyped
<1>5. Chained'
  BY <1>1, <1>3 DEF BirthdayInv, Chained
<1>6. OwnAsksAtHand'
  <2>1. k = [k EXCEPT !.listed = k.listed]
    BY DEF Keyboards
  <2> QED BY <1>1, <1>3, <2>1 DEF OwnAsksAtHand
<1>7. B!OrderFits'
  BY <1>1 DEF BirthdayInv, B!OrderFits
<1> QED BY <1>1, <1>3, <1>4, <1>5, <1>6, <1>7

\* A button of this form is one of the question at hand.
LEMMA PressedIsOwn ==
    ASSUME BirthdayInv, NEW q, NEW k, B!Press(q, k)
    PROVE  /\ at = q /\ k \in live /\ k \in Keyboards /\ k.q = q /\ mixed' \in BOOLEAN
           /\ live \ {k} \in SUBSET Keyboards
           /\ ~mixed' => /\ ~mixed /\ k.own /\ \A l \in live \ {k} : ~l.own
                         /\ at \in DOMAIN saved /\ k.for = saved[at].for
                         /\ k.shown = saved[at].shown /\ k.before = saved[at].before
<1>1. at = q /\ k \in live /\ k.q = q /\ mixed' = (mixed \/ ~k.own)
  BY DEF B!Press, B!Of
<1>2. live \subseteq Keyboards /\ k \in Keyboards /\ mixed \in BOOLEAN
  BY <1>1 DEF BirthdayInv, PartyTyped
<1>3. ASSUME ~mixed'
      PROVE  /\ ~mixed /\ k.own /\ \A l \in live \ {k} : ~l.own
             /\ at \in DOMAIN saved /\ k = [saved[at] EXCEPT !.listed = k.listed]
  BY <1>1, <1>3 DEF BirthdayInv, OwnAsksAtHand
<1>4. ASSUME at \in DOMAIN saved, k = [saved[at] EXCEPT !.listed = k.listed]
      PROVE  k.for = saved[at].for /\ k.shown = saved[at].shown /\ k.before = saved[at].before
  <2>1. saved[at] \in Keyboards
    BY <1>4 DEF BirthdayInv, PartyTyped
  <2> QED BY <1>4, <2>1 DEF Keyboards
<1> QED BY <1>1, <1>2, <1>3, <1>4

LEMMA UnlistedTyped ==
    ASSUME BirthdayInv
    PROVE  B!Unlisted \in SUBSET Keyboards /\ \A l \in B!Unlisted : ~l.own
BY ForgottenTyped DEF B!Unlisted, BirthdayInv, PartyTyped

LEMMA PlaceKeeps ==
    ASSUME BirthdayInv, NEW k, B!ask_date(k) \/ B!ask_address(k)
    PROVE  BirthdayInv'
<1>1. B!Press("PLACE", k)
  BY DEF B!ask_date, B!ask_address
<1>2. PICK q \in {"DATE", "ADDRESS"} :
        /\ B!Ask(B!Kbd(q, "none", "PLACE"), live \ {k})
        /\ q = "DATE" => bd' = [bd EXCEPT !.place = "theatre", !.address = "office"]
        /\ q = "ADDRESS" => bd' = [bd EXCEPT !.place = "outside"]
  BY DEF B!ask_date, B!ask_address
<1>3. q \in Asked /\ "PLACE" \in Asked /\ IsBehind("PLACE", q)
  BY DEF Asked, FromDate, IsBehind
<1>4. PICK b \in Keyboards : /\ b = B!Kbd(q, "none", "PLACE") /\ b.own /\ b.q = q
                             /\ b.before = "PLACE" /\ B!Ask(b, live \ {k})
  BY <1>2, <1>3, KeyboardTyped
<1>5. /\ bd \in Party /\ bd' \in Party
      /\ q = "DATE" => bd'.place = "theatre" /\ bd'.address = "office"
      /\ q = "ADDRESS" => bd'.place = "outside"
  BY <1>2 DEF BirthdayInv, PartyTyped, Party, B!Places
<1>6. /\ PartyTyped' /\ Chained' /\ OwnAsksAtHand' /\ B!OrderFits'
      /\ at' = q /\ q \in DOMAIN saved' /\ saved'[q] = b
  BY <1>1, <1>3, <1>4, <1>5, PressedIsOwn, AskedKeeps
<1>7. AnswersFit'
  BY <1>4, <1>5, <1>6
  DEF AnswersFit, B!Places, FromDate, FromFormat, FromChildren, FromAdults
<1> QED BY <1>6, <1>7 DEF BirthdayInv

\* What the answers before a question have to be, to ask it.
LEMMA TypedKeeps ==
    ASSUME BirthdayInv,
           \/ B!get_address \/ B!get_date \/ B!get_time \/ B!get_name_child
           \/ B!get_name \/ B!get_phone
    PROVE  BirthdayInv'
<1>1. PICK q \in B!Typed \ {"NOTE"} :
        /\ at = q /\ mixed' = mixed /\ B!Ask(B!Kbd(B!Next1(q), "none", q), B!Unlisted)
        /\ bd' = IF q = "ADDRESS" THEN [bd EXCEPT !.address = "typed"] ELSE bd
  BY DEF B!get_address, B!get_date, B!get_time, B!get_name_child, B!get_name, B!get_phone,
     B!Type, B!Typed
<1>2. /\ <<q, B!Next1(q)>> \in
           {<<"ADDRESS", "DATE">>, <<"DATE", "TIME">>, <<"TIME", "CHOOSE">>,
            <<"NAME_CHILD", "NAME">>, <<"NAME", "PHONE">>, <<"PHONE", "NOTE">>}
  BY NextQuestion DEF B!Typed
<1>3. q \in Asked /\ B!Next1(q) \in Asked /\ IsBehind(q, B!Next1(q))
  BY <1>2 DEF Asked, FromDate, FromFormat, FromChildren, FromAdults, IsBehind
<1>4. PICK b \in Keyboards : /\ b = B!Kbd(B!Next1(q), "none", q) /\ b.own
                             /\ b.q = B!Next1(q) /\ b.before = q /\ B!Ask(b, B!Unlisted)
  BY <1>1, <1>3, KeyboardTyped
<1>5. /\ bd \in Party /\ bd' \in Party /\ bd'.place = bd.place /\ bd'.format = bd.format
      /\ bd'.qty_child = bd.qty_child
      /\ q = "ADDRESS" => bd'.address = "typed"
      /\ q # "ADDRESS" => bd' = bd
  BY <1>1 DEF BirthdayInv, PartyTyped, Party
<1>6. /\ PartyTyped' /\ Chained' /\ OwnAsksAtHand' /\ B!OrderFits'
      /\ at' = B!Next1(q) /\ at' \in DOMAIN saved' /\ saved'[at'] = b
      /\ \A p \in DOMAIN saved : p \in DOMAIN saved' /\ (p # at' => saved'[p] = saved[p])
  <2>1. mixed' \in BOOLEAN
    BY <1>1 DEF BirthdayInv, PartyTyped
  <2> QED BY <1>3, <1>4, <1>5, <2>1, UnlistedTyped, AskedKeeps
<1>7. AnswersFit'
  BY <1>1, <1>2, <1>4, <1>5, <1>6
  DEF BirthdayInv, AnswersFit, B!Places, FromDate, FromFormat, FromChildren, FromAdults
<1> QED BY <1>6, <1>7 DEF BirthdayInv

LEMMA ChosenKeeps ==
    ASSUME BirthdayInv, NEW k, B!get_show(k) \/ B!get_age(k) \/ B!get_qty_adult(k)
    PROVE  BirthdayInv'
<1>1. PICK q \in {"CHOOSE", "AGE", "QTY_ADULT"} :
        /\ B!Press(q, k) /\ bd' = bd
        /\ B!Ask(B!Kbd(B!Next1(q), IF q = "AGE" THEN bd.place ELSE "none", q), live \ {k})
  BY DEF B!get_show, B!get_age, B!get_qty_adult, B!Choose
<1>2. <<q, B!Next1(q)>> \in
        {<<"CHOOSE", "AGE">>, <<"AGE", "FORMAT_BD">>, <<"QTY_ADULT", "NAME_CHILD">>}
  BY NextQuestion
<1>3. q \in Asked /\ B!Next1(q) \in Asked /\ IsBehind(q, B!Next1(q))
  BY <1>2 DEF Asked, FromDate, FromFormat, FromChildren, FromAdults, IsBehind
<1>4. bd \in Party /\ bd.place \in B!Places \cup {"none"}
  BY DEF BirthdayInv, PartyTyped, Party
<1>5. PICK b \in Keyboards :
        /\ b.own /\ b.q = B!Next1(q) /\ b.before = q
        /\ b.for = (IF q = "AGE" THEN bd.place ELSE "none") /\ B!Ask(b, live \ {k})
  <2>1. PICK for \in B!Places \cup {"none"} : for = (IF q = "AGE" THEN bd.place ELSE "none")
    BY <1>4
  <2>2. B!Ask(B!Kbd(B!Next1(q), for, q), live \ {k})
    BY <1>1, <2>1
  <2>3. PICK b : b = B!Kbd(B!Next1(q), for, q)
    OBVIOUS
  <2>4. b \in Keyboards /\ b.own /\ b.q = B!Next1(q) /\ b.before = q /\ b.for = for
    BY <1>3, <2>1, <2>3 DEF B!Kbd, B!Empty, Keyboards, Party
  <2> QED BY <2>1, <2>2, <2>3, <2>4
<1>6. /\ PartyTyped' /\ Chained' /\ OwnAsksAtHand' /\ B!OrderFits'
      /\ at' = B!Next1(q) /\ at' \in DOMAIN saved' /\ saved'[at'] = b
      /\ \A p \in DOMAIN saved : p \in DOMAIN saved' /\ (p # at' => saved'[p] = saved[p])
  BY <1>1, <1>3, <1>4, <1>5, PressedIsOwn, AskedKeeps
<1>7. AnswersFit'
  <2>1. ~mixed' => ~mixed /\ at = q
    BY <1>1, PressedIsOwn
  <2> QED BY <1>1, <1>2, <1>5, <1>6, <2>1
      DEF BirthdayInv, AnswersFit, B!Places, FromDate, FromFormat, FromChildren, FromAdults
<1> QED BY <1>6, <1>7 DEF BirthdayInv

\* The format is one of those the keyboard was made for.
LEMMA FormatKeeps ==
    ASSUME BirthdayInv, NEW k, B!get_format_bd(k)
    PROVE  BirthdayInv'
<1>1. PICK format \in B!Places :
        /\ B!Press("FORMAT_BD", k) /\ format = k.for
        /\ bd' = [bd EXCEPT !.format = format]
        /\ B!Ask(B!Kbd("QTY_CHILD", format, "FORMAT_BD"), live \ {k})
  BY DEF B!get_format_bd, B!Offered
<1>2. "QTY_CHILD" \in Asked /\ "FORMAT_BD" \in Asked /\ IsBehind("FORMAT_BD", "QTY_CHILD")
  BY DEF Asked, FromDate, FromFormat, FromChildren, FromAdults, IsBehind
<1>3. PICK b \in Keyboards :
        /\ b = B!Kbd("QTY_CHILD", format, "FORMAT_BD") /\ b.own /\ b.q = "QTY_CHILD"
        /\ b.before = "FORMAT_BD" /\ b.for = format /\ B!Ask(b, live \ {k})
  BY <1>1, <1>2, KeyboardTyped
<1>4. /\ bd' \in Party /\ bd'.place = bd.place /\ bd'.format = format
      /\ bd'.address = bd.address
  BY <1>1 DEF BirthdayInv, PartyTyped, Party
<1>5. /\ PartyTyped' /\ Chained' /\ OwnAsksAtHand' /\ B!OrderFits'
      /\ at' = "QTY_CHILD" /\ at' \in DOMAIN saved' /\ saved'[at'] = b
      /\ \A p \in DOMAIN saved : p \in DOMAIN saved' /\ (p # at' => saved'[p] = saved[p])
  BY <1>1, <1>2, <1>3, <1>4, PressedIsOwn, AskedKeeps
<1>6. AnswersFit'
  <2>1. ~mixed' => ~mixed /\ at = "FORMAT_BD" /\ k.for = saved[at].for
    BY <1>1, PressedIsOwn
  <2> QED BY <1>1, <1>3, <1>4, <1>5, <2>1
      DEF BirthdayInv, AnswersFit, B!Places, FromDate, FromFormat, FromChildren, FromAdults
<1> QED BY <1>5, <1>6 DEF BirthdayInv

LEMMA NumberKeeps ==
    ASSUME BirthdayInv, NEW k, B!get_qty_child(k)
    PROVE  BirthdayInv'
<1>1. PICK qty \in {"up to 10", "more"} :
        /\ (qty = "more" => k.for = "outside")
        /\ B!Press("QTY_CHILD", k) /\ bd' = [bd EXCEPT !.qty_child = qty]
        /\ B!Ask(B!Kbd("QTY_ADULT", "none", "QTY_CHILD"), live \ {k})
  <2>1. B!Next1("QTY_CHILD") = "QTY_ADULT"
    BY NextQuestion
  <2>2. PICK qty \in {"up to 10", "more"} :
          /\ (qty = "more" => k.for = "outside") /\ bd' = [bd EXCEPT !.qty_child = qty]
          /\ B!Press("QTY_CHILD", k)
          /\ B!Ask(B!Kbd(B!Next1("QTY_CHILD"), "none", "QTY_CHILD"), live \ {k})
    BY DEF B!get_qty_child, B!Choose
  <2> QED BY <2>1, <2>2
<1>2. "QTY_ADULT" \in Asked /\ "QTY_CHILD" \in Asked /\ IsBehind("QTY_CHILD", "QTY_ADULT")
  BY DEF Asked, FromDate, FromFormat, FromChildren, FromAdults, IsBehind
<1>3. PICK b \in Keyboards :
        /\ b = B!Kbd("QTY_ADULT", "none", "QTY_CHILD") /\ b.own /\ b.q = "QTY_ADULT"
        /\ b.before = "QTY_CHILD" /\ B!Ask(b, live \ {k})
  <2>1. PICK b : b = B!Kbd("QTY_ADULT", "none", "QTY_CHILD")
    OBVIOUS
  <2>2. b \in Keyboards /\ b.own /\ b.q = "QTY_ADULT" /\ b.before = "QTY_CHILD"
    BY <1>2, <2>1 DEF B!Kbd, B!Empty, Keyboards, Party
  <2>3. B!Ask(b, live \ {k})
    BY <1>1, <2>1
  <2> QED BY <2>1, <2>2, <2>3
<1>4. /\ bd' \in Party /\ bd'.place = bd.place /\ bd'.format = bd.format
      /\ bd'.address = bd.address /\ bd'.qty_child = qty
  BY <1>1 DEF BirthdayInv, PartyTyped, Party
<1>5. /\ PartyTyped' /\ Chained' /\ OwnAsksAtHand' /\ B!OrderFits'
      /\ at' = "QTY_ADULT" /\ at' \in DOMAIN saved' /\ saved'[at'] = b
      /\ \A p \in DOMAIN saved : p \in DOMAIN saved' /\ (p # at' => saved'[p] = saved[p])
  <2>1. /\ mixed' \in BOOLEAN /\ live \ {k} \in SUBSET Keyboards
        /\ ~mixed' => \A l \in live \ {k} : ~l.own
    BY <1>1, PressedIsOwn
  <2>2. B!Ask(b, live \ {k}) /\ b.own /\ IsBehind(b.before, b.q) /\ b.q = "QTY_ADULT"
    BY <1>2, <1>3
  <2>3. bd' \in Party
    BY <1>4
  <2>4. /\ PartyTyped' /\ Chained' /\ OwnAsksAtHand' /\ B!OrderFits'
        /\ at' = b.q /\ b.q \in DOMAIN saved' /\ saved'[b.q] = b
        /\ \A q \in DOMAIN saved : q \in DOMAIN saved' /\ (q # b.q => saved'[q] = saved[q])
    BY <2>1, <2>2, <2>3, AskedKeeps
  <2> QED BY <2>2, <2>4
<1>6. AnswersFit'
  <2>1. ~mixed' => ~mixed /\ at = "QTY_CHILD" /\ k.for = saved[at].for
    BY <1>1, PressedIsOwn
  <2> QED BY <1>1, <1>3, <1>4, <1>5, <2>1
      DEF BirthdayInv, AnswersFit, B!Places, FromDate, FromFormat, FromChildren, FromAdults
<1> QED BY <1>5, <1>6 DEF BirthdayInv

\* The summary shows what is ordered.
LEMMA NoteKeeps ==
    ASSUME BirthdayInv, B!get_note
    PROVE  BirthdayInv'
<1>1. /\ at = "NOTE" /\ mixed' \in BOOLEAN /\ (~mixed' => ~mixed)
      /\ B!Ask(B!Summary(bd'), B!Unlisted)
      /\ bd' = [bd EXCEPT !.note = TRUE] \/ bd' = bd
  <2>1. CASE bd' = [bd EXCEPT !.note = TRUE] /\ B!Type("NOTE")
    BY <2>1 DEF B!Type, BirthdayInv, PartyTyped
  <2>2. CASE /\ bd' = bd /\ at = "NOTE" /\ B!Ask(B!Summary(bd), B!Unlisted)
             /\ \E k \in B!Of("NOTE") : mixed' = (mixed \/ ~k.own)
    BY <2>2 DEF B!Of, BirthdayInv, PartyTyped, Keyboards
  <2> QED BY <2>1, <2>2 DEF B!get_note
<1>2. /\ bd' \in Party /\ bd'.place = bd.place /\ bd'.format = bd.format
      /\ bd'.address = bd.address /\ bd'.qty_child = bd.qty_child
  BY <1>1 DEF BirthdayInv, PartyTyped, Party
<1>3. PICK b \in Keyboards : /\ b = B!Summary(bd') /\ b.own /\ b.q = "CONFIRM"
                             /\ b.before = "NOTE" /\ b.shown = bd' /\ B!Ask(b, B!Unlisted)
  BY <1>1, <1>2, SummaryTyped
<1>4. IsBehind("NOTE", "CONFIRM")
  BY DEF IsBehind, FromDate, FromFormat, FromChildren, FromAdults
<1>5. /\ PartyTyped' /\ Chained' /\ OwnAsksAtHand' /\ B!OrderFits'
      /\ at' = "CONFIRM" /\ at' \in DOMAIN saved' /\ saved'[at'] = b
      /\ \A p \in DOMAIN saved : p \in DOMAIN saved' /\ (p # at' => saved'[p] = saved[p])
  BY <1>1, <1>2, <1>3, <1>4, UnlistedTyped, AskedKeeps
<1>6. AnswersFit'
  BY <1>1, <1>2, <1>3, <1>5
  DEF BirthdayInv, AnswersFit, B!Places, FromDate, FromFormat, FromChildren, FromAdults
<1> QED BY <1>5, <1>6 DEF BirthdayInv


\* A wrong number takes the buttons away, and changes no answer.
LEMMA WrongNumberKeeps ==
    ASSUME BirthdayInv, B!request_phone_number
    PROVE  BirthdayInv'
<1>1. live' = B!Unlisted /\ UNCHANGED <<at, bd, saved, mixed, orders>>
  BY DEF B!request_phone_number
<1>2. PartyTyped'
  BY <1>1, UnlistedTyped DEF BirthdayInv, PartyTyped
<1>3. OwnAsksAtHand'
  BY <1>1, UnlistedTyped DEF OwnAsksAtHand
<1>4. Chained' /\ AnswersFit' /\ B!OrderFits'
  BY <1>1 DEF BirthdayInv, Chained, AnswersFit, B!OrderFits
<1> QED BY <1>2, <1>3, <1>4 DEF BirthdayInv

\* What is confirmed is what was answered, and what the summary showed.
LEMMA ConfirmKeeps ==
    ASSUME BirthdayInv, NEW k, B!get_confirm(k)
    PROVE  BirthdayInv'
<1>1. /\ B!Press("CONFIRM", k) /\ at' = "END" /\ live' = B!Unlisted \ {k}
      /\ orders' = orders \cup {[order |-> bd, shown |-> k.shown, mixed |-> mixed']}
      /\ UNCHANGED <<bd, saved>>
  BY DEF B!get_confirm
<1>2. at = "CONFIRM" /\ mixed' \in BOOLEAN
      /\ (~mixed' => ~mixed /\ at \in DOMAIN saved /\ k.shown = saved[at].shown)
  BY <1>1, PressedIsOwn
<1>3. PartyTyped'
  BY <1>1, <1>2, UnlistedTyped DEF BirthdayInv, PartyTyped
<1>4. Chained' /\ AnswersFit'
  BY <1>1 DEF BirthdayInv, Chained, AnswersFit
<1>5. OwnAsksAtHand'
  BY <1>1, UnlistedTyped DEF OwnAsksAtHand
<1>6. B!OrderFits'
  <2>1. ASSUME ~mixed'
        PROVE  B!Fits([order |-> bd, shown |-> k.shown, mixed |-> mixed'])
    BY <1>2, <2>1
    DEF BirthdayInv, AnswersFit, B!Fits, FromDate, FromFormat, FromChildren, FromAdults
  <2>2. ASSUME NEW o \in orders', ~o.mixed
        PROVE  B!Fits(o)
    <3>1. CASE o \in orders
      BY <2>2, <3>1 DEF BirthdayInv, B!OrderFits
    <3>2. CASE o = [order |-> bd, shown |-> k.shown, mixed |-> mixed']
      <4>1. ~mixed'
        BY <2>2, <3>2
      <4> QED BY <2>1, <3>2, <4>1
    <3> QED BY <1>1, <3>1, <3>2
  <2> QED BY <2>2 DEF B!OrderFits, B!Fits
<1> QED BY <1>3, <1>4, <1>5, <1>6 DEF BirthdayInv

\* A step back comes to a question whose answers still fit: what is behind a
\* question needs no answer that the question does not need.
LEMMA BackKeeps ==
    ASSUME BirthdayInv, NEW k, B!back(k)
    PROVE  BirthdayInv'
<1>1. PICK listed \in BOOLEAN :
        /\ k \in live /\ k.before \in DOMAIN saved /\ at' = k.before
        /\ live' = (live \ {k}) \cup {[saved[k.before] EXCEPT !.listed = listed]}
        /\ mixed' = (mixed \/ ~k.own) /\ UNCHANGED <<bd, saved, orders>>
  BY DEF B!back
<1>2. /\ live \subseteq Keyboards /\ k \in Keyboards /\ mixed \in BOOLEAN
      /\ saved[k.before] \in Keyboards /\ k.before \in Asked
  BY <1>1 DEF BirthdayInv, PartyTyped
<1>3. PICK b \in Keyboards : b = [saved[k.before] EXCEPT !.listed = listed]
  BY <1>1, <1>2 DEF Keyboards
<1>4. PartyTyped'
  <2>1. mixed' \in BOOLEAN
    BY <1>1, <1>2 DEF Keyboards
  <2> QED BY <1>1, <1>2, <1>3, <2>1 DEF BirthdayInv, PartyTyped
<1>5. Chained' /\ B!OrderFits'
  BY <1>1 DEF BirthdayInv, Chained, B!OrderFits
<1>6. ASSUME ~mixed'
      PROVE  /\ ~mixed /\ (\A l \in live \ {k} : ~l.own) /\ k.q = at /\ at \in DOMAIN saved
             /\ k = [saved[at] EXCEPT !.listed = k.listed]
  BY <1>1, <1>6 DEF BirthdayInv, OwnAsksAtHand
<1>7. OwnAsksAtHand'
  <2>1. ASSUME ~mixed', NEW l \in live', l.own
        PROVE  l = b
    BY <1>1, <1>3, <1>6, <2>1
  <2>2. b.q = k.before /\ b = [saved[k.before] EXCEPT !.listed = b.listed]
    BY <1>1, <1>2, <1>3 DEF BirthdayInv, Chained, Keyboards
  <2> QED BY <1>1, <2>1, <2>2 DEF OwnAsksAtHand
<1>8. AnswersFit'
  <2> SUFFICES ASSUME ~mixed' PROVE AnswersFit'
    BY DEF AnswersFit
  <2>1. saved[at] \in Keyboards /\ k.before = saved[at].before /\ at # "END"
    BY <1>6 DEF BirthdayInv, PartyTyped, Keyboards, Asked, FromDate, FromFormat, FromChildren,
       FromAdults
  <2>2. IsBehind(k.before, at) /\ at \in Asked
    BY <1>6, <2>1 DEF BirthdayInv, Chained, PartyTyped
  <2>3. /\ k.before # "PLACE" => at # "PLACE"
        /\ k.before = "ADDRESS" => at = "DATE"
        /\ k.before # "CONFIRM"
    BY <1>2, <2>2
    DEF IsBehind, Asked, FromDate, FromFormat, FromChildren, FromAdults
  <2>4. k.before \in FromDate => at \in FromDate
    BY <2>2 DEF IsBehind, Asked, FromDate, FromFormat, FromChildren, FromAdults
  <2>5. k.before \in FromFormat => at \in FromFormat
    BY <2>2 DEF IsBehind, Asked, FromDate, FromFormat, FromChildren, FromAdults
  <2>6. k.before \in FromChildren => at \in FromChildren
    BY <2>2 DEF IsBehind, Asked, FromDate, FromFormat, FromChildren, FromAdults
  <2>7. k.before \in FromAdults => at \in FromAdults
    BY <2>2 DEF IsBehind, Asked, FromDate, FromFormat, FromChildren, FromAdults
  <2> QED BY <1>1, <1>6, <2>1, <2>3, <2>4, <2>5, <2>6, <2>7
      DEF BirthdayInv, AnswersFit, FromDate, FromFormat, FromChildren, FromAdults
<1> QED BY <1>4, <1>5, <1>7, <1>8 DEF BirthdayInv

LEMMA CancelKeeps ==
    ASSUME BirthdayInv, NEW k, B!cancel(k)
    PROVE  BirthdayInv'
<1>1. /\ at' = "END" /\ bd' = B!Empty /\ saved' = <<>> /\ live' = B!Forget(live \ {k})
      /\ mixed' = FALSE /\ orders' = orders
  BY DEF B!cancel
<1>2. live \ {k} \in SUBSET Keyboards
  BY DEF BirthdayInv, PartyTyped
<1>3. live' \subseteq Keyboards /\ \A l \in live' : ~l.own
  BY <1>1, <1>2, ForgottenTyped
<1>4. B!Empty \in Party /\ DOMAIN saved' = {} /\ saved' \in [DOMAIN saved' -> Keyboards]
  BY <1>1 DEF B!Empty, Party
<1>5. PartyTyped' /\ Chained' /\ OwnAsksAtHand' /\ AnswersFit'
  BY <1>1, <1>3, <1>4 DEF PartyTyped, Chained, OwnAsksAtHand, AnswersFit
<1>6. B!OrderFits'
  BY <1>1 DEF BirthdayInv, B!OrderFits
<1> QED BY <1>5, <1>6 DEF BirthdayInv

LEMMA StartKeeps ==
    ASSUME BirthdayInv, B!choice_place
    PROVE  BirthdayInv'
<1>1. PICK k : /\ k = B!Kbd("PLACE", "none", "none") /\ at' = "PLACE"
               /\ saved' = [q \in {"PLACE"} |-> k] /\ live' = B!Forget(live) \cup {k}
               /\ bd' = B!Empty /\ mixed' = FALSE /\ orders' = orders
  BY DEF B!choice_place
<1>2. "PLACE" \in Asked
  BY DEF Asked
<1>3. k \in Keyboards /\ k.own /\ k.q = "PLACE" /\ k.before = "none"
  BY <1>1, <1>2, KeyboardTyped
<1>4. live \in SUBSET Keyboards
  BY DEF BirthdayInv, PartyTyped
<1>5. B!Forget(live) \subseteq Keyboards /\ \A l \in B!Forget(live) : ~l.own
  BY <1>4, ForgottenTyped
<1>6. B!Empty \in Party /\ DOMAIN saved' = {"PLACE"} /\ saved'["PLACE"] = k
      /\ saved' \in [DOMAIN saved' -> Keyboards]
  BY <1>1, <1>3 DEF B!Empty, Party
<1>7. PartyTyped' /\ Chained'
  BY <1>1, <1>2, <1>3, <1>5, <1>6 DEF PartyTyped, Chained, IsBehind
<1>8. OwnAsksAtHand'
  <2>1. k = [k EXCEPT !.listed = k.listed]
    BY <1>3 DEF Keyboards
  <2> QED BY <1>1, <1>3, <1>5, <1>6, <2>1 DEF OwnAsksAtHand
<1>9. AnswersFit' /\ B!OrderFits'
  BY <1>1
  DEF BirthdayInv, AnswersFit, B!OrderFits, FromDate, FromFormat, FromChildren, FromAdults
<1> QED BY <1>7, <1>8, <1>9 DEF BirthdayInv

LEMMA BirthdayStep ==
    ASSUME BirthdayInv, [B!Next]_(B!vars)
    PROVE  BirthdayInv'
<1>1. CASE UNCHANGED B!vars
  BY <1>1 DEF B!vars, BirthdayInv, PartyTyped, Chained, OwnAsksAtHand, AnswersFit, B!OrderFits
<1>2. CASE B!choice_place
  BY <1>2, StartKeeps
<1>3. CASE \/ B!get_address \/ B!get_date \/ B!get_time \/ B!get_name_child
           \/ B!get_name \/ B!get_phone
  BY <1>3, TypedKeeps
<1>4. CASE B!request_phone_number
  BY <1>4, WrongNumberKeeps
<1>5. CASE B!get_note
  BY <1>5, NoteKeeps
<1>6. ASSUME NEW k \in live, B!ask_date(k) \/ B!ask_address(k)
      PROVE  BirthdayInv'
  BY <1>6, PlaceKeeps
<1>7. ASSUME NEW k \in live, B!get_show(k) \/ B!get_age(k) \/ B!get_qty_adult(k)
      PROVE  BirthdayInv'
  BY <1>7, ChosenKeeps
<1>8. ASSUME NEW k \in live, B!get_format_bd(k)
      PROVE  BirthdayInv'
  BY <1>8, FormatKeeps
<1>9. ASSUME NEW k \in live, B!get_qty_child(k)
      PROVE  BirthdayInv'
  BY <1>9, NumberKeeps
<1>10. ASSUME NEW k \in live, B!get_confirm(k)
       PROVE  BirthdayInv'
  BY <1>10, ConfirmKeeps
<1>11. ASSUME NEW k \in live, B!back(k)
       PROVE  BirthdayInv'
  BY <1>11, BackKeeps
<1>12. ASSUME NEW k \in live, B!cancel(k)
       PROVE  BirthdayInv'
  BY <1>12, CancelKeeps
<1> QED BY <1>1, <1>2, <1>3, <1>4, <1>5, <1>6, <1>7, <1>8, <1>9, <1>10, <1>11, <1>12
    DEF B!Next

-----------------------------------------------------------------------------
(* PromotionUse: the limit of a code.                                      *)
(*                                                                         *)
(* The limit alone is not inductive: what the look at the counter gives is *)
(* a bound on ALL orders with the discount, open or paid, at the moment it *)
(* is given, and that bound may only grow afterwards.  It rests on the     *)
(* counter being short of the paid orders by no more than what was lost.   *)

UsesCounted == Cardinality(U!Paid) <= count + lost
OpenBounded == Cardinality(U!Open) <= most
OneWasOpen == discount # {} => most >= 1
OrdersCovered ==
    max > 0 /\ discount # {} =>
        Cardinality(discount) <= max - 1 + most + lost + Cardinality(unasked)

UnaskedHaveIt == unasked \subseteq discount

UseInv == U!TypeOK /\ UnaskedHaveIt /\ UsesCounted /\ OpenBounded /\ OneWasOpen /\ OrdersCovered
-----------------------------------------------------------------------------
(* Sets of orders.                                                         *)

\* What PromotionUse counts by is the Cardinality of the theorems.
LEMMA SameCardinality ==
    ASSUME NEW D PROVE U!Cardinality(D) = Cardinality(D)
BY DEF U!Cardinality, Cardinality

\* A part of a finite set and the rest of it add up.
LEMMA PartsOfOrders ==
    ASSUME NEW D \in SUBSET Orders, NEW P \in SUBSET D
    PROVE  /\ Cardinality(D) \in Nat /\ Cardinality(P) \in Nat /\ Cardinality(D \ P) \in Nat
           /\ Cardinality(D) = Cardinality(P) + Cardinality(D \ P)
           /\ Cardinality(P) <= Cardinality(D)
           /\ D = {} => Cardinality(D) = 0
<1>1. IsFiniteSet(D) /\ IsFiniteSet(P) /\ IsFiniteSet(D \ P)
  <2>1. D \in SUBSET Orders /\ P \in SUBSET Orders /\ D \ P \in SUBSET Orders
    OBVIOUS
  <2> QED BY <2>1, FS_Subset, PartsAssumption
<1>2. P \cap (D \ P) = {} /\ P \cup (D \ P) = D
  OBVIOUS
<1>3. Cardinality(P \cup (D \ P)) =
        Cardinality(P) + Cardinality(D \ P) - Cardinality(P \cap (D \ P))
  BY <1>1, FS_Union
<1>4. Cardinality({}) = 0
  BY FS_EmptySet
<1>6. Cardinality(D) = Cardinality(P) + Cardinality(D \ P) - Cardinality({})
  BY <1>2, <1>3, Zenon
<1>5. Cardinality(D) \in Nat /\ Cardinality(P) \in Nat /\ Cardinality(D \ P) \in Nat
  BY <1>1, FS_CardinalityType
<1>7. D = {} => Cardinality(D) = 0
  BY <1>4, Zenon
<1> QED BY <1>4, <1>5, <1>6, <1>7

\* One order more, one order less.
LEMMA OneOrder ==
    ASSUME NEW D \in SUBSET Orders, NEW o \in Orders
    PROVE  /\ Cardinality(D) \in Nat
           /\ Cardinality(D \cup {o}) = IF o \in D THEN Cardinality(D) ELSE Cardinality(D) + 1
           /\ Cardinality(D \ {o}) = IF o \in D THEN Cardinality(D) - 1 ELSE Cardinality(D)
           /\ Cardinality(D \cup {o}) \in Nat /\ Cardinality(D \ {o}) \in Nat
           /\ Cardinality(D \cup {o}) >= 1
           /\ Cardinality(D \cup {o}) <= Cardinality(D) + 1
           /\ Cardinality(D \ {o}) <= Cardinality(D)
           /\ Cardinality(D \ {o}) >= Cardinality(D) - 1
           /\ o \in D => Cardinality(D \ {o}) = Cardinality(D) - 1
<1>1. IsFiniteSet(D)
  BY PartsAssumption, FS_Subset
<1>2. IsFiniteSet(D \cup {o}) /\ IsFiniteSet(D \ {o})
  BY <1>1, FS_AddElement, FS_RemoveElement
<1>3. /\ Cardinality(D) \in Nat /\ Cardinality(D \cup {o}) \in Nat
      /\ Cardinality(D \ {o}) \in Nat
  BY <1>1, <1>2, FS_CardinalityType
<1>4. /\ Cardinality(D \cup {o}) = IF o \in D THEN Cardinality(D) ELSE Cardinality(D) + 1
      /\ Cardinality(D \ {o}) = IF o \in D THEN Cardinality(D) - 1 ELSE Cardinality(D)
  BY <1>1, FS_AddElement, FS_RemoveElement
<1>5. Cardinality(D \cup {o}) >= 1
  <2>1. CASE o \in D
    <3>1. Cardinality(D) # 0
      BY <1>1, <2>1, FS_EmptySet
    <3> QED BY <2>1, <3>1, <1>3, <1>4
  <2>2. CASE o \notin D
    BY <2>2, <1>3, <1>4
  <2> QED BY <2>1, <2>2
<1> QED BY <1>3, <1>4, <1>5
-----------------------------------------------------------------------------
(* A step that gives order o the discount, after a look at the counter or  *)
(* without one.                                                            *)

Unpaid(o, s) == s \in {"bot", "created"} /\ order[o] # "paid"

LEMMA DiscountGiven ==
    ASSUME UseInv, NEW o \in Orders, NEW s, Unpaid(o, s),
           U!Step(o, s), U!Discounted(o)
    PROVE  /\ U!Paid' = U!Paid /\ discount' = discount \cup {o} /\ U!Open' = U!Open \cup {o}
           /\ Cardinality(U!Open') <= most' /\ most' >= 1 /\ most' >= most /\ most' \in Nat
           /\ order' \in [Orders -> U!Steps] /\ discount' \subseteq Orders
           /\ Cardinality(discount') = Cardinality(U!Paid) + Cardinality(U!Open')
           /\ Cardinality(U!Open') \in Nat /\ Cardinality(discount') \in Nat
<1>1. U!Paid' = U!Paid /\ discount' = discount \cup {o} /\ order' \in [Orders -> U!Steps]
  BY DEF Unpaid, U!Step, U!Discounted, U!Paid, UseInv, U!TypeOK, U!Steps
<1>2. U!Open' = U!Open \cup {o}
  BY <1>1 DEF U!Open, U!Paid, Unpaid, UseInv, U!TypeOK
<1>3. U!Open \in SUBSET Orders /\ most \in Nat /\ discount' \in SUBSET Orders
  BY <1>1 DEF U!Open, UseInv, U!TypeOK
<1>4. Cardinality(U!Open') \in Nat /\ Cardinality(U!Open') >= 1
  BY <1>2, <1>3, OneOrder
<1>5. most' = U!Larger(most, Cardinality(U!Open'))
  BY SameCardinality DEF U!Discounted
<1>6. Cardinality(U!Open') <= most' /\ most' >= 1 /\ most' >= most /\ most' \in Nat
  BY <1>3, <1>4, <1>5 DEF U!Larger
<1>7. U!Paid' \in SUBSET discount' /\ U!Open' = discount' \ U!Paid'
  BY DEF U!Paid, U!Open
<1>8. Cardinality(discount') = Cardinality(U!Paid') + Cardinality(U!Open')
      /\ Cardinality(discount') \in Nat
  BY <1>3, <1>7, PartsOfOrders
<1> QED BY <1>1, <1>2, <1>3, <1>4, <1>6, <1>8

LEMMA GivenAfterALook ==
    ASSUME UseInv, NEW o \in Orders, NEW s, Unpaid(o, s),
           U!Step(o, s), U!Discounted(o), U!UsageLeft, UNCHANGED <<max, count, lost>>,
           unasked' \in SUBSET Orders
    PROVE  UsesCounted' /\ OpenBounded' /\ OneWasOpen' /\ OrdersCovered'
<1>1. /\ U!Paid' = U!Paid /\ Cardinality(U!Open') <= most' /\ most' >= 1 /\ most' \in Nat
      /\ Cardinality(discount') = Cardinality(U!Paid) + Cardinality(U!Open')
      /\ Cardinality(U!Open') \in Nat
  BY DiscountGiven
<1>2. Cardinality(U!Paid) \in Nat
  BY PartsOfOrders DEF U!Paid, UseInv, U!TypeOK
<1>3. Cardinality(unasked') \in Nat
  BY PartsOfOrders
<1>4. /\ max \in Nat /\ count \in Nat /\ lost \in Nat
      /\ Cardinality(U!Paid) <= count + lost
      /\ max' = max /\ count' = count /\ lost' = lost
  BY DEF UseInv, U!TypeOK, UsesCounted
<1>5. max > 0 => count < max
  BY <1>4 DEF U!UsageLeft
<1>6. UsesCounted' /\ OpenBounded' /\ OneWasOpen'
  BY <1>1, <1>4 DEF UsesCounted, OpenBounded, OneWasOpen
<1>7. max > 0 => Cardinality(discount') <= max - 1 + most' + lost + Cardinality(unasked')
  BY <1>1, <1>2, <1>3, <1>4, <1>5
<1> QED BY <1>4, <1>6, <1>7 DEF OrdersCovered
-----------------------------------------------------------------------------
(* The customers.                                                          *)

LEMMA InputKeeps ==
    ASSUME UseInv, NEW o \in Orders, U!handle_promo_code_input(o)
    PROVE  UseInv'
<1>1. Unpaid(o, "bot") /\ U!Step(o, "bot") /\ U!Discounted(o) /\ U!UsageLeft
  BY DEF U!handle_promo_code_input, Unpaid
<1>2. unasked' \in SUBSET Orders /\ UNCHANGED <<max, count, lost>>
  BY DEF U!handle_promo_code_input, U!row, UseInv, U!TypeOK
<1>3. UsesCounted' /\ OpenBounded' /\ OneWasOpen' /\ OrdersCovered'
  BY <1>1, <1>2, GivenAfterALook
<1>4. most' \in Nat /\ order' \in [Orders -> U!Steps] /\ discount' \subseteq Orders
  BY <1>1, DiscountGiven
<1>5. U!TypeOK' /\ UnaskedHaveIt'
  BY <1>2, <1>4
  DEF U!handle_promo_code_input, U!Discounted, U!ByOthers, U!row, UseInv, U!TypeOK, UnaskedHaveIt
<1> QED BY <1>3, <1>5 DEF UseInv

LEMMA OptionKeeps ==
    ASSUME UseInv, NEW o \in Orders, U!apply_option_promo(o)
    PROVE  UseInv'
<1>1. Unpaid(o, "bot") /\ U!Step(o, "bot") /\ U!Discounted(o)
  BY DEF U!apply_option_promo, Unpaid
<1>2. /\ U!Paid' = U!Paid /\ discount' = discount \cup {o}
      /\ Cardinality(U!Open') <= most' /\ most' >= 1 /\ most' >= most /\ most' \in Nat
      /\ order' \in [Orders -> U!Steps] /\ discount' \subseteq Orders
  BY <1>1, DiscountGiven
<1>3. unasked' = unasked \cup {o} /\ UNCHANGED <<max, count, lost>>
  BY DEF U!apply_option_promo, U!row
<1>4. discount \in SUBSET Orders /\ unasked \in SUBSET Orders
      /\ max \in Nat /\ lost \in Nat /\ most \in Nat
  BY DEF UseInv, U!TypeOK
<1>5. U!TypeOK' /\ UnaskedHaveIt'
  BY <1>2, <1>3 DEF U!apply_option_promo, U!ByOthers, U!row, UseInv, U!TypeOK, UnaskedHaveIt
<1>6. UsesCounted' /\ OpenBounded' /\ OneWasOpen'
  BY <1>2, <1>3 DEF UseInv, UsesCounted, OpenBounded, OneWasOpen
<1>7. OrdersCovered'
  <2> SUFFICES ASSUME max > 0
      PROVE  Cardinality(discount \cup {o})
               <= max - 1 + most' + lost + Cardinality(unasked \cup {o})
    BY <1>2, <1>3 DEF OrdersCovered
  <2>1. /\ Cardinality(discount) \in Nat /\ Cardinality(unasked) \in Nat
        /\ Cardinality(discount \cup {o}) =
             IF o \in discount THEN Cardinality(discount) ELSE Cardinality(discount) + 1
        /\ Cardinality(unasked \cup {o}) =
             IF o \in unasked THEN Cardinality(unasked) ELSE Cardinality(unasked) + 1
        /\ Cardinality(unasked \cup {o}) >= 1
    BY <1>4, OneOrder
  <2>2. CASE discount = {}
    <3>1. Cardinality(discount) = 0
      BY <1>4, <2>2, PartsOfOrders
    <3> QED BY <1>2, <1>4, <2>1, <3>1
  <2>3. CASE discount # {}
    <3>1. Cardinality(discount) <= max - 1 + most + lost + Cardinality(unasked)
      BY <2>3 DEF UseInv, OrdersCovered
    <3>2. CASE o \in discount
      BY <1>2, <1>4, <2>1, <3>1, <3>2
    <3>3. CASE o \notin discount
      <4>1. o \notin unasked
        BY <3>3 DEF UseInv, UnaskedHaveIt
      <4> QED BY <4>1, <1>2, <1>4, <2>1, <3>1, <3>3
    <3> QED BY <3>2, <3>3
  <2> QED BY <2>2, <2>3
<1> QED BY <1>5, <1>6, <1>7 DEF UseInv

LEMMA ResetKeeps ==
    ASSUME UseInv, NEW o \in Orders, U!reset_promo(o)
    PROVE  UseInv'
<1>1. /\ discount' = discount \ {o} /\ unasked' = unasked \ {o} /\ o \in discount
      /\ UNCHANGED <<max, count, lost, most, order>>
  BY DEF U!reset_promo, U!row
<1>2. /\ discount \in SUBSET Orders /\ unasked \in SUBSET Orders /\ U!Open \in SUBSET Orders
      /\ max \in Nat /\ lost \in Nat /\ most \in Nat
  BY DEF UseInv, U!TypeOK, U!Open
<1>3. U!TypeOK' /\ UnaskedHaveIt' /\ OneWasOpen'
  BY <1>1 DEF U!reset_promo, U!ByOthers, U!row, UseInv, U!TypeOK, UnaskedHaveIt, OneWasOpen
<1>4. U!Paid' = U!Paid /\ U!Open' = U!Open \ {o}
  BY <1>1 DEF U!Paid, U!Open, U!reset_promo
<1>5. Cardinality(U!Open \ {o}) <= Cardinality(U!Open) /\ Cardinality(U!Open) \in Nat
      /\ Cardinality(U!Open \ {o}) \in Nat
  BY <1>2, OneOrder
<1>6. UsesCounted' /\ OpenBounded'
  BY <1>1, <1>2, <1>4, <1>5 DEF UseInv, UsesCounted, OpenBounded
<1>7. /\ Cardinality(discount) \in Nat /\ Cardinality(unasked) \in Nat
      /\ Cardinality(discount \ {o}) = Cardinality(discount) - 1
      /\ Cardinality(unasked \ {o}) >= Cardinality(unasked) - 1
      /\ Cardinality(unasked \ {o}) \in Nat
  BY <1>1, <1>2, OneOrder
<1>8. max > 0 => Cardinality(discount) <= max - 1 + most + lost + Cardinality(unasked)
  BY <1>1 DEF UseInv, OrdersCovered
<1>9. max > 0 =>
        Cardinality(discount \ {o}) <= max - 1 + most + lost + Cardinality(unasked \ {o})
  BY <1>2, <1>7, <1>8
<1>10. OrdersCovered'
  BY <1>1, <1>9 DEF OrdersCovered
<1> QED BY <1>3, <1>6, <1>10 DEF UseInv

\* Nothing the bounds speak of changes but the step of an order that is not
\* paid before or after.
LEMMA MovesOn ==
    ASSUME UseInv, NEW o \in Orders, NEW s, s # "paid", order[o] # "paid", U!Step(o, s),
           UNCHANGED <<max, count, lost, most, discount, unasked>>
    PROVE  UnaskedHaveIt' /\ UsesCounted' /\ OpenBounded' /\ OneWasOpen' /\ OrdersCovered'
<1>1. U!Paid' = U!Paid /\ U!Open' = U!Open
  BY DEF U!Paid, U!Open, U!Step, UseInv, U!TypeOK
<1> QED BY <1>1 DEF UseInv, UnaskedHaveIt, UsesCounted, OpenBounded, OneWasOpen, OrdersCovered

LEMMA PaymentMadeKeeps ==
    ASSUME UseInv, NEW o \in Orders, U!create_and_send_payment(o)
    PROVE  UseInv'
<1>1. UnaskedHaveIt' /\ UsesCounted' /\ OpenBounded' /\ OneWasOpen' /\ OrdersCovered'
  BY MovesOn DEF U!create_and_send_payment, U!row
<1>2. U!TypeOK'
  BY DEF U!create_and_send_payment, U!Step, U!Steps, U!ByOthers, U!row, UseInv, U!TypeOK
<1> QED BY <1>1, <1>2 DEF UseInv

LEMMA PromoCheckKeeps ==
    ASSUME UseInv, NEW o \in Orders, U!check_promo(o)
    PROVE  UseInv'
<1>1. UnaskedHaveIt' /\ UsesCounted' /\ OpenBounded' /\ OneWasOpen' /\ OrdersCovered'
  BY MovesOn DEF U!check_promo, U!row
<1>2. U!TypeOK'
  BY DEF U!check_promo, U!Step, U!Steps, U!ByOthers, U!row, UseInv, U!TypeOK
<1> QED BY <1>1, <1>2 DEF UseInv

LEMMA WebFormKeeps ==
    ASSUME UseInv, NEW o \in Orders, U!post_booking_form(o)
    PROVE  UseInv'
<1>1. UNCHANGED <<max, count, lost, unasked>> /\ Unpaid(o, "created") /\ U!Step(o, "created")
  BY DEF U!post_booking_form, U!row, Unpaid
<1>2. CASE U!UsageLeft
  <2>1. U!Discounted(o)
    BY <1>2 DEF U!post_booking_form
  <2>2. unasked' \in SUBSET Orders
    BY <1>1 DEF UseInv, U!TypeOK
  <2>3. UsesCounted' /\ OpenBounded' /\ OneWasOpen' /\ OrdersCovered'
    BY <1>1, <1>2, <2>1, <2>2, GivenAfterALook
  <2>4. most' \in Nat /\ order' \in [Orders -> U!Steps] /\ discount' \subseteq Orders
    BY <1>1, <2>1, DiscountGiven
  <2>5. U!TypeOK' /\ UnaskedHaveIt'
    BY <1>1, <2>1, <2>4
    DEF U!post_booking_form, U!Discounted, U!ByOthers, U!row, UseInv, U!TypeOK, UnaskedHaveIt
  <2> QED BY <2>3, <2>5 DEF UseInv
<1>3. CASE ~U!UsageLeft
  <2>1. UNCHANGED <<discount, most>>
    BY <1>3 DEF U!post_booking_form
  <2>2. UnaskedHaveIt' /\ UsesCounted' /\ OpenBounded' /\ OneWasOpen' /\ OrdersCovered'
    BY <1>1, <2>1, MovesOn DEF Unpaid
  <2>3. U!TypeOK'
    BY <1>1, <2>1 DEF U!post_booking_form, U!Step, U!Steps, U!ByOthers, U!row, UseInv, U!TypeOK
  <2> QED BY <2>2, <2>3 DEF UseInv
<1> QED BY <1>2, <1>3
-----------------------------------------------------------------------------
(* The others who write the row.                                           *)

\* What is lost never becomes less, so that the bound on all orders stays.
LEMMA CoveredStays ==
    ASSUME UseInv, lost' \in Nat, lost' >= lost,
           UNCHANGED <<max, most, discount, unasked>>
    PROVE  UnaskedHaveIt' /\ OneWasOpen' /\ OrdersCovered'
<1>1. UnaskedHaveIt' /\ OneWasOpen'
  BY DEF UseInv, UnaskedHaveIt, OneWasOpen
<1>2. Cardinality(discount) \in Nat /\ Cardinality(unasked) \in Nat
  BY PartsOfOrders DEF UseInv, U!TypeOK
<1>3. max \in Nat /\ most \in Nat /\ lost \in Nat
  BY DEF UseInv, U!TypeOK
<1>4. max > 0 /\ discount # {} =>
        Cardinality(discount) <= max - 1 + most + lost + Cardinality(unasked)
  BY DEF UseInv, OrdersCovered
<1>5. OrdersCovered'
  BY <1>2, <1>3, <1>4 DEF OrdersCovered
<1> QED BY <1>1, <1>5

LEMMA PaidKeeps ==
    ASSUME UseInv, NEW o \in Orders, U!processing_ticket_paid(o)
    PROVE  UseInv'
<1>1. /\ UNCHANGED <<max, most, discount, unasked>> /\ U!Step(o, "paid")
      /\ max \in Nat /\ most \in Nat /\ lost \in Nat /\ count \in Nat
  BY DEF U!processing_ticket_paid, UseInv, U!TypeOK
<1>2. /\ lost' \in Nat /\ lost' >= lost /\ count' \in Nat
      /\ o \in discount => count' + lost' = count + lost + 1
      /\ o \notin discount => count' + lost' = count + lost
  BY <1>1 DEF U!processing_ticket_paid
<1>3. U!TypeOK'
  BY <1>1, <1>2
  DEF U!processing_ticket_paid, U!Step, U!Steps, U!ByOthers, U!row, UseInv, U!TypeOK
<1>4. UnaskedHaveIt' /\ OneWasOpen' /\ OrdersCovered'
  BY <1>1, <1>2, CoveredStays
<1>5. U!Paid \in SUBSET Orders /\ U!Open \in SUBSET Orders
  BY DEF U!Paid, U!Open, UseInv, U!TypeOK
<1>6. CASE o \in discount
  <2>1. U!Paid' = U!Paid \cup {o} /\ U!Open' = U!Open \ {o}
    BY <1>1, <1>6 DEF U!Paid, U!Open, U!Step, UseInv, U!TypeOK
  <2>2. /\ Cardinality(U!Paid) \in Nat /\ Cardinality(U!Open) \in Nat
        /\ Cardinality(U!Paid \cup {o}) <= Cardinality(U!Paid) + 1
        /\ Cardinality(U!Open \ {o}) <= Cardinality(U!Open)
        /\ Cardinality(U!Paid \cup {o}) \in Nat /\ Cardinality(U!Open \ {o}) \in Nat
    BY <1>5, OneOrder
  <2>3. Cardinality(U!Paid) <= count + lost /\ Cardinality(U!Open) <= most
    BY DEF UseInv, UsesCounted, OpenBounded
  <2>6. count' + lost' = count + lost + 1 /\ most' = most
    BY <1>1, <1>2, <1>6
  <2>4. Cardinality(U!Paid \cup {o}) <= count' + lost' /\ Cardinality(U!Open \ {o}) <= most'
    BY <1>1, <2>6, <2>2, <2>3
  <2>5. UsesCounted' /\ OpenBounded'
    BY <2>1, <2>4 DEF UsesCounted, OpenBounded
  <2> QED BY <1>3, <1>4, <2>5 DEF UseInv
<1>7. CASE o \notin discount
  <2>1. U!Paid' = U!Paid /\ U!Open' = U!Open
    BY <1>1, <1>7 DEF U!Paid, U!Open, U!Step, UseInv, U!TypeOK
  <2>2. UsesCounted' /\ OpenBounded'
    BY <1>1, <1>2, <1>7, <2>1 DEF UseInv, UsesCounted, OpenBounded
  <2> QED BY <1>3, <1>4, <2>2 DEF UseInv
<1> QED BY <1>6, <1>7

\* Whatever is written over the counter, it is lost if it was more.
LEMMA WriteKeeps ==
    ASSUME UseInv, NEW n \in Nat, U!Write(n),
           offered' \in BOOLEAN, sheet' = sheet, edits' \in Nat, form' \in Nat \cup {U!Closed}
    PROVE  UseInv'
<1>1. /\ UNCHANGED <<max, most, discount, order, deliveries, unasked>> /\ count' = n
      /\ lost' = lost + U!Larger(count - n, 0)
      /\ count \in Nat /\ lost \in Nat
  BY DEF U!Write, U!orderVars, UseInv, U!TypeOK
<1>2. lost' \in Nat /\ lost' >= lost /\ count' + lost' >= count + lost
  BY <1>1 DEF U!Larger
<1>3. U!TypeOK'
  BY <1>1, <1>2 DEF UseInv, U!TypeOK
<1>4. UnaskedHaveIt' /\ OneWasOpen' /\ OrdersCovered'
  BY <1>1, <1>2, CoveredStays
<1>5. U!Paid' = U!Paid /\ U!Open' = U!Open
  BY <1>1 DEF U!Paid, U!Open
<1>6. Cardinality(U!Paid) \in Nat
  BY PartsOfOrders DEF U!Paid, UseInv, U!TypeOK
<1>7. UsesCounted' /\ OpenBounded'
  BY <1>1, <1>2, <1>5, <1>6 DEF UseInv, UsesCounted, OpenBounded
<1> QED BY <1>3, <1>4, <1>7 DEF UseInv

\* What the bounds speak of stays as it is.
LEMMA QuietUseKeeps ==
    ASSUME UseInv, UNCHANGED <<max, count, lost, most, order, discount, unasked>>
    PROVE  UnaskedHaveIt' /\ UsesCounted' /\ OpenBounded' /\ OneWasOpen' /\ OrdersCovered'
<1>1. U!Paid' = U!Paid /\ U!Open' = U!Open
  BY DEF U!Paid, U!Open
<1> QED BY <1>1 DEF UseInv, UnaskedHaveIt, UsesCounted, OpenBounded, OneWasOpen, OrdersCovered

LEMMA OthersKeep ==
    ASSUME UseInv,
           \/ U!handle_promotion_to_update \/ U!promotion_confirm_save
           \/ U!copy_to_sheet \/ U!update_promotions_from_googlesheets
    PROVE  UseInv'
<1>1. CASE U!handle_promotion_to_update
  <2>1. UnaskedHaveIt' /\ UsesCounted' /\ OpenBounded' /\ OneWasOpen' /\ OrdersCovered'
    BY <1>1, QuietUseKeeps DEF U!handle_promotion_to_update, U!row, U!orderVars
  <2>2. U!TypeOK'
    BY <1>1 DEF U!handle_promotion_to_update, U!row, U!orderVars, UseInv, U!TypeOK
  <2> QED BY <2>1, <2>2 DEF UseInv
<1>2. CASE U!promotion_confirm_save
  <2>1. form \in Nat /\ U!Write(form) /\ offered' \in BOOLEAN /\ UNCHANGED <<sheet, edits>>
        /\ form' = U!Closed /\ edits \in Nat
    BY <1>2 DEF U!promotion_confirm_save, UseInv, U!TypeOK
  <2> QED BY <2>1, WriteKeeps
<1>3. CASE U!copy_to_sheet
  <2>1. UnaskedHaveIt' /\ UsesCounted' /\ OpenBounded' /\ OneWasOpen' /\ OrdersCovered'
    BY <1>3, QuietUseKeeps DEF U!copy_to_sheet, U!row, U!orderVars
  <2>2. U!TypeOK'
    BY <1>3 DEF U!copy_to_sheet, U!row, U!orderVars, UseInv, U!TypeOK
  <2> QED BY <2>1, <2>2 DEF UseInv
<1>4. CASE U!update_promotions_from_googlesheets
  <2>1. sheet \in Nat /\ U!Write(sheet) /\ offered' \in BOOLEAN /\ UNCHANGED <<form, sheet>>
        /\ edits' \in Nat /\ form \in Nat \cup {U!Closed}
    BY <1>4 DEF U!update_promotions_from_googlesheets, UseInv, U!TypeOK
  <2> QED BY <2>1, WriteKeeps
<1> QED BY <1>1, <1>2, <1>3, <1>4
-----------------------------------------------------------------------------
LEMMA UseInit ==
    ASSUME U!Init
    PROVE  UseInv
<1>1. U!TypeOK /\ UnaskedHaveIt /\ OneWasOpen /\ OrdersCovered
  BY PartsAssumption DEF U!Init, U!TypeOK, U!Steps, UnaskedHaveIt, OneWasOpen, OrdersCovered
<1>2. U!Paid = {} /\ U!Open = {}
  BY DEF U!Init, U!Paid, U!Open
<1>3. Cardinality(U!Paid) = 0 /\ Cardinality(U!Open) = 0
  BY <1>2, FS_EmptySet, Zenon
<1>4. UsesCounted /\ OpenBounded
  BY <1>3 DEF U!Init, UsesCounted, OpenBounded
<1> QED BY <1>1, <1>4 DEF UseInv

LEMMA UseStep ==
    ASSUME UseInv, [U!Next]_(U!vars)
    PROVE  UseInv'
<1>1. ASSUME NEW o \in Orders, U!handle_promo_code_input(o) PROVE UseInv'
  BY <1>1, InputKeeps
<1>2. ASSUME NEW o \in Orders, U!apply_option_promo(o) PROVE UseInv'
  BY <1>2, OptionKeeps
<1>3. ASSUME NEW o \in Orders, U!reset_promo(o) PROVE UseInv'
  BY <1>3, ResetKeeps
<1>4. ASSUME NEW o \in Orders, U!create_and_send_payment(o) PROVE UseInv'
  BY <1>4, PaymentMadeKeeps
<1>5. ASSUME NEW o \in Orders, U!check_promo(o) PROVE UseInv'
  BY <1>5, PromoCheckKeeps
<1>6. ASSUME NEW o \in Orders, U!post_booking_form(o) PROVE UseInv'
  BY <1>6, WebFormKeeps
<1>7. ASSUME NEW o \in Orders, U!processing_ticket_paid(o) PROVE UseInv'
  BY <1>7, PaidKeeps
<1>8. CASE UNCHANGED U!vars
  <2>1. UnaskedHaveIt' /\ UsesCounted' /\ OpenBounded' /\ OneWasOpen' /\ OrdersCovered'
    BY <1>8, QuietUseKeeps DEF U!vars, U!row, U!orderVars
  <2>2. U!TypeOK'
    BY <1>8 DEF U!vars, U!row, U!orderVars, UseInv, U!TypeOK
  <2> QED BY <2>1, <2>2 DEF UseInv
<1> QED BY <1>1, <1>2, <1>3, <1>4, <1>5, <1>6, <1>7, <1>8, OthersKeep DEF U!Next

LEMMA UseWithinLimit == UseInv => U!LimitHolds
<1> SUFFICES ASSUME UseInv, max > 0
    PROVE  Cardinality(U!Paid) <= max + U!Larger(most - 1, 0) + lost + Cardinality(unasked)
  BY SameCardinality DEF U!LimitHolds
<1>1. /\ discount \in SUBSET Orders /\ U!Paid \in SUBSET discount /\ unasked \in SUBSET Orders
      /\ max \in Nat /\ most \in Nat /\ lost \in Nat
  BY DEF UseInv, U!TypeOK, U!Paid
<1>2. /\ Cardinality(discount) \in Nat /\ Cardinality(U!Paid) \in Nat
      /\ Cardinality(U!Paid) <= Cardinality(discount)
      /\ discount = {} => Cardinality(discount) = 0
  BY <1>1, PartsOfOrders
<1>3. Cardinality(unasked) \in Nat
  BY <1>1, PartsOfOrders
<1>4. U!Larger(most - 1, 0) \in Nat /\ U!Larger(most - 1, 0) >= most - 1
  BY <1>1 DEF U!Larger
<1>5. CASE discount = {}
  BY <1>1, <1>2, <1>3, <1>4, <1>5
<1>6. CASE discount # {}
  <2>1. Cardinality(discount) <= max - 1 + most + lost + Cardinality(unasked)
    BY <1>6 DEF UseInv, OrdersCovered
  <2> QED BY <1>1, <1>2, <1>3, <1>4, <2>1
<1> QED BY <1>5, <1>6

-----------------------------------------------------------------------------
(* The parts together.                                                     *)

DialogsInv ==
    /\ part = "children" => ChildrenInv
    /\ part = "sales" => SalesInv
    /\ part = "promotion" => PromotionInv
    /\ part = "schedule" => ScheduleInv
    /\ part = "birthday" => BirthdayInv
    /\ part = "use" => UseInv

LEMMA DialogsInit == PartsInit => DialogsInv
BY ChildrenInit, SalesInit, PromotionInit, ScheduleInit, BirthdayInit, UseInit
   DEF PartsInit, DialogsInv

\* Only the part that runs takes steps, and it goes on running.
LEMMA PartSteps ==
    ASSUME [PartsNext]_partsVars
    PROVE  /\ part' = part
           /\ part = "children" => [F!Next]_(F!vars)
           /\ part = "sales" => [M!Next]_(M!vars)
           /\ part = "promotion" => [C!Next]_(C!vars)
           /\ part = "schedule" => [S!Next]_(S!vars)
           /\ part = "birthday" => [B!Next]_(B!vars)
           /\ part = "use" => [U!Next]_(U!vars)
<1>1. part' = part
  BY DEF PartsNext, partsVars
<1>2. ASSUME part = "children" PROVE [F!Next]_(F!vars)
  BY <1>2 DEF PartsNext, partsVars, sharedVars, childrenVars, salesVars,
     scheduleVars, useVars, birthdayVars, F!vars
<1>3. ASSUME part = "sales" PROVE [M!Next]_(M!vars)
  BY <1>3 DEF PartsNext, partsVars, sharedVars, childrenVars, salesVars,
     scheduleVars, useVars, birthdayVars, M!vars
<1>4. ASSUME part = "promotion" PROVE [C!Next]_(C!vars)
  BY <1>4 DEF PartsNext, partsVars, sharedVars, childrenVars, salesVars,
     scheduleVars, useVars, birthdayVars, C!vars, C!menu, C!own
<1>5. ASSUME part = "schedule" PROVE [S!Next]_(S!vars)
  BY <1>5 DEF PartsNext, partsVars, sharedVars, childrenVars, salesVars,
     scheduleVars, useVars, birthdayVars, S!vars, S!menu, S!own, S!table
<1>6. ASSUME part = "birthday" PROVE [B!Next]_(B!vars)
  BY <1>6 DEF PartsNext, partsVars, sharedVars, childrenVars, salesVars,
     scheduleVars, useVars, birthdayVars, B!vars
<1>7. ASSUME part = "use" PROVE [U!Next]_(U!vars)
  BY <1>7 DEF PartsNext, partsVars, sharedVars, childrenVars, salesVars,
     scheduleVars, useVars, birthdayVars, U!vars, U!row, U!orderVars
<1> QED BY <1>1, <1>2, <1>3, <1>4, <1>5, <1>6, <1>7

LEMMA DialogsStep ==
    ASSUME DialogsInv, [PartsNext]_partsVars
    PROVE  DialogsInv'
<1>1. part' = part
  BY PartSteps
<1>2. ASSUME part = "children" PROVE ChildrenInv'
  BY <1>2, PartSteps, ChildrenStep DEF DialogsInv
<1>3. ASSUME part = "sales" PROVE SalesInv'
  BY <1>3, PartSteps, SalesStep DEF DialogsInv
<1>4. ASSUME part = "promotion" PROVE PromotionInv'
  BY <1>4, PartSteps, PromotionStep DEF DialogsInv
<1>5. ASSUME part = "schedule" PROVE ScheduleInv'
  BY <1>5, PartSteps, ScheduleStep DEF DialogsInv
<1>6. ASSUME part = "birthday" PROVE BirthdayInv'
  BY <1>6, PartSteps, BirthdayStep DEF DialogsInv
<1>7. ASSUME part = "use" PROVE UseInv'
  BY <1>7, PartSteps, UseStep DEF DialogsInv
<1> QED BY <1>1, <1>2, <1>3, <1>4, <1>5, <1>6, <1>7 DEF DialogsInv

LEMMA DialogsAlways == PartsSpec => []DialogsInv
<1>1. DialogsInv /\ [PartsNext]_partsVars => DialogsInv'
  BY DialogsStep
<1> QED BY DialogsInit, <1>1, PTL DEF PartsSpec

\* Every child that is marked when the form is confirmed is in the booking,
\* unless it is not (or no longer) one of the account's own, whoever removes
\* children meanwhile and however often a button is pressed twice
\* (handlers/reserve/input.py and common.py).
THEOREM MarkedChildrenAreBooked == PartsSpec => []ChosenAreBooked
<1>1. DialogsInv => ChosenAreBooked
  BY MarkedAreBooked DEF DialogsInv, ChosenAreBooked
<1> QED BY <1>1, DialogsAlways, PTL

\* A name and an age that are typed make a new child after "add" and rename
\* the child the last question was about, and never another one
\* (handlers/reserve/input.py, get_children).
THEOREM TypedIsAnswer == PartsSpec => TypedGoesWhereAsked
<1>1. DialogsInv /\ [PartsNext]_partsVars =>
        [part = "children" => F!TypedAsAsked]_childrenVars
  <2>1. ASSUME DialogsInv, [PartsNext]_partsVars, part = "children",
               UNCHANGED last
        PROVE  F!TypedAsAsked
    BY <2>1 DEF F!TypedAsAsked
  <2> QED BY <2>1, PartSteps, ChildrenStep DEF DialogsInv
<1> QED BY <1>1, DialogsAlways, PTL DEF PartsSpec, TypedGoesWhereAsked

\* The campaign that is started goes to the people, for the plays and the
\* showings that were selected last, in any walk back and forth through the
\* dialog (handlers/sales_hl.py).
THEOREM CampaignIsSelected == PartsSpec => StartedAsSelected
<1>1. DialogsInv /\ [PartsNext]_partsVars =>
        [part = "sales" => M!AsSelected]_salesVars
  <2>1. ASSUME UNCHANGED row PROVE M!AsSelected \/ row' = row
    BY <2>1
  <2>2. ASSUME part = "sales", DialogsInv, [PartsNext]_partsVars
        PROVE  M!AsSelected \/ UNCHANGED row
    BY <2>2, PartSteps, SalesStep DEF DialogsInv
  <2> QED BY <2>2 DEF M!AsSelected
<1> QED BY <1>1, DialogsAlways, PTL DEF PartsSpec, StartedAsSelected

\* A promo code is written as the summary showed it that was confirmed, for
\* any number of forms, edits and presses of buttons of older messages
\* (handlers/promotion_hl.py).
THEOREM CodeIsAsShown == PartsSpec => SavedAsShown
<1>1. DialogsInv /\ [PartsNext]_partsVars =>
        [part = "promotion" => C!AsShown]_rows
  BY PartSteps, PromotionStep DEF DialogsInv
<1> QED BY <1>1, DialogsAlways, PTL DEF PartsSpec, SavedAsShown

\* "Back" in the form of a promo code comes to a screen of this form that was
\* sent, but for the ways out that the property names
\* (handlers/promotion_hl.py).
THEOREM BackFindsItsScreen == PartsSpec => []BackIsKnown
<1>1. DialogsInv => BackIsKnown
  BY BackOfForm DEF DialogsInv, BackIsKnown
<1> QED BY <1>1, DialogsAlways, PTL

\* The form of a showing writes back the counter of free seats it has loaded
\* only where that is the one in the table, unless somebody has booked since
\* (handlers/schedule_hl.py).
THEOREM SavingKeepsSeats == PartsSpec => []FreeSeatsKept
<1>1. DialogsInv => FreeSeatsKept
  BY DEF DialogsInv, ScheduleInv, FreeSeatsKept
<1> QED BY <1>1, DialogsAlways, PTL

\* The handler of a form that is filled in from its start, without a button of
\* an older message, finds in user_data all it reads
\* (handlers/schedule_hl.py).
THEOREM StraightFormIsSaved == PartsSpec => StraightNeverFails
<1>1. DialogsInv /\ [PartsNext]_partsVars =>
        [part = "schedule" => S!NoFailure]_at
  <2>1. ASSUME part = "schedule", DialogsInv, [PartsNext]_partsVars
        PROVE  S!NoFailure \/ UNCHANGED S!vars
    BY <2>1, PartSteps, ScheduleStep DEF DialogsInv
  <2>2. UNCHANGED S!vars => at' = at
    BY DEF S!vars, S!menu
  <2> QED BY <2>1, <2>2
<1> QED BY <1>1, DialogsAlways, PTL DEF PartsSpec, StraightNeverFails

\* A party that is ordered is one of the theatre's: its place, its format and
\* its numbers go together as long as no button of an earlier form was pressed
\* (handlers/birthday_hl.py).
THEOREM PartyIsOffered == PartsSpec => []OrderFits
<1>1. DialogsInv => OrderFits
  BY DEF DialogsInv, BirthdayInv, OrderFits
<1> QED BY <1>1, DialogsAlways, PTL

\* A code is used beyond its limit only by orders open at once, by the orders
\* that were given it unasked and by the uses an edit has lost
\* (handlers/reserve/pay.py, api/yookassa_hl.py).
THEOREM CodeLimitHolds == PartsSpec => []LimitHolds
<1>1. DialogsInv => LimitHolds
  BY UseWithinLimit DEF DialogsInv, LimitHolds
<1> QED BY <1>1, DialogsAlways, PTL
=============================================================================
