------------------------- MODULE ReserveDialogProofs -------------------------
(***************************************************************************)
(* The booking dialogs for any showings, tickets and number of commands.   *)
(*                                                                         *)
(* None of the properties is inductive: whether a button is answered, and  *)
(* the key a handler reads is there, depends on every screen that "back"   *)
(* may still bring again.  DialogInv says it of all of them: for a dialog  *)
(* that was started with no other open, the data hold what the user has    *)
(* gone through on the way to the state he is in (Reached), and to every   *)
(* state whose screen is saved (Ways), whose buttons have their handlers   *)
(* there (Fits); prices go with the showing and the ticket chosen last     *)
(* (Paid); and user_data['STATE'] is the state of the conversation but for *)
(* four places where the code forgets it (InStep).                         *)
(*                                                                         *)
(* The proof is one lemma per handler, over lemmas on the few ways in      *)
(* which a handler ends (Show, Move, End, EndClean, Fault, To).            *)
(***************************************************************************)
EXTENDS ReserveDialog, TLAPS

-----------------------------------------------------------------------------
(* Types.                                                                  *)

\* The data keep their fields.
Shape(d) ==
    d = [alive |-> d.alive, lists |-> d.lists, back |-> d.back,
         event |-> d.event, text |-> d.text, theater |-> d.theater,
         ticket |-> d.ticket, price |-> d.price, discount |-> d.discount,
         carried |-> d.carried, shown |-> d.shown, old |-> d.old, prompt |-> d.prompt,
         sold |-> d.sold]

\* Two handlers make a "back" to the state itself: their buttons are shown in
\* a state that "back" can lead to.
ScreenFits(s, buttons) ==
    /\ buttons \subseteq Buttons
    /\ \A i \in buttons : i[1] = "WAIT" => s \in {"TICKET", "CHOOSING"}
    /\ \A i \in buttons : i[1] = "id" => s = "1"

DataTyped(d) ==
    /\ Shape(d)
    /\ d.lists \subseteq States
    /\ DOMAIN d.back \subseteq States
    /\ \A s \in DOMAIN d.back : ScreenFits(s, d.back[s])
    /\ {d.event, d.text} \subseteq {"none"} \cup Events
    /\ d.ticket \in {"none"} \cup Tickets
    /\ {d.price, d.discount} \subseteq Price /\ d.carried \in BOOLEAN

TypeInv ==
    /\ TypeOK /\ DataTyped(data)
    /\ data.alive => ScreenFits(state, screen)

-----------------------------------------------------------------------------
(* A dialog with its own data.                                             *)

\* Up to the choice of a ticket, and after it.
Early == {"0", "1", "2", "MODE", "REP_GROUP", "MONTH", "SHOW", "DATE", "TIME",
          "LIST", "LIST_WAIT", "CHOOSING", "TICKET", "PHONE_FOR_WAITING"}
Late == {"OFFER", "EMAIL", "FORMA", "PHONE", "CHILDREN", "CONFIRM_RESERVATION",
         "PROMOCODE_INPUT", "PAID", "WAIT_RECEIPT", "WAIT_DOCUMENT"}

\* States that a conversation comes to and does not answer in.
Deaf == [c \in Convs |-> CASE c = "list_wait" -> {"DATE"}
                           [] c = "reserve_admin" -> {"PAID"}
                           [] OTHER -> {}]

\* A button that state s of c has answers, or is one of those listed; "back"
\* does not lead past the choice of the ticket, and to the summary from the
\* question for a code only.
Answered(c, s, i) ==
    s \in StatesOf[c] /\ \/ i[1] = "back" /\ i[2] \in BackTargets(c, s)
                         \/ i = Cancel
                         \/ i[1] \in Kinds(c, s)
Silent(c, s, i) ==
    \/ i = Btn("WAIT") /\ s = "TICKET" /\ c # "reserve"
    \/ i = Back("CHOOSING") /\ s = "PHONE_FOR_WAITING"
    \/ s \in Deaf[c]
Fits(c, s, i) ==
    /\ Answered(c, s, i) \/ Silent(c, s, i)
    /\ i[1] = "back" =>
         /\ s \in Early => i[2] \in Early \cup {""}
         /\ i[2] = "CONFIRM_RESERVATION" => s = "PROMOCODE_INPUT"
         /\ i[2] # "PROMOCODE_INPUT"

\* What has been put into the data on the way to state s.
Reached(c, d, s) ==
    /\ s \in StatesOf[c] \cup Deaf[c]
    /\ s \in {"MONTH", "SHOW", "DATE"} => s \in d.lists
    /\ s = "TICKET" /\ c = "reserve" => "TIME" \in DOMAIN d.back
    /\ s = "LIST_WAIT" => d.theater
    /\ s \in Late \cup {"TICKET", "CHOOSING", "PHONE_FOR_WAITING"} =>
           d.event # "none"
    /\ s \in Late => /\ c # "migration_admin"
                     /\ d.ticket # "none" /\ d.price[2] # "none"
    /\ s \in {"PAID", "WAIT_RECEIPT"} => d.sold[2] # NoPrice
    /\ c = "migration_admin" /\ s # "0" => d.old = "ticket"

Ways(c, d) ==
    /\ \A s \in DOMAIN d.back :
         Reached(c, d, s) /\ \A i \in d.back[s] : Fits(c, s, i)
    /\ c = "reserve" => d.text = d.event

\* The price is that of the showing and the ticket, the payment that of the
\* summary.
Paid(d, s) ==
    /\ s \in Late => /\ d.price = <<d.event, d.ticket>>
                     /\ d.discount \in {NoPrice, d.price} \/ d.carried
    /\ s \in {"CONFIRM_RESERVATION", "PROMOCODE_INPUT"} => d.shown = ToPay(d)
    /\ s = "PAID" => d.sold = d.shown

\* The state in user_data is that of the conversation, but for these.
InStep(c) ==
    \/ conv[c] = state
    \/ conv[c] = "TIME"
    \/ conv[c] = "MODE" /\ screen = {}
    \/ conv[c] = "1" /\ c = "migration_admin"

CommandsOf(c) == IF c = "reserve" THEN {"reserve", "list"} ELSE {c}

Own(c) ==
    /\ \A k \in Convs : k # c => conv[k] = "none"
    /\ data.alive /\ command \in CommandsOf(c)
    /\ Ways(c, data)
    /\ conv[c] = "none" => screen = {}
    /\ conv[c] # "none" =>
         /\ Reached(c, data, conv[c]) /\ Paid(data, conv[c]) /\ InStep(c)
         /\ conv[c] = "TIME" => "TIME" \in DOMAIN data.back
         /\ \A i \in screen : Fits(c, conv[c], i)

OwnInv == /\ \A c \in Convs : owner = c => Own(c)
          /\ OwnDialogNeverFails

\* Nobody's data are gone; a command is left only where no button is.
Nobodys == owner = "none" => ~data.alive /\ (command = "none" \/ screen = {})

DialogInv == TypeInv /\ OwnInv /\ Nobodys
-----------------------------------------------------------------------------
(* The tables of the conversations, line by line.                          *)

LEMMA StatesAre ==
    /\ StatesOf["reserve"] =
         {"MONTH", "SHOW", "DATE", "TIME", "FORMA", "PHONE", "CHILDREN",
          "TICKET", "OFFER", "EMAIL", "PAID", "WAIT_RECEIPT", "WAIT_DOCUMENT",
          "LIST", "CHOOSING", "MODE", "REP_GROUP", "PHONE_FOR_WAITING",
          "CONFIRM_RESERVATION", "PROMOCODE_INPUT"}
    /\ StatesOf["reserve_admin"] =
         {"MONTH", "SHOW", "DATE", "TIME", "FORMA", "PHONE", "CHILDREN",
          "1", "2", "TICKET", "CONFIRM_RESERVATION", "PROMOCODE_INPUT"}
    /\ StatesOf["list_wait"] = {"MONTH", "SHOW", "LIST_WAIT"}
    /\ StatesOf["migration_admin"] =
         {"MONTH", "SHOW", "DATE", "TIME", "FORMA", "PHONE", "CHILDREN",
          "0", "1", "2", "TICKET"}
BY DEF StatesOf, CommonStates

LEMMA AllStates == States = Early \cup Late
<1>1. \A s \in States : s \in Early \cup Late
  BY StatesAre DEF States, Convs, Early, Late
<1>2. \A s \in Early \cup Late :
        \/ s \in StatesOf["reserve"] \/ s \in StatesOf["reserve_admin"]
        \/ s \in StatesOf["list_wait"] \/ s \in StatesOf["migration_admin"]
  BY StatesAre DEF Early, Late
<1>3. \A s \in Early \cup Late : s \in States
  BY <1>2 DEF States, Convs
<1> QED BY <1>1, <1>3

LEMMA KindsAre ==
    ASSUME NEW c
    PROVE  /\ Kinds(c, "MONTH") = {"MONTH"}
           /\ Kinds(c, "SHOW") = {"SHOW", "SHOW_PAGE"}
           /\ Kinds(c, "DATE") = {"DATE"} /\ Kinds(c, "TIME") = {"TIME"}
           /\ Kinds(c, "LIST") = {"LIST"} /\ Kinds(c, "LIST_WAIT") = {"LIST_WAIT"}
           /\ Kinds(c, "REP_GROUP") = {"REP_GROUP"}
           /\ Kinds(c, "FORMA") = {"adult_confirm", "text", "accept"}
           /\ Kinds(c, "PHONE") = {"phone_confirm", "text", "accept"}
           /\ Kinds(c, "PHONE_FOR_WAITING") = {"phone_confirm", "text", "accept"}
           /\ Kinds(c, "CHILDREN") = {"children chosen", "text", "accept"}
           /\ Kinds(c, "TICKET") = {"TICKET"} \cup
                  (IF c = "reserve" THEN {"WAIT"} ELSE {})
           /\ Kinds(c, "OFFER") = {"accept"}
           /\ Kinds(c, "EMAIL") = {"email_confirm", "text", "accept"}
           /\ Kinds(c, "PAID") = {"confirm_payment", "photo"}
           /\ Kinds(c, "WAIT_RECEIPT") = {"photo"}
           /\ Kinds(c, "WAIT_DOCUMENT") = {"photo"}
           /\ Kinds(c, "CHOOSING") = {"OTHER_TIME", "WAIT"}
           /\ Kinds(c, "MODE") = {"MODE_DATE", "MODE_REPERTOIRE"}
           /\ Kinds(c, "CONFIRM_RESERVATION") =
                  {"PAY", "CONFIRM_WITHOUT_PAY", "RESET_PROMO", "PROMO",
                   "PROMO_OPTION"}
           /\ Kinds(c, "PROMOCODE_INPUT") = {"text", "accept"}
           /\ Kinds(c, "2") = {"text", "accept"} /\ Kinds(c, "0") = {"text", "accept"}
           /\ Kinds(c, "1") = {"params", "id"} \cup
                  (IF c = "migration_admin" THEN {"migration", "update"} ELSE {})
BY DEF Kinds

\* The state s of c that answers k.
Where(c, k, s) ==
    /\ k = "MONTH" => s = "MONTH"
    /\ k \in {"SHOW", "SHOW_PAGE"} => s = "SHOW"
    /\ k = "DATE" => s = "DATE"
    /\ k = "TIME" => s = "TIME"
    /\ k = "LIST" => s = "LIST"
    /\ k = "LIST_WAIT" => s = "LIST_WAIT"
    /\ k = "REP_GROUP" => s = "REP_GROUP"
    /\ k \in {"MODE_DATE", "MODE_REPERTOIRE"} => s = "MODE"
    /\ k = "adult_confirm" => s = "FORMA"
    /\ k = "phone_confirm" => s \in {"PHONE", "PHONE_FOR_WAITING"}
    /\ k = "children chosen" => s = "CHILDREN"
    /\ k = "TICKET" => s = "TICKET"
    /\ k = "WAIT" => s \in {"TICKET", "CHOOSING"} /\ (s = "TICKET" => c = "reserve")
    /\ k = "email_confirm" => s = "EMAIL"
    /\ k = "confirm_payment" => s = "PAID"
    /\ k = "OTHER_TIME" => s = "CHOOSING"
    /\ k \in {"PAY", "CONFIRM_WITHOUT_PAY", "RESET_PROMO", "PROMO",
              "PROMO_OPTION"} => s = "CONFIRM_RESERVATION"
    /\ k \in {"params", "id"} => s = "1"
    /\ k \in {"migration", "update"} => s = "1" /\ c = "migration_admin"

LEMMA StateOfKey ==
    ASSUME NEW c, NEW s \in States, NEW k \in Kinds(c, s) PROVE Where(c, k, s)
<1>1. CASE s = "0"
  <2>1. k \in {"text", "accept"}
    BY <1>1, KindsAre
  <2> QED BY <1>1, <2>1 DEF Where
<1>2. CASE s = "1"
  <2>1. k \in {"params", "id"} \cup (IF c = "migration_admin" THEN {"migration", "update"} ELSE {})
    BY <1>2, KindsAre
  <2> QED BY <1>2, <2>1 DEF Where
<1>3. CASE s = "2"
  <2>1. k \in {"text", "accept"}
    BY <1>3, KindsAre
  <2> QED BY <1>3, <2>1 DEF Where
<1>4. CASE s = "MODE"
  <2>1. k \in {"MODE_DATE", "MODE_REPERTOIRE"}
    BY <1>4, KindsAre
  <2> QED BY <1>4, <2>1 DEF Where
<1>5. CASE s = "REP_GROUP"
  <2>1. k \in {"REP_GROUP"}
    BY <1>5, KindsAre
  <2> QED BY <1>5, <2>1 DEF Where
<1>6. CASE s = "MONTH"
  <2>1. k \in {"MONTH"}
    BY <1>6, KindsAre
  <2> QED BY <1>6, <2>1 DEF Where
<1>7. CASE s = "SHOW"
  <2>1. k \in {"SHOW", "SHOW_PAGE"}
    BY <1>7, KindsAre
  <2> QED BY <1>7, <2>1 DEF Where
<1>8. CASE s = "DATE"
  <2>1. k \in {"DATE"}
    BY <1>8, KindsAre
  <2> QED BY <1>8, <2>1 DEF Where
<1>9. CASE s = "TIME"
  <2>1. k \in {"TIME"}
    BY <1>9, KindsAre
  <2> QED BY <1>9, <2>1 DEF Where
<1>10. CASE s = "LIST"
  <2>1. k \in {"LIST"}
    BY <1>10, KindsAre
  <2> QED BY <1>10, <2>1 DEF Where
<1>11. CASE s = "LIST_WAIT"
  <2>1. k \in {"LIST_WAIT"}
    BY <1>11, KindsAre
  <2> QED BY <1>11, <2>1 DEF Where
<1>12. CASE s = "CHOOSING"
  <2>1. k \in {"OTHER_TIME", "WAIT"}
    BY <1>12, KindsAre
  <2> QED BY <1>12, <2>1 DEF Where
<1>13. CASE s = "TICKET"
  <2>1. k \in {"TICKET"} \cup (IF c = "reserve" THEN {"WAIT"} ELSE {})
    BY <1>13, KindsAre
  <2> QED BY <1>13, <2>1 DEF Where
<1>14. CASE s = "PHONE_FOR_WAITING"
  <2>1. k \in {"phone_confirm", "text", "accept"}
    BY <1>14, KindsAre
  <2> QED BY <1>14, <2>1 DEF Where
<1>15. CASE s = "OFFER"
  <2>1. k \in {"accept"}
    BY <1>15, KindsAre
  <2> QED BY <1>15, <2>1 DEF Where
<1>16. CASE s = "EMAIL"
  <2>1. k \in {"email_confirm", "text", "accept"}
    BY <1>16, KindsAre
  <2> QED BY <1>16, <2>1 DEF Where
<1>17. CASE s = "FORMA"
  <2>1. k \in {"adult_confirm", "text", "accept"}
    BY <1>17, KindsAre
  <2> QED BY <1>17, <2>1 DEF Where
<1>18. CASE s = "PHONE"
  <2>1. k \in {"phone_confirm", "text", "accept"}
    BY <1>18, KindsAre
  <2> QED BY <1>18, <2>1 DEF Where
<1>19. CASE s = "CHILDREN"
  <2>1. k \in {"children chosen", "text", "accept"}
    BY <1>19, KindsAre
  <2> QED BY <1>19, <2>1 DEF Where
<1>20. CASE s = "CONFIRM_RESERVATION"
  <2>1. k \in {"PAY", "CONFIRM_WITHOUT_PAY", "RESET_PROMO", "PROMO", "PROMO_OPTION"}
    BY <1>20, KindsAre
  <2> QED BY <1>20, <2>1 DEF Where
<1>21. CASE s = "PROMOCODE_INPUT"
  <2>1. k \in {"text", "accept"}
    BY <1>21, KindsAre
  <2> QED BY <1>21, <2>1 DEF Where
<1>22. CASE s = "PAID"
  <2>1. k \in {"confirm_payment", "photo"}
    BY <1>22, KindsAre
  <2> QED BY <1>22, <2>1 DEF Where
<1>23. CASE s = "WAIT_RECEIPT"
  <2>1. k \in {"photo"}
    BY <1>23, KindsAre
  <2> QED BY <1>23, <2>1 DEF Where
<1>24. CASE s = "WAIT_DOCUMENT"
  <2>1. k \in {"photo"}
    BY <1>24, KindsAre
  <2> QED BY <1>24, <2>1 DEF Where
<1> QED BY <1>1, <1>2, <1>3, <1>4, <1>5, <1>6, <1>7, <1>8, <1>9, <1>10, <1>11, <1>12, <1>13, <1>14, <1>15, <1>16, <1>17, <1>18, <1>19, <1>20, <1>21, <1>22, <1>23, <1>24,
       AllStates DEF Early, Late

LEMMA TargetsAre ==
    ASSUME NEW c
    PROVE  /\ BackTargets(c, "MONTH") = {"MODE"}
           /\ BackTargets(c, "SHOW") = {"MONTH", "MODE"} \cup
                  (IF c = "list_wait" THEN {} ELSE {"REP_GROUP"})
           /\ BackTargets(c, "DATE") = {"MONTH", "SHOW"}
           /\ BackTargets(c, "TIME") = {"DATE", "SHOW"}
           /\ BackTargets(c, "TICKET") =
                  IF c = "reserve"
                  THEN {"TIME", "DATE", "SHOW", "MONTH", "MODE", "REP_GROUP"}
                  ELSE Anywhere
           /\ BackTargets(c, "OFFER") = {"TICKET"}
           /\ BackTargets(c, "EMAIL") = {"TICKET"}
           /\ BackTargets(c, "PHONE_FOR_WAITING") = {"TICKET"}
           /\ BackTargets(c, "CHOOSING") = {"TIME"}
           /\ BackTargets(c, "REP_GROUP") = {"MODE"}
           /\ BackTargets(c, "CONFIRM_RESERVATION") = {"CHILDREN"}
           /\ BackTargets(c, "PROMOCODE_INPUT") = {"CONFIRM_RESERVATION"}
           /\ BackTargets(c, "FORMA") = Anywhere
           /\ BackTargets(c, "PHONE") = Anywhere
           /\ BackTargets(c, "CHILDREN") = Anywhere
           /\ BackTargets(c, "LIST") = Anywhere
           /\ BackTargets(c, "2") = Anywhere
           /\ BackTargets(c, "LIST_WAIT") = Anywhere
           /\ BackTargets("migration_admin", "1") = Anywhere
<1>1. BackTargets(c, "TICKET") =
        IF c = "reserve"
        THEN {"TIME", "DATE", "SHOW", "MONTH", "MODE", "REP_GROUP"}
        ELSE Anywhere
  <2>1. CASE c = "reserve"
    BY <2>1 DEF BackTargets
  <2>2. CASE c # "reserve"
    BY <2>2 DEF BackTargets
  <2> QED BY <2>1, <2>2
<1> QED BY <1>1 DEF BackTargets

\* What a button consists of.
LEMMA ButtonParts ==
    /\ \A k : Btn(k)[1] = k /\ Btn(k)[2] = ""
    /\ \A s : Back(s)[1] = "back" /\ Back(s)[2] = s
    /\ Cancel = Btn("cancel")
    /\ \A k, x : <<k, x>>[1] = k /\ <<k, x>>[2] = x
    /\ \A k : Btn(k) = <<k, "">>
    /\ \A s : Back(s) = <<"back", s>>
BY DEF Btn, Back, Cancel

\* A press comes from the screen, to an open conversation.
LEMMA TakesOpen ==
    ASSUME NEW c \in Convs, NEW i, Takes(c, i)
    PROVE  conv[c] \in StatesOf[c] /\ Answers(c, i)
           /\ i \in screen \cup Typed
BY DEF Takes, Answers

LEMMA StatesOpen ==
    ASSUME NEW c \in Convs, NEW s \in StatesOf[c]
    PROVE  s \in States /\ s # "none" /\ s # "END"
<1>1. s \in States
  BY DEF States
<1> QED BY <1>1, AllStates DEF Early, Late

LEMMA TakesKey ==
    ASSUME NEW c \in Convs, NEW k, NEW x, Takes(c, <<k, x>>),
           k \notin {"back", "cancel"}
    PROVE  /\ conv[c] \in StatesOf[c] /\ conv[c] \in States
           /\ k \in Kinds(c, conv[c])
           /\ k \notin {"text", "photo", "accept"} => <<k, x>> \in screen
<1>1. conv[c] \in StatesOf[c] /\ Answers(c, <<k, x>>) /\ <<k, x>> \in screen \cup Typed
  BY TakesOpen
<1>2. <<k, x>>[1] = k /\ <<k, x>> # Cancel
  BY ButtonParts
<1>3. k \in Kinds(c, conv[c])
  BY <1>1, <1>2 DEF Answers
<1>4. k \notin {"text", "photo", "accept"} => <<k, x>> \notin Typed
  BY ButtonParts DEF Typed
<1> QED BY <1>1, <1>3, <1>4, StatesOpen

LEMMA TakesBtn ==
    ASSUME NEW c \in Convs, NEW k, Takes(c, Btn(k)), k \notin {"back", "cancel"}
    PROVE  /\ conv[c] \in StatesOf[c] /\ conv[c] \in States
           /\ k \in Kinds(c, conv[c])
           /\ k \notin {"text", "photo", "accept"} => Btn(k) \in screen
<1>1. Btn(k) = <<k, "">>
  BY ButtonParts
<1>2. Takes(c, <<k, "">>)
  BY <1>1
<1> QED BY <1>1, <1>2, TakesKey

-----------------------------------------------------------------------------
(* Buttons that fit.                                                       *)

LEMMA KeyFits ==
    ASSUME NEW c, NEW s \in StatesOf[c], NEW k \in Kinds(c, s), k # "back"
    PROVE  Fits(c, s, Btn(k)) /\ \A x : Fits(c, s, <<k, x>>)
BY ButtonParts DEF Fits, Answered

LEMMA CancelFits ==
    ASSUME NEW c, NEW s \in StatesOf[c] PROVE Fits(c, s, Cancel)
BY ButtonParts DEF Fits, Answered

LEMMA BackFits ==
    ASSUME NEW c, NEW s \in StatesOf[c], NEW t \in BackTargets(c, s),
           s \in Early => t \in Early \cup {""},
           t = "CONFIRM_RESERVATION" => s = "PROMOCODE_INPUT",
           t # "PROMOCODE_INPUT"
    PROVE  Fits(c, s, Back(t))
BY ButtonParts DEF Fits, Answered

\* A button of a screen has a type.
LEMMA KeyIsButton ==
    ASSUME NEW c \in Convs, NEW s \in States, NEW k \in Kinds(c, s)
    PROVE  Btn(k) \in Buttons
BY DEF Buttons

LEMMA ButtonsAre ==
    /\ \A k \in {"MONTH", "SHOW", "SHOW_PAGE", "DATE", "LIST_WAIT", "REP_GROUP",
                 "adult_confirm", "phone_confirm", "children chosen", "WAIT",
                 "email_confirm", "confirm_payment", "OTHER_TIME", "MODE_DATE",
                 "MODE_REPERTOIRE", "PAY", "CONFIRM_WITHOUT_PAY",
                 "RESET_PROMO", "PROMO", "PROMO_OPTION", "params", "id",
                 "migration", "update"} : Btn(k) \in Buttons
    /\ Cancel \in Buttons
    /\ \A s \in Anywhere : Back(s) \in Buttons
    /\ \A e \in Events : <<"TIME", e>> \in Buttons /\ <<"LIST", e>> \in Buttons
    /\ \A t \in Tickets : <<"TICKET", t>> \in Buttons
<1>1. "reserve" \in Convs /\ "reserve_admin" \in Convs /\ "migration_admin" \in Convs
  BY DEF Convs
<1>2. \A s \in Early \cup Late : s \in States
  BY AllStates
<1>3. \A k \in {"MONTH", "SHOW", "SHOW_PAGE", "DATE", "LIST_WAIT", "REP_GROUP"} :
        \E s \in States : k \in Kinds("reserve", s)
  <2>1. {"MONTH", "SHOW", "DATE", "LIST_WAIT", "REP_GROUP"} \subseteq States
    BY <1>2 DEF Early
  <2> QED BY <2>1, KindsAre
<1>4. \A k \in {"adult_confirm", "phone_confirm", "children chosen", "WAIT",
                "email_confirm", "confirm_payment"} :
        \E s \in States : k \in Kinds("reserve", s)
  <2>1. {"FORMA", "PHONE", "CHILDREN", "CHOOSING", "EMAIL", "PAID"} \subseteq States
    BY <1>2 DEF Early, Late
  <2> QED BY <2>1, KindsAre
<1>5. \A k \in {"OTHER_TIME", "MODE_DATE", "MODE_REPERTOIRE", "PAY",
                "CONFIRM_WITHOUT_PAY", "RESET_PROMO", "PROMO", "PROMO_OPTION"} :
        \E s \in States : k \in Kinds("reserve", s)
  <2>1. {"CHOOSING", "MODE", "CONFIRM_RESERVATION"} \subseteq States
    BY <1>2 DEF Early, Late
  <2> QED BY <2>1, KindsAre
<1>6. \A k \in {"params", "id", "migration", "update"} :
        \E s \in States : k \in Kinds("migration_admin", s)
  <2>1. "1" \in States
    BY <1>2 DEF Early
  <2> QED BY <2>1, KindsAre
<1>7. Cancel \in Buttons
  <2>1. Cancel = Btn("cancel")
    BY DEF Cancel
  <2>2. \A k \in {"cancel"} \cup UNION {Kinds(c, s) : c \in Convs, s \in States} :
          Btn(k) \in Buttons
    BY DEF Buttons
  <2> QED BY <2>1, <2>2
<1>8. \A s \in Anywhere : Back(s) \in Buttons
  BY DEF Buttons
<1>9. /\ \A e \in Events : <<"TIME", e>> \in Buttons /\ <<"LIST", e>> \in Buttons
      /\ \A t \in Tickets : <<"TICKET", t>> \in Buttons
  BY DEF Buttons, Each
<1> QED BY <1>1, <1>3, <1>4, <1>5, <1>6, <1>7, <1>8, <1>9, KeyIsButton

-----------------------------------------------------------------------------
(* The data.                                                               *)

LEMMA SavedParts ==
    ASSUME NEW d, Shape(d), NEW s, NEW b
    PROVE  /\ Shape(Saved(d, s, b))
           /\ Saved(d, s, b).alive = d.alive /\ Saved(d, s, b).lists = d.lists
           /\ Saved(d, s, b).event = d.event /\ Saved(d, s, b).text = d.text
           /\ Saved(d, s, b).theater = d.theater /\ Saved(d, s, b).ticket = d.ticket
           /\ Saved(d, s, b).price = d.price /\ Saved(d, s, b).discount = d.discount
           /\ Saved(d, s, b).carried = d.carried
           /\ Saved(d, s, b).shown = d.shown /\ Saved(d, s, b).old = d.old
           /\ Saved(d, s, b).sold = d.sold
           /\ DOMAIN Saved(d, s, b).back = DOMAIN d.back \cup {s}
           /\ Saved(d, s, b).back[s] = b
           /\ \A x \in DOMAIN d.back : x # s => Saved(d, s, b).back[x] = d.back[x]
<1>1. Saved(d, s, b) =
        [d EXCEPT !.back = [x \in DOMAIN d.back \cup {s} |->
                              IF x = s THEN b ELSE d.back[x]]]
  BY DEF Saved, Shape
<1>2. Saved(d, s, b) =
        [alive |-> d.alive, lists |-> d.lists,
         back |-> [x \in DOMAIN d.back \cup {s} |->
                     IF x = s THEN b ELSE d.back[x]],
         event |-> d.event, text |-> d.text, theater |-> d.theater,
         ticket |-> d.ticket, price |-> d.price, discount |-> d.discount,
         carried |-> d.carried, shown |-> d.shown, old |-> d.old, prompt |-> d.prompt,
         sold |-> d.sold]
  BY <1>1 DEF Shape
<1> QED BY <1>2 DEF Shape

LEMMA SavedTyped ==
    ASSUME NEW d, DataTyped(d), NEW s \in States, NEW b, ScreenFits(s, b)
    PROVE  DataTyped(Saved(d, s, b))
<1>1. PICK e : e = Saved(d, s, b)
  OBVIOUS
<1>2. /\ Shape(e) /\ e.lists = d.lists /\ e.event = d.event /\ e.text = d.text
      /\ e.ticket = d.ticket /\ e.price = d.price /\ e.discount = d.discount
      /\ e.carried = d.carried
      /\ DOMAIN e.back = DOMAIN d.back \cup {s} /\ e.back[s] = b
      /\ \A x \in DOMAIN d.back : x # s => e.back[x] = d.back[x]
  BY <1>1, SavedParts DEF DataTyped
<1>3. \A x \in DOMAIN e.back : ScreenFits(x, e.back[x])
  BY <1>2 DEF DataTyped
<1>4. DataTyped(e)
  BY <1>2, <1>3 DEF DataTyped
<1> QED BY <1>1, <1>4

\* What a dialog has found out it keeps.
Grows(d, e) ==
    /\ d.lists \subseteq e.lists /\ DOMAIN d.back \subseteq DOMAIN e.back
    /\ d.theater => e.theater
    /\ d.event # "none" => e.event # "none"
    /\ d.ticket # "none" => e.ticket # "none"
    /\ d.price[2] # "none" => e.price[2] # "none"
    /\ d.sold[2] # NoPrice => e.sold[2] # NoPrice
    /\ d.old = "ticket" => e.old = "ticket"

LEMMA ReachedGrows ==
    ASSUME NEW c, NEW d, NEW e, Grows(d, e), NEW s, Reached(c, d, s)
    PROVE  Reached(c, e, s)
BY DEF Reached, Grows

LEMMA WaysGrow ==
    ASSUME NEW c, NEW d, NEW e, Grows(d, e), e.back = d.back, Ways(c, d),
           c = "reserve" => e.text = e.event
    PROVE  Ways(c, e)
BY ReachedGrows DEF Ways

LEMMA SavedWays ==
    ASSUME NEW c, NEW d, Shape(d), Ways(c, d), NEW s, NEW b, Reached(c, d, s),
           \A i \in b : Fits(c, s, i)
    PROVE  Ways(c, Saved(d, s, b)) /\ Reached(c, Saved(d, s, b), s)
<1>1. PICK e : e = Saved(d, s, b)
  OBVIOUS
<1>2. /\ e.lists = d.lists /\ e.event = d.event /\ e.text = d.text
      /\ e.theater = d.theater /\ e.ticket = d.ticket /\ e.price = d.price
      /\ e.old = d.old /\ e.sold = d.sold
      /\ DOMAIN e.back = DOMAIN d.back \cup {s} /\ e.back[s] = b
      /\ \A x \in DOMAIN d.back : x # s => e.back[x] = d.back[x]
  BY <1>1, SavedParts
<1>3. Grows(d, e)
  BY <1>2 DEF Grows
<1>4. \A x \in DOMAIN e.back : Reached(c, e, x)
  BY <1>2, <1>3, ReachedGrows DEF Ways
<1>5. \A x \in DOMAIN e.back : \A i \in e.back[x] : Fits(c, x, i)
  BY <1>2 DEF Ways
<1>6. Ways(c, e) /\ Reached(c, e, s)
  BY <1>2, <1>4, <1>5 DEF Ways
<1> QED BY <1>1, <1>6

LEMMA SavedPaid ==
    ASSUME NEW d, Shape(d), NEW s, NEW b, NEW x, Paid(d, x)
    PROVE  Paid(Saved(d, s, b), x)
<1>1. PICK e : e = Saved(d, s, b)
  OBVIOUS
<1>2. /\ e.event = d.event /\ e.ticket = d.ticket /\ e.price = d.price
      /\ e.discount = d.discount /\ e.shown = d.shown /\ e.sold = d.sold
      /\ e.carried = d.carried
  BY <1>1, SavedParts
<1>3. Paid(e, x)
  BY <1>2 DEF Paid, ToPay
<1> QED BY <1>1, <1>3

-----------------------------------------------------------------------------
(* What a handler does to the invariant.                                   *)

SideTyped ==
    mode' \in {"none", "DATE", "REPERTOIRE"} /\ email' \in {"none", "good", "bad"}

\* Whose turn it is: no other dialog is open next to one with its own data.
LEMMA WhoseTurn ==
    ASSUME DialogInv, NEW c \in Convs, conv[c] # "none"
    PROVE  owner = c \/ owner \notin Convs
BY DEF DialogInv, OwnInv, Own

\* Conversation c comes to state s.
LEMMA StepAt ==
    ASSUME DialogInv, NEW c \in Convs, NEW s \in {"none"} \cup States,
           NEW st \in {"none", "END"} \cup States, NEW d, NEW b,
           conv' = [conv EXCEPT ![c] = s], state' = st, screen' = b, data' = d,
           UNCHANGED <<command, owner, faults>>, SideTyped,
           owner = c \/ owner \notin Convs,
           DataTyped(d), b \subseteq Buttons, d.alive => ScreenFits(st, b),
           owner = "none" => ~d.alive /\ (command = "none" \/ b = {}),
           owner = c =>
               /\ d.alive /\ Ways(c, d)
               /\ s = "none" => b = {}
               /\ s # "none" => /\ Reached(c, d, s) /\ Paid(d, s)
                                /\ \/ s = st \/ s = "TIME"
                                   \/ s = "MODE" /\ b = {}
                                   \/ s = "1" /\ c = "migration_admin"
                                /\ s = "TIME" => "TIME" \in DOMAIN d.back
                                /\ \A i \in b : Fits(c, s, i)
    PROVE  DialogInv'
<1>1. TypeInv'
  BY DEF DialogInv, TypeInv, TypeOK, DataTyped, ScreenFits, SideTyped
<1>2. Nobodys'
  BY DEF Nobodys
<1>3. conv \in [Convs -> {"none"} \cup States]
  BY DEF DialogInv, TypeInv, TypeOK
<1>4. ASSUME owner = c PROVE Own(c)'
  <2>1. /\ conv'[c] = s /\ \A k \in Convs : k # c => conv'[k] = "none"
        /\ command' \in CommandsOf(c)
    BY <1>3, <1>4 DEF DialogInv, OwnInv, Own
  <2>2. (s # "none" => InStep(c)')
    BY <1>4, <2>1 DEF InStep
  <2> QED BY <1>4, <2>1, <2>2 DEF Own
<1>5. OwnInv'
  <2>1. \A k \in Convs : owner' = k => k = c /\ owner = c
    OBVIOUS
  <2>2. OwnDialogNeverFails'
    BY DEF DialogInv, OwnInv, OwnDialogNeverFails
  <2> QED BY <1>4, <2>1, <2>2 DEF OwnInv
<1> QED BY <1>1, <1>2, <1>5 DEF DialogInv

\* A state of the conversation, as Show and Move go to.
Comes(c, s, d, b) ==
    /\ Reached(c, d, s) /\ Paid(d, s)
    /\ s = "TIME" => "TIME" \in DOMAIN d.back
    /\ \A i \in b : Fits(c, s, i)

LEMMA StepMove ==
    ASSUME DialogInv, NEW c \in Convs, NEW s \in States, NEW d, NEW b,
           Move(c, s, d, b), SideTyped, owner = c \/ owner \notin Convs,
           DataTyped(d), ScreenFits(s, b),
           owner = "none" => ~d.alive /\ (command = "none" \/ b = {}),
           owner = c => d.alive /\ Ways(c, d) /\ Comes(c, s, d, b)
    PROVE  DialogInv'
<1>1. s # "none"
  BY AllStates DEF Early, Late
<1>2. /\ conv' = [conv EXCEPT ![c] = s] /\ state' = s /\ screen' = b /\ data' = d
      /\ UNCHANGED <<command, owner, faults>>
  BY DEF Move
<1>3. b \subseteq Buttons
  BY DEF ScreenFits
<1>4. owner = c => /\ d.alive /\ Ways(c, d)
                   /\ Reached(c, d, s) /\ Paid(d, s)
                   /\ s = "TIME" => "TIME" \in DOMAIN d.back
                   /\ \A i \in b : Fits(c, s, i)
  BY DEF Comes
<1> QED BY <1>1, <1>2, <1>3, <1>4, StepAt

LEMMA StepShow ==
    ASSUME DialogInv, NEW c \in Convs, NEW s \in States, NEW d, NEW b,
           Show(c, s, d, b), SideTyped, owner = c \/ owner \notin Convs,
           DataTyped(d), ScreenFits(s, b), owner # "none",
           owner = c => /\ d.alive /\ Ways(c, d) /\ Reached(c, d, s) /\ Paid(d, s)
                        /\ \A i \in b : Fits(c, s, i)
    PROVE  DialogInv'
<1>1. PICK e : e = Saved(d, s, b)
  OBVIOUS
<1>2. Move(c, s, e, b)
  BY <1>1 DEF Show, Move
<1>3. DataTyped(e)
  BY <1>1, SavedTyped
<1>4. Shape(d)
  BY DEF DataTyped
<1>5. e.alive = d.alive /\ s \in DOMAIN e.back
  BY <1>1, <1>4, SavedParts
<1>6. owner = c => Ways(c, e) /\ Reached(c, e, s) /\ Paid(e, s)
  BY <1>1, <1>4, SavedWays, SavedPaid
<1>7. owner = c => e.alive /\ Ways(c, e) /\ Comes(c, s, e, b)
  BY <1>5, <1>6 DEF Comes
<1> QED BY <1>2, <1>3, <1>7, StepMove

LEMMA StepEnd ==
    ASSUME DialogInv, NEW c \in Convs, End(c), SideTyped,
           owner = c \/ owner \notin Convs
    PROVE  DialogInv'
<1>1. /\ conv' = [conv EXCEPT ![c] = "none"] /\ state' = "END" /\ screen' = {}
      /\ data' = data /\ UNCHANGED <<command, owner, faults>>
  BY DEF End
<1>2. DataTyped(data) /\ ScreenFits("END", {})
  BY DEF DialogInv, TypeInv, ScreenFits
<1>3. owner = "none" => ~data.alive
  BY DEF DialogInv, Nobodys
<1>4. owner = c => data.alive /\ Ways(c, data)
  BY DEF DialogInv, OwnInv, Own
<1>5. PICK s, st, b : s = "none" /\ st = "END" /\ b = {}
  OBVIOUS
<1>6. /\ s \in {"none"} \cup States /\ st \in {"none", "END"} \cup States
      /\ conv' = [conv EXCEPT ![c] = s] /\ state' = st /\ screen' = b
      /\ b \subseteq Buttons /\ ScreenFits(st, b)
  BY <1>1, <1>2, <1>5
<1>7. owner = "none" => ~data.alive /\ (command = "none" \/ b = {})
  BY <1>3, <1>5
<1>8. owner = c => /\ data.alive /\ Ways(c, data) /\ s = "none" /\ b = {}
  BY <1>4, <1>5
<1> QED BY <1>1, <1>2, <1>6, <1>7, <1>8, StepAt

LEMMA FreshParts ==
    /\ Shape(Fresh) /\ Fresh.alive /\ Fresh.lists = {} /\ DOMAIN Fresh.back = {}
    /\ Fresh.event = "none" /\ Fresh.text = "none" /\ Fresh.ticket = "none"
    /\ Fresh.price = NoPrice /\ Fresh.discount = NoPrice /\ Fresh.carried = FALSE
BY DEF Fresh, Shape

LEMMA GoneParts ==
    /\ Shape(Gone) /\ ~Gone.alive /\ Gone.lists = {} /\ DOMAIN Gone.back = {}
    /\ Gone.event = "none" /\ Gone.text = "none" /\ Gone.ticket = "none"
    /\ Gone.price = NoPrice /\ Gone.discount = NoPrice /\ Gone.carried = FALSE
<1>1. PICK f, no : f = Fresh /\ no = FALSE
  OBVIOUS
<1>2. /\ Shape(f) /\ f.lists = {} /\ DOMAIN f.back = {}
      /\ f.event = "none" /\ f.text = "none" /\ f.ticket = "none"
      /\ f.price = NoPrice /\ f.discount = NoPrice /\ f.carried = no
  BY <1>1, FreshParts
<1>3. Gone = [f EXCEPT !.alive = no]
  BY <1>1 DEF Gone
<1>4. /\ Shape(Gone) /\ Gone.alive = no /\ Gone.lists = {} /\ DOMAIN Gone.back = {}
      /\ Gone.event = "none" /\ Gone.text = "none" /\ Gone.ticket = "none"
      /\ Gone.price = NoPrice /\ Gone.discount = NoPrice /\ Gone.carried = no
  BY <1>2, <1>3 DEF Shape
<1> QED BY <1>1, <1>4

LEMMA GoneTyped == DataTyped(Gone) /\ ~Gone.alive /\ DataTyped(Fresh)
BY FreshParts, GoneParts DEF DataTyped, Price

\* The data are thrown away.
LEMMA StepGone ==
    ASSUME DialogInv, NEW c \in Convs,
           conv' \in [Convs -> {"none"} \cup States],
           state' \in {"none", "END"} \cup States, screen' \subseteq Buttons,
           data' = Gone, owner' = "none", faults' \subseteq KnownFaults,
           command' \in {"none", "list"} \cup Convs,
           command' = "none" \/ screen' = {}, SideTyped
    PROVE  DialogInv'
<1>1. TypeInv'
  <2>1. DataTyped(data)' /\ ~data'.alive
    BY GoneTyped
  <2>2. owner' \in {"none", "several"} \cup Convs
    OBVIOUS
  <2>3. TypeOK'
    BY <2>1, <2>2 DEF TypeOK, DataTyped, ScreenFits, SideTyped
  <2> QED BY <2>1, <2>3 DEF TypeInv
<1>2. OwnInv'
  BY DEF OwnInv, OwnDialogNeverFails, Convs
<1>3. Nobodys'
  BY GoneTyped DEF Nobodys
<1> QED BY <1>1, <1>2, <1>3 DEF DialogInv

LEMMA StepEndClean ==
    ASSUME DialogInv, NEW c \in Convs, EndClean(c), SideTyped
    PROVE  DialogInv'
<1>1. /\ conv' = [conv EXCEPT ![c] = "none"] /\ conv \in [Convs -> {"none"} \cup States]
      /\ state' = "none" /\ screen' = {} /\ data' = Gone /\ owner' = "none"
      /\ faults' = faults /\ faults \subseteq KnownFaults /\ command' = "none"
  BY DEF EndClean, DialogInv, TypeInv, TypeOK, OwnInv, OwnDialogNeverFails
<1> QED BY <1>1, StepGone

LEMMA StepNoPayment ==
    ASSUME DialogInv, NEW c \in Convs, NoPayment(c), SideTyped
    PROVE  DialogInv'
<1>1. /\ conv' = [conv EXCEPT ![c] = "none"] /\ conv \in [Convs -> {"none"} \cup States]
      /\ state' = "END" /\ screen' = {} /\ data' = Gone /\ owner' = "none"
      /\ faults' = faults /\ faults \subseteq KnownFaults /\ command' = "none"
  BY DEF NoPayment, DialogInv, TypeInv, TypeOK, OwnInv, OwnDialogNeverFails
<1> QED BY <1>1, StepGone

LEMMA StepFault ==
    ASSUME DialogInv, NEW c \in Convs, NEW h, Fault(c, h), SideTyped,
           owner = c => h \in KnownFaults
    PROVE  DialogInv'
<1>1. /\ conv' = conv /\ conv \in [Convs -> {"none"} \cup States]
      /\ state' = "none" /\ screen' = screen /\ screen \subseteq Buttons
      /\ data' = Gone /\ owner' = "none" /\ command' = "none"
  BY DEF Fault, DialogInv, TypeInv, TypeOK
<1>2. faults' \subseteq KnownFaults
  BY DEF Fault, DialogInv, OwnInv, OwnDialogNeverFails
<1> QED BY <1>1, <1>2, StepGone

-----------------------------------------------------------------------------
(* The handlers.                                                           *)

LEMMA OwnAt ==
    ASSUME DialogInv, NEW c \in Convs, owner = c, conv[c] # "none"
    PROVE  /\ data.alive /\ Ways(c, data) /\ command \in CommandsOf(c)
           /\ Reached(c, data, conv[c]) /\ Paid(data, conv[c]) /\ InStep(c)
           /\ conv[c] = "TIME" => "TIME" \in DOMAIN data.back
           /\ \A i \in screen : Fits(c, conv[c], i)
BY DEF DialogInv, OwnInv, Own

LEMMA DataNow ==
    ASSUME DialogInv
    PROVE  /\ DataTyped(data) /\ Shape(data) /\ screen \subseteq Buttons
           /\ data.alive => owner # "none" /\ ScreenFits(state, screen)
           /\ state \in {"none", "END"} \cup States
           /\ email \in {"none", "good", "bad"}
           /\ mode \in {"none", "DATE", "REPERTOIRE"}
           /\ faults \subseteq KnownFaults
           /\ owner = "none" /\ screen # {} => command = "none"
BY DEF DialogInv, TypeInv, TypeOK, DataTyped, Nobodys, OwnInv, OwnDialogNeverFails

LEMMA SideSame ==
    ASSUME DialogInv, mode' = mode, email' = email PROVE SideTyped
BY DataNow DEF SideTyped

\* Nothing happens, but that a handler may have failed without a trace.
LEMMA StepSame ==
    ASSUME DialogInv, UNCHANGED <<conv, state, command, data, screen, owner>>,
           faults' \subseteq KnownFaults, SideTyped
    PROVE  DialogInv'
<1>1. TypeInv'
  BY DEF DialogInv, TypeInv, TypeOK, SideTyped
<1>2. OwnInv'
  BY DEF DialogInv, OwnInv, OwnDialogNeverFails, Own, InStep
<1>3. Nobodys'
  BY DEF DialogInv, Nobodys
<1> QED BY <1>1, <1>2, <1>3 DEF DialogInv

\* Buttons without an answer that depends on the state that is kept.
Plain(i) == i \in Buttons /\ i[1] \notin {"WAIT", "id"}

LEMMA PlainButtons ==
    /\ \A k \in {"MONTH", "SHOW", "SHOW_PAGE", "DATE", "LIST_WAIT", "REP_GROUP",
                 "adult_confirm", "phone_confirm", "children chosen",
                 "email_confirm", "confirm_payment", "OTHER_TIME", "MODE_DATE",
                 "MODE_REPERTOIRE", "PAY", "CONFIRM_WITHOUT_PAY",
                 "RESET_PROMO", "PROMO", "PROMO_OPTION", "params",
                 "migration", "update"} : Plain(Btn(k))
    /\ Plain(Cancel)
    /\ \A s \in Anywhere : Plain(Back(s))
    /\ \A i \in Each("TIME", Events) \cup Each("LIST", Events) \cup
                Each("TICKET", Tickets) : Plain(i)
<1>1. \A k : Btn(k) \in Buttons /\ k \notin {"WAIT", "id"} => Plain(Btn(k))
  BY ButtonParts DEF Plain
<1>2. \A s \in Anywhere : Plain(Back(s))
  BY ButtonParts, ButtonsAre DEF Plain
<1>3. Plain(Cancel)
  BY <1>1, ButtonParts, ButtonsAre
<1>4. ASSUME NEW e \in Events PROVE Plain(<<"TIME", e>>) /\ Plain(<<"LIST", e>>)
  <2>1. <<"TIME", e>>[1] = "TIME" /\ <<"LIST", e>>[1] = "LIST"
    OBVIOUS
  <2> QED BY <2>1, ButtonsAre DEF Plain
<1>5. ASSUME NEW t \in Tickets PROVE Plain(<<"TICKET", t>>)
  <2>1. <<"TICKET", t>>[1] = "TICKET"
    OBVIOUS
  <2> QED BY <2>1, ButtonsAre DEF Plain
<1> QED BY <1>1, <1>2, <1>3, <1>4, <1>5, ButtonsAre DEF Each

LEMMA PlainScreen ==
    ASSUME NEW s, NEW b, \A i \in b : Plain(i)
    PROVE  ScreenFits(s, b)
BY DEF Plain, ScreenFits

\* Up to the choice of a showing.
LEMMA ReachedEarly ==
    ASSUME NEW c \in Convs, NEW d,
           NEW s \in Early \ {"TICKET", "CHOOSING", "PHONE_FOR_WAITING"},
           s \in StatesOf[c] \cup Deaf[c],
           s \in {"MONTH", "SHOW", "DATE"} => s \in d.lists,
           s = "LIST_WAIT" => d.theater,
           c = "migration_admin" => s = "0" \/ d.old = "ticket"
    PROVE  Reached(c, d, s) /\ Paid(d, s)
BY DEF Reached, Paid, Early, Late

LEMMA EarlyIsState == /\ \A s \in Early : s \in States
                      /\ \A s \in Late : s \in States /\ s \notin Early
BY AllStates DEF Early, Late

\* A dialog with its own data that is not at the number of a ticket.
LEMMA OldIsTicket ==
    ASSUME DialogInv, NEW c \in Convs, owner = c, conv[c] \notin {"none", "0"},
           c = "migration_admin"
    PROVE  data.old = "ticket"
BY OwnAt DEF Reached

LEMMA ListedParts ==
    ASSUME NEW d, DataTyped(d), NEW s \in States
    PROVE  /\ DataTyped([d EXCEPT !.lists = @ \cup {s}])
           /\ Grows(d, [d EXCEPT !.lists = @ \cup {s}])
           /\ s \in [d EXCEPT !.lists = @ \cup {s}].lists
           /\ [d EXCEPT !.lists = @ \cup {s}].back = d.back
           /\ [d EXCEPT !.lists = @ \cup {s}].alive = d.alive
           /\ [d EXCEPT !.lists = @ \cup {s}].old = d.old
           /\ [d EXCEPT !.lists = @ \cup {s}].theater = d.theater
           /\ \A c : Ways(c, d) => Ways(c, [d EXCEPT !.lists = @ \cup {s}])
<1>1. PICK e : e = [d EXCEPT !.lists = @ \cup {s}]
  OBVIOUS
<1>2. e = [alive |-> d.alive, lists |-> d.lists \cup {s}, back |-> d.back,
           event |-> d.event, text |-> d.text, theater |-> d.theater,
           ticket |-> d.ticket, price |-> d.price, discount |-> d.discount,
           carried |-> d.carried, shown |-> d.shown, old |-> d.old, prompt |-> d.prompt,
           sold |-> d.sold]
  BY <1>1 DEF DataTyped, Shape
<1>3. DataTyped(e)
  BY <1>2 DEF DataTyped, Shape
<1>4. Grows(d, e)
  BY <1>2 DEF Grows
<1>5. \A c : Ways(c, d) => Ways(c, e)
  <2>1. e.text = d.text /\ e.event = d.event /\ e.back = d.back
    BY <1>2
  <2>2. \A c : Ways(c, d) => (c = "reserve" => d.text = d.event)
    BY DEF Ways
  <2> QED BY <1>4, <2>1, <2>2, WaysGrow
<1> QED BY <1>1, <1>2, <1>3, <1>4, <1>5

LEMMA cancelKeeps ==
    ASSUME DialogInv, NEW c \in Convs, cancel(c) PROVE DialogInv'
BY StepEndClean, SideSame DEF cancel, dbVars

LEMMA backKeeps ==
    ASSUME DialogInv, NEW c \in Convs, back(c) PROVE DialogInv'
<1>1. PICK s \in Anywhere :
        /\ Takes(c, Back(s)) /\ UNCHANGED <<mode, dbVars>>
        /\ \/ Fault(c, "back")
           \/ Has(s) /\ Move(c, s, data, data.back[s])
           \/ /\ faults' = faults \cup {h \in {"back"} : owner = c}
              /\ UNCHANGED <<conv, state, command, data, screen, owner, starts>>
  BY DEF back
<1>2. SideTyped
  BY <1>1, SideSame DEF dbVars
<1>3. /\ conv[c] \in StatesOf[c] /\ conv[c] \in States /\ conv[c] # "none"
      /\ Back(s) \in screen
  <2>1. conv[c] \in StatesOf[c] /\ Back(s) \in screen \cup Typed
    BY <1>1, TakesOpen
  <2>2. Back(s) \notin Typed
    BY ButtonParts DEF Typed
  <2> QED BY <2>1, <2>2, StatesOpen
<1>4. owner = c \/ owner \notin Convs
  BY <1>3, WhoseTurn
<1>5. CASE Fault(c, "back")
  BY <1>2, <1>5, StepFault DEF KnownFaults
<1>6. CASE Has(s) /\ Move(c, s, data, data.back[s])
  <2>1. s \in DOMAIN data.back /\ data.alive
    BY <1>6 DEF Has
  <2>2. /\ s \in States /\ DataTyped(data) /\ ScreenFits(s, data.back[s])
        /\ owner # "none"
    BY <2>1, DataNow DEF DataTyped
  <2>3. ASSUME owner = c PROVE Ways(c, data) /\ Comes(c, s, data, data.back[s])
    <3>1. /\ Ways(c, data) /\ Fits(c, conv[c], Back(s)) /\ Paid(data, conv[c])
          /\ Reached(c, data, s) /\ \A i \in data.back[s] : Fits(c, s, i)
      BY <1>3, <2>1, <2>3, OwnAt DEF Ways
    <3>2. /\ conv[c] \in Early => s \in Early \cup {""}
          /\ s = "CONFIRM_RESERVATION" => conv[c] = "PROMOCODE_INPUT"
          /\ s # "PROMOCODE_INPUT"
      BY <3>1, ButtonParts DEF Fits
    <3>3. s # "PAID"
      BY DEF Anywhere
    <3>4. s \in Late => conv[c] \in Late
      BY <1>3, <3>2, AllStates DEF Early, Late
    <3>5. Paid(data, s)
      BY <3>1, <3>2, <3>3, <3>4 DEF Paid
    <3> QED BY <2>1, <3>1, <3>5 DEF Comes
  <2> QED BY <1>2, <1>4, <1>6, <2>1, <2>2, <2>3, StepMove
<1>7. CASE /\ faults' = faults \cup {h \in {"back"} : owner = c}
           /\ UNCHANGED <<conv, state, command, data, screen, owner, starts>>
  BY <1>2, <1>7, DataNow, StepSame DEF KnownFaults
<1> QED BY <1>1, <1>5, <1>6, <1>7

-----------------------------------------------------------------------------
(* Where a press comes from, and how a handler ends.                       *)

LEMMA Pressed ==
    ASSUME DialogInv, NEW c \in Convs, NEW k, NEW x, Takes(c, <<k, x>>),
           k \notin {"back", "cancel"}
    PROVE  /\ conv[c] \in StatesOf[c] /\ conv[c] \in States /\ conv[c] # "none"
           /\ Where(c, k, conv[c])
           /\ owner = c \/ owner \notin Convs
           /\ k \notin {"text", "photo", "accept"} =>
                  screen # {} /\ <<k, x>> \in screen
<1>1. PICK s : s = conv[c]
  OBVIOUS
<1>2. /\ s \in StatesOf[c] /\ s \in States /\ k \in Kinds(c, s)
      /\ k \notin {"text", "photo", "accept"} => <<k, x>> \in screen
  BY <1>1, TakesKey
<1>3. Where(c, k, s)
  BY <1>2, StateOfKey
<1>4. s # "none"
  BY <1>2, StatesOpen
<1> QED BY <1>1, <1>2, <1>3, <1>4, WhoseTurn

LEMMA PressedBtn ==
    ASSUME DialogInv, NEW c \in Convs, NEW k, Takes(c, Btn(k)),
           k \notin {"back", "cancel"}
    PROVE  /\ conv[c] \in StatesOf[c] /\ conv[c] \in States /\ conv[c] # "none"
           /\ Where(c, k, conv[c])
           /\ owner = c \/ owner \notin Convs
           /\ k \notin {"text", "photo", "accept"} =>
                  screen # {} /\ Btn(k) \in screen
<1>1. Btn(k) = <<k, "">>
  BY ButtonParts
<1>2. Takes(c, <<k, "">>)
  BY <1>1
<1> QED BY <1>1, <1>2, Pressed

\* A handler fails in a dialog with its own data only where that is known.
LEMMA Failed ==
    ASSUME DialogInv, NEW c \in Convs, NEW h, Fault(c, h), SideTyped,
           conv[c] # "none", owner = c /\ data.alive => h \in KnownFaults
    PROVE  DialogInv'
<1>1. owner = c => h \in KnownFaults
  BY OwnAt
<1> QED BY <1>1, StepFault

LEMMA Shown ==
    ASSUME DialogInv, NEW c \in Convs, NEW s \in States, NEW d, NEW b,
           conv[c] # "none", SideTyped, data.alive, Show(c, s, d, b),
           DataTyped(d), ScreenFits(s, b),
           owner = c => /\ d.alive /\ Ways(c, d) /\ Reached(c, d, s) /\ Paid(d, s)
                        /\ \A i \in b : Fits(c, s, i)
    PROVE  DialogInv'
<1>1. (owner = c \/ owner \notin Convs) /\ owner # "none"
  BY WhoseTurn, DataNow
<1> QED BY <1>1, StepShow

\* A state up to the choice of a showing.
LEMMA ShownEarly ==
    ASSUME DialogInv, NEW c \in Convs,
           NEW s \in Early \ {"TICKET", "CHOOSING", "PHONE_FOR_WAITING"},
           NEW d, NEW b, conv[c] # "none", SideTyped, data.alive, Show(c, s, d, b),
           DataTyped(d), \A i \in b : Plain(i),
           owner = c => /\ d.alive /\ Ways(c, d)
                        /\ s \in StatesOf[c] \cup Deaf[c]
                        /\ s \in {"MONTH", "SHOW", "DATE"} => s \in d.lists
                        /\ s = "LIST_WAIT" => d.theater
                        /\ c = "migration_admin" => s = "0" \/ d.old = "ticket"
                        /\ \A i \in b : Fits(c, s, i)
    PROVE  DialogInv'
<1>1. s \in States /\ ScreenFits(s, b)
  BY EarlyIsState, PlainScreen
<1>2. owner = c => Reached(c, d, s) /\ Paid(d, s)
  BY ReachedEarly
<1> QED BY <1>1, <1>2, Shown

-----------------------------------------------------------------------------
(* Choosing a showing.                                                     *)

LEMMA ModeScreen ==
    /\ ScreenFits("MODE", ModeButtons)
    /\ \A i \in ModeButtons : Fits("reserve", "MODE", i)
    /\ "MODE" \in StatesOf["reserve"] /\ "MODE" \in States
<1>1. \A i \in ModeButtons : Plain(i)
  BY PlainButtons DEF ModeButtons
<1>2. "MODE" \in StatesOf["reserve"] /\ "MODE" \in States
  BY StatesAre, EarlyIsState DEF Early
<1>3. "MODE_DATE" \in Kinds("reserve", "MODE") /\ "MODE_REPERTOIRE" \in Kinds("reserve", "MODE")
  BY KindsAre
<1>4. Fits("reserve", "MODE", Btn("MODE_DATE")) /\ Fits("reserve", "MODE", Btn("MODE_REPERTOIRE"))
  BY <1>2, <1>3, KeyFits
<1>5. Fits("reserve", "MODE", Cancel)
  BY <1>2, CancelFits
<1> QED BY <1>1, <1>2, <1>4, <1>5, PlainScreen DEF ModeButtons

\* The first screen with data of its own, again.
LEMMA FreshMode ==
    ASSUME DialogInv, Show("reserve", "MODE", Fresh, ModeButtons), SideTyped,
           owner = "reserve" \/ owner \notin Convs, owner # "none"
    PROVE  DialogInv'
<1>1. /\ "reserve" \in Convs /\ DataTyped(Fresh) /\ Fresh.alive
      /\ Ways("reserve", Fresh)
  BY GoneTyped, FreshParts DEF Convs, Ways
<1>2. Reached("reserve", Fresh, "MODE") /\ Paid(Fresh, "MODE")
  <2>1. PICK s, f, c : s = "MODE" /\ f = Fresh /\ c = "reserve"
    OBVIOUS
  <2>2. s \in Early \ {"TICKET", "CHOOSING", "PHONE_FOR_WAITING"}
    BY <2>1 DEF Early
  <2>3. s \in StatesOf[c] /\ c \in Convs
    BY <2>1, ModeScreen DEF Convs
  <2>4. Reached(c, f, s) /\ Paid(f, s)
    BY <2>1, <2>2, <2>3, ReachedEarly
  <2> QED BY <2>1, <2>4
<1> QED BY <1>1, <1>2, ModeScreen, StepShow

LEMMA choice_modeKeeps ==
    ASSUME DialogInv, NEW c \in Convs, choice_mode(c) PROVE DialogInv'
<1>1. Takes(c, Btn("OTHER_TIME")) /\ SideTyped
  BY SideSame DEF choice_mode, dbVars
<1>2. /\ conv[c] \in StatesOf[c] /\ conv[c] = "CHOOSING" /\ screen # {}
      /\ conv[c] # "none" /\ (owner = c \/ owner \notin Convs)
  BY <1>1, PressedBtn DEF Where
<1>3. c = "reserve"
  BY <1>2, StatesAre DEF Convs
<1>5. CASE command = "none"
  <2>1. Fault(c, "choice_mode")
    BY <1>5 DEF choice_mode
  <2> QED BY <1>1, <2>1, StepFault DEF KnownFaults
<1>6. CASE command # "none"
  <2>1. owner # "none"
    BY <1>2, <1>6, DataNow
  <2>2. Show("reserve", "MODE", Fresh, ModeButtons)
    BY <1>3, <1>6 DEF choice_mode, Show
  <2> QED BY <1>1, <1>2, <1>3, <2>1, <2>2, FreshMode
<1> QED BY <1>5, <1>6

LEMMA SameGrows ==
    ASSUME NEW d, NEW e, e.lists = d.lists, e.back = d.back, e.theater = d.theater,
           e.event = d.event, e.ticket = d.ticket, e.price = d.price,
           e.sold = d.sold, e.old = d.old
    PROVE  Grows(d, e)
BY DEF Grows

LEMMA choice_show_by_repertoireKeeps ==
    ASSUME DialogInv, NEW c \in Convs, choice_show_by_repertoire(c)
    PROVE  DialogInv'
<1>0. SideTyped
  BY DataNow DEF choice_show_by_repertoire, dbVars, SideTyped
<1>1. CASE /\ Takes(c, Btn("MODE_REPERTOIRE"))
           /\ Needs(c, "choice_show_by_repertoire", TRUE,
                    Show(c, "REP_GROUP", data,
                         {Btn("REP_GROUP"), Back("MODE"), Cancel}))
  <2>1. conv[c] \in StatesOf[c] /\ conv[c] = "MODE" /\ conv[c] # "none"
    BY <1>1, PressedBtn DEF Where
  <2>2. c = "reserve"
    BY <2>1, StatesAre DEF Convs
  <2>3. PICK s, b : s = "REP_GROUP" /\ b = {Btn("REP_GROUP"), Back("MODE"), Cancel}
    OBVIOUS
  <2>4. \/ Fault(c, "choice_show_by_repertoire") /\ ~data.alive
        \/ data.alive /\ Show(c, s, data, b)
    BY <1>1, <2>3 DEF Needs
  <2>5. /\ s \in Early \ {"TICKET", "CHOOSING", "PHONE_FOR_WAITING"}
        /\ s \in StatesOf[c] /\ s \notin {"MONTH", "SHOW", "DATE", "LIST_WAIT"}
    BY <2>2, <2>3, StatesAre DEF Early
  <2>6. \A i \in b : Plain(i)
    BY <2>3, PlainButtons DEF Anywhere
  <2>7. "REP_GROUP" \in Kinds(c, s) /\ "MODE" \in BackTargets(c, s) /\ "MODE" \in Early
    <3>1. "REP_GROUP" \in Kinds(c, "REP_GROUP")
      BY DEF Kinds
    <3>2. "MODE" \in BackTargets(c, "REP_GROUP")
      BY TargetsAre
    <3> QED BY <2>3, <3>1, <3>2 DEF Early
  <2>8. \A i \in b : Fits(c, s, i)
    <3>1. Fits(c, s, Btn("REP_GROUP")) /\ Fits(c, s, Cancel)
      BY <2>5, <2>7, KeyFits, CancelFits
    <3>2. Fits(c, s, Back("MODE"))
      BY <2>5, <2>7, BackFits
    <3> QED BY <2>3, <3>1, <3>2
  <2>9. DataTyped(data) /\ (owner = c => Ways(c, data))
    BY <2>1, DataNow, OwnAt
  <2>10. CASE data.alive /\ Show(c, s, data, b)
    BY <1>0, <2>1, <2>2, <2>10, <2>5, <2>6, <2>8, <2>9, ShownEarly
  <2>11. CASE Fault(c, "choice_show_by_repertoire") /\ ~data.alive
    BY <1>0, <2>1, <2>11, Failed
  <2> QED BY <2>4, <2>10, <2>11
<1>2. CASE /\ Takes(c, Btn("MODE_REPERTOIRE")) /\ command # "none"
           /\ conv' = [conv EXCEPT ![c] = "MODE"] /\ screen' = {}
           /\ UNCHANGED <<state, command, data, owner, faults, starts>>
  <2>1. /\ conv[c] \in StatesOf[c] /\ conv[c] = "MODE" /\ screen # {}
        /\ owner = c \/ owner \notin Convs
    BY <1>2, PressedBtn DEF Where
  <2>2. owner # "none"
    BY <1>2, <2>1, DataNow
  <2>3. PICK s, b : s = "MODE" /\ b = {}
    OBVIOUS
  <2>4. /\ s \in States /\ b \subseteq Buttons /\ ScreenFits(state, b) /\ DataTyped(data)
        /\ state \in {"none", "END"} \cup States
    BY <2>3, ModeScreen, DataNow DEF ScreenFits
  <2>5. ASSUME owner = c
        PROVE  data.alive /\ Ways(c, data) /\ Reached(c, data, s) /\ Paid(data, s)
    BY <2>1, <2>3, <2>5, OwnAt
  <2>6. /\ conv' = [conv EXCEPT ![c] = s] /\ screen' = b /\ state' = state
        /\ data' = data /\ UNCHANGED <<command, owner, faults>> /\ s # "none" /\ s # "TIME"
    BY <1>2, <2>3
  <2>7. \A i \in b : Fits(c, s, i)
    BY <2>3
  <2>8. owner = "none" => ~data.alive /\ (command = "none" \/ b = {})
    BY <2>2
  <2> QED BY <1>0, <2>1, <2>2, <2>3, <2>4, <2>5, <2>6, <2>7, <2>8, StepAt
<1>3. CASE /\ Takes(c, Btn("REP_GROUP"))
           /\ Needs(c, "choice_show_by_repertoire", TRUE,
                    Show(c, "SHOW", Listed("SHOW"),
                         {Btn("SHOW"), Back("REP_GROUP"), Cancel}))
  <2>1. conv[c] \in StatesOf[c] /\ conv[c] = "REP_GROUP" /\ conv[c] # "none"
    BY <1>3, PressedBtn DEF Where
  <2>2. c = "reserve"
    BY <2>1, StatesAre DEF Convs
  <2>3. PICK s, b, d : /\ s = "SHOW" /\ b = {Btn("SHOW"), Back("REP_GROUP"), Cancel}
                       /\ d = [data EXCEPT !.lists = @ \cup {s}]
    OBVIOUS
  <2>4. \/ Fault(c, "choice_show_by_repertoire") /\ ~data.alive
        \/ data.alive /\ Show(c, s, d, b)
    BY <1>3, <2>3 DEF Needs, Listed
  <2>5. /\ s \in Early \ {"TICKET", "CHOOSING", "PHONE_FOR_WAITING"}
        /\ s \in StatesOf[c] /\ s \in States /\ s # "LIST_WAIT"
    BY <2>2, <2>3, StatesAre, EarlyIsState DEF Early
  <2>6. \A i \in b : Plain(i)
    BY <2>3, PlainButtons DEF Anywhere
  <2>7. "SHOW" \in Kinds(c, s) /\ "REP_GROUP" \in BackTargets(c, s) /\ "REP_GROUP" \in Early
    <3>1. "SHOW" \in Kinds(c, "SHOW")
      BY DEF Kinds
    <3>2. "REP_GROUP" \in BackTargets("reserve", "SHOW")
      BY TargetsAre
    <3> QED BY <2>2, <2>3, <3>1, <3>2 DEF Early
  <2>8. \A i \in b : Fits(c, s, i)
    <3>1. Fits(c, s, Btn("SHOW")) /\ Fits(c, s, Cancel)
      BY <2>5, <2>7, KeyFits, CancelFits
    <3>2. Fits(c, s, Back("REP_GROUP"))
      BY <2>5, <2>7, BackFits
    <3> QED BY <2>3, <3>1, <3>2
  <2>9. /\ DataTyped(d) /\ d.alive = data.alive
        /\ s \in d.lists /\ (owner = c => Ways(c, d))
    BY <2>1, <2>3, <2>5, DataNow, OwnAt, ListedParts
  <2>10. CASE data.alive /\ Show(c, s, d, b)
    BY <1>0, <2>1, <2>2, <2>10, <2>5, <2>6, <2>8, <2>9, ShownEarly
  <2>11. CASE Fault(c, "choice_show_by_repertoire") /\ ~data.alive
    BY <1>0, <2>1, <2>11, Failed
  <2> QED BY <2>4, <2>10, <2>11
<1> QED BY <1>1, <1>2, <1>3 DEF choice_show_by_repertoire

\* A way back to a state up to the choice of a ticket fits every screen.
LEMMA EarlyBackFits ==
    ASSUME NEW c, NEW s \in StatesOf[c], NEW t \in BackTargets(c, s),
           t \in Early \cup {""}
    PROVE  Fits(c, s, Back(t))
<1>1. t # "CONFIRM_RESERVATION" /\ t # "PROMOCODE_INPUT"
  BY DEF Early
<1> QED BY <1>1, BackFits

LEMMA DeafFits ==
    ASSUME NEW c, NEW s \in Deaf[c], NEW i,
           i[1] = "back" => i[2] \in Early
    PROVE  Fits(c, s, i)
<1>1. i[1] = "back" => i[2] # "CONFIRM_RESERVATION" /\ i[2] # "PROMOCODE_INPUT"
  BY DEF Early
<1> QED BY <1>1 DEF Fits, Silent

LEMMA DeafAre == Deaf["list_wait"] = {"DATE"} /\ Deaf["reserve_admin"] = {"PAID"}
BY DEF Deaf, Convs

\* The state in user_data is that of the conversation.
LEMMA StateIs ==
    ASSUME DialogInv, NEW c \in Convs, owner = c,
           conv[c] \notin {"none", "TIME", "MODE", "1"}
    PROVE  state = conv[c]
BY OwnAt DEF InStep

LEMMA choice_monthKeeps ==
    ASSUME DialogInv, NEW c \in Convs, choice_month(c) PROVE DialogInv'
<1>1. SideTyped
  BY DataNow DEF choice_month, dbVars, SideTyped
<1>2. /\ conv[c] \in StatesOf[c] /\ conv[c] \in {"MODE", "1"}
  <2>1. CASE Takes(c, Btn("MODE_DATE"))
    BY <2>1, PressedBtn DEF Where
  <2>2. CASE Takes(c, Btn("params"))
    BY <2>2, PressedBtn DEF Where
  <2> QED BY <2>1, <2>2 DEF choice_month
<1>3. conv[c] # "none" /\ "MONTH" \in StatesOf[c]
  BY <1>2, StatesAre DEF Convs
<1>4. PICK s, b, d : /\ s = "MONTH" /\ d = [data EXCEPT !.lists = @ \cup {s}]
                     /\ b = {Btn("MONTH"), Cancel} \cup
                            (IF Has("MODE") THEN {Back("MODE")} ELSE {})
  OBVIOUS
<1>5. \/ Fault(c, "choice_month") /\ ~data.alive
      \/ data.alive /\ Show(c, s, d, b)
  BY <1>4 DEF choice_month, Needs, Listed
<1>6. /\ s \in Early \ {"TICKET", "CHOOSING", "PHONE_FOR_WAITING"}
      /\ s \in StatesOf[c] /\ s \in States /\ s # "LIST_WAIT"
  BY <1>3, <1>4, EarlyIsState DEF Early
<1>7. \A i \in b : Plain(i)
  BY <1>4, PlainButtons DEF Anywhere
<1>8. \A i \in b : Fits(c, s, i)
  <2>1. "MONTH" \in Kinds(c, s) /\ "MODE" \in BackTargets(c, s)
    BY <1>4 DEF Kinds, BackTargets
  <2>2. Fits(c, s, Btn("MONTH")) /\ Fits(c, s, Cancel)
    BY <1>6, <2>1, KeyFits, CancelFits
  <2>3. Fits(c, s, Back("MODE"))
    BY <1>6, <2>1, EarlyBackFits DEF Early
  <2> QED BY <1>4, <2>2, <2>3
<1>9. /\ DataTyped(d) /\ d.alive = data.alive
      /\ s \in d.lists /\ d.old = data.old /\ (owner = c => Ways(c, d))
  BY <1>3, <1>4, <1>6, DataNow, OwnAt, ListedParts
<1>10. owner = c /\ c = "migration_admin" => d.old = "ticket"
  BY <1>2, <1>9, OldIsTicket
<1>11. CASE data.alive /\ Show(c, s, d, b)
  BY <1>1, <1>3, <1>6, <1>7, <1>8, <1>9, <1>10, <1>11, ShownEarly
<1>12. CASE Fault(c, "choice_month") /\ ~data.alive
  BY <1>1, <1>3, <1>12, Failed
<1> QED BY <1>5, <1>11, <1>12

LEMMA choice_showKeeps ==
    ASSUME DialogInv, NEW c \in Convs, choice_show(c) PROVE DialogInv'
<1>1. SideTyped
  BY SideSame DEF choice_show, dbVars
<1>2. /\ conv[c] \in StatesOf[c] /\ conv[c] \in {"MONTH", "SHOW"}
  <2>1. CASE Takes(c, Btn("MONTH"))
    BY <2>1, PressedBtn DEF Where
  <2>2. CASE Takes(c, Btn("SHOW_PAGE"))
    BY <2>2, PressedBtn DEF Where
  <2> QED BY <2>1, <2>2 DEF choice_show
<1>3. conv[c] # "none" /\ "SHOW" \in StatesOf[c] /\ "DATE" \in StatesOf[c] \cup Deaf[c]
  BY <1>2, StatesAre, DeafAre DEF Convs
<1>4. owner = c => state \in data.lists
  BY <1>2, <1>3, OwnAt, StateIs DEF Reached
<1>5. PICK s, b : /\ \/ /\ s = "DATE"
                        /\ b = {Btn("DATE"), Back("MONTH"), Cancel}
                     \/ /\ s = "SHOW"
                        /\ b = {Btn("SHOW"), Btn("SHOW_PAGE"), Back("MONTH"), Cancel}
                  /\ Needs(c, "choice_show", state \in data.lists,
                           Show(c, s, Listed(s), b))
  BY DEF choice_show
<1>6. PICK d : d = [data EXCEPT !.lists = @ \cup {s}]
  OBVIOUS
<1>7. \/ Fault(c, "choice_show") /\ (data.alive => state \notin data.lists)
      \/ data.alive /\ Show(c, s, d, b)
  BY <1>5, <1>6 DEF Needs, Listed
<1>8. /\ s \in Early \ {"TICKET", "CHOOSING", "PHONE_FOR_WAITING"}
      /\ s \in StatesOf[c] \cup Deaf[c] /\ s \in States /\ s # "LIST_WAIT"
  BY <1>3, <1>5, EarlyIsState DEF Early
<1>9. \A i \in b : Plain(i)
  BY <1>5, PlainButtons DEF Anywhere
<1>10. \A i \in b : Fits(c, s, i)
  <2>1. CASE s \in Deaf[c]
    <3>1. /\ Btn("SHOW")[1] = "SHOW" /\ Btn("SHOW_PAGE")[1] = "SHOW_PAGE"
          /\ Btn("DATE")[1] = "DATE" /\ Cancel[1] = "cancel"
          /\ Back("MONTH")[2] = "MONTH"
      BY ButtonParts
    <3>2. \A i \in b : i[1] = "back" => i = Back("MONTH")
      BY <1>5, <3>1
    <3>3. \A i \in b : i[1] = "back" => i[2] \in Early
      BY <3>1, <3>2 DEF Early
    <3> QED BY <2>1, <3>3, DeafFits
  <2>2. CASE s \in StatesOf[c]
    <3>1. \/ s = "SHOW" /\ "SHOW" \in Kinds(c, s) /\ "SHOW_PAGE" \in Kinds(c, s)
          \/ s = "DATE" /\ "DATE" \in Kinds(c, s)
      BY <1>5 DEF Kinds
    <3>2. "MONTH" \in BackTargets(c, s)
      BY <1>5 DEF BackTargets
    <3>3. Fits(c, s, Back("MONTH")) /\ Fits(c, s, Cancel)
      BY <2>2, <3>2, EarlyBackFits, CancelFits DEF Early
    <3>4. \/ s = "SHOW" /\ Fits(c, s, Btn("SHOW")) /\ Fits(c, s, Btn("SHOW_PAGE"))
          \/ s = "DATE" /\ Fits(c, s, Btn("DATE"))
      BY <2>2, <3>1, KeyFits
    <3> QED BY <1>5, <3>3, <3>4
  <2> QED BY <1>8, <2>1, <2>2
<1>11. /\ DataTyped(d) /\ d.alive = data.alive
       /\ s \in d.lists /\ d.old = data.old /\ (owner = c => Ways(c, d))
  BY <1>3, <1>6, <1>8, DataNow, OwnAt, ListedParts
<1>12. owner = c /\ c = "migration_admin" => d.old = "ticket"
  BY <1>2, <1>11, OldIsTicket
<1>13. CASE data.alive /\ Show(c, s, d, b)
  BY <1>1, <1>3, <1>8, <1>9, <1>10, <1>11, <1>12, <1>13, ShownEarly
<1>14. CASE Fault(c, "choice_show") /\ (data.alive => state \notin data.lists)
  <2>1. owner = c /\ data.alive => "choice_show" \in KnownFaults
    BY <1>4, <1>14
  <2> QED BY <1>1, <1>3, <1>14, <2>1, Failed
<1> QED BY <1>7, <1>13, <1>14

LEMMA choice_dateKeeps ==
    ASSUME DialogInv, NEW c \in Convs, choice_date(c) PROVE DialogInv'
<1>1. Takes(c, Btn("SHOW")) /\ SideTyped
  BY SideSame DEF choice_date, dbVars
<1>2. /\ conv[c] \in StatesOf[c] /\ conv[c] = "SHOW" /\ conv[c] # "none"
  BY <1>1, PressedBtn DEF Where
<1>3. owner = c => /\ state \in data.lists /\ command \in CommandsOf(c)
                   /\ Ways(c, data)
                   /\ c = "migration_admin" => data.old = "ticket"
  <2>1. owner = c => state = "SHOW"
    BY <1>2, StateIs
  <2> QED BY <1>2, <2>1, OwnAt, OldIsTicket DEF Reached
<1>4. PICK known : /\ known = [data EXCEPT !.theater = TRUE]
  OBVIOUS
<1>5. PICK s, d, b :
        /\ \/ s = (IF command = "list" THEN "LIST" ELSE "TIME") /\ command # "list_wait"
              /\ d = data /\ b = Each(s, Events) \cup {Back("SHOW"), Cancel}
           \/ s = (IF command = "list_wait" THEN "LIST_WAIT" ELSE "DATE")
              /\ d = known /\ b = {Btn(s)} \cup {Back("SHOW"), Cancel}
           \/ s = "TIME" /\ command # "list_wait"
              /\ d = known /\ b = Each(s, Events) \cup {Back("SHOW"), Cancel}
        /\ Needs(c, "choice_date", state \in data.lists,
                 Show(c, s, [d EXCEPT !.lists = @ \cup {s}], b))
  BY <1>4 DEF choice_date
<1>6. PICK e : e = [d EXCEPT !.lists = @ \cup {s}]
  OBVIOUS
<1>7. \/ Fault(c, "choice_date") /\ (data.alive => state \notin data.lists)
      \/ data.alive /\ Show(c, s, e, b)
  BY <1>5, <1>6 DEF Needs
<1>8. s \in {"LIST", "TIME", "LIST_WAIT", "DATE"}
  BY <1>5
<1>9. /\ s \in Early \ {"TICKET", "CHOOSING", "PHONE_FOR_WAITING"} /\ s \in States
  BY <1>8, EarlyIsState DEF Early
<1>10. \A i \in b : Plain(i)
  <2>1. Plain(Back("SHOW")) /\ Plain(Cancel)
    BY PlainButtons DEF Anywhere
  <2>2. s \in {"LIST_WAIT", "DATE"} => Plain(Btn(s))
    BY PlainButtons
  <2>3. s \in {"LIST", "TIME"} => \A i \in Each(s, Events) : Plain(i)
    BY PlainButtons
  <2> QED BY <1>5, <2>1, <2>2, <2>3
<1>11. ASSUME owner = c
       PROVE  s \in StatesOf[c] /\ (s = "LIST_WAIT" => d = known)
  <2>1. command = "list" => c = "reserve"
    BY <1>3, <1>11 DEF CommandsOf, Convs
  <2>2. command = "list_wait" <=> c = "list_wait"
    BY <1>3, <1>11 DEF CommandsOf, Convs
  <2>3. /\ s = "LIST" => c = "reserve"
        /\ s = "LIST_WAIT" => c = "list_wait" /\ d = known
        /\ s \in {"TIME", "DATE"} => c # "list_wait"
    BY <1>5, <2>1, <2>2
  <2> QED BY <1>8, <2>3, StatesAre DEF Convs
<1>12. ASSUME owner = c PROVE \A i \in b : Fits(c, s, i)
  <2>1. s \in Kinds(c, s)
    BY <1>8 DEF Kinds
  <2>2. "SHOW" \in BackTargets(c, s)
    BY <1>8 DEF BackTargets, Anywhere
  <2>3. Fits(c, s, Back("SHOW")) /\ Fits(c, s, Cancel)
    BY <1>11, <1>12, <2>2, EarlyBackFits, CancelFits DEF Early
  <2>4. Fits(c, s, Btn(s)) /\ \A x : Fits(c, s, <<s, x>>)
    BY <1>8, <1>11, <1>12, <2>1, KeyFits
  <2>5. \A i \in Each(s, Events) : Fits(c, s, i)
    BY <2>4 DEF Each
  <2> QED BY <1>5, <2>3, <2>4, <2>5
<1>13. /\ DataTyped(d) /\ d.alive = data.alive /\ d.old = data.old
       /\ d = known => d.theater
       /\ owner = c => Ways(c, d)
  <2>1. CASE d = data
    BY <1>3, <1>4, <2>1, DataNow DEF Shape
  <2>2. CASE d = known
    <3>0. PICK yes : yes = TRUE
      OBVIOUS
    <3>1. known =
            [alive |-> data.alive, lists |-> data.lists, back |-> data.back,
             event |-> data.event, text |-> data.text, theater |-> yes,
             ticket |-> data.ticket, price |-> data.price,
             discount |-> data.discount, carried |-> data.carried,
           shown |-> data.shown, old |-> data.old,
             prompt |-> data.prompt, sold |-> data.sold]
      BY <1>4, <3>0, DataNow DEF Shape
    <3>2. DataTyped(known)
      BY <3>1, DataNow DEF DataTyped, Shape
    <3>3. Grows(data, known) /\ known.back = data.back /\ known.text = data.text
          /\ known.event = data.event /\ known.alive = data.alive
          /\ known.old = data.old /\ known.theater
      BY <3>0, <3>1 DEF Grows
    <3>4. owner = c /\ c = "reserve" => data.text = data.event
      BY <1>3 DEF Ways
    <3>5. owner = c => Ways(c, known)
      BY <1>3, <3>3, <3>4, WaysGrow
    <3> QED BY <2>2, <3>2, <3>3, <3>5
  <2> QED BY <1>5, <2>1, <2>2
<1>14. /\ DataTyped(e) /\ e.alive = data.alive /\ s \in e.lists
       /\ e.old = data.old /\ e.theater = d.theater /\ (owner = c => Ways(c, e))
  BY <1>6, <1>9, <1>13, ListedParts
<1>15. CASE data.alive /\ Show(c, s, e, b)
  <2>1. owner = c => /\ e.alive /\ Ways(c, e) /\ s \in StatesOf[c] \cup Deaf[c]
                     /\ s \in {"MONTH", "SHOW", "DATE"} => s \in e.lists
                     /\ s = "LIST_WAIT" => e.theater
                     /\ c = "migration_admin" => s = "0" \/ e.old = "ticket"
                     /\ \A i \in b : Fits(c, s, i)
    BY <1>3, <1>11, <1>12, <1>13, <1>14, <1>15
  <2> QED BY <1>1, <1>2, <1>9, <1>10, <1>14, <1>15, <2>1, ShownEarly
<1>16. CASE Fault(c, "choice_date") /\ (data.alive => state \notin data.lists)
  <2>1. owner = c /\ data.alive => "choice_date" \in KnownFaults
    BY <1>3, <1>16
  <2> QED BY <1>1, <1>2, <1>16, <2>1, Failed
<1> QED BY <1>7, <1>15, <1>16

LEMMA choice_timeKeeps ==
    ASSUME DialogInv, NEW c \in Convs, choice_time(c) PROVE DialogInv'
<1>1. Takes(c, Btn("DATE")) /\ SideTyped
  BY SideSame DEF choice_time, dbVars
<1>2. /\ conv[c] \in StatesOf[c] /\ conv[c] = "DATE" /\ conv[c] # "none"
  BY <1>1, PressedBtn DEF Where
<1>3. owner = c => /\ state \in data.lists /\ command \in CommandsOf(c)
                   /\ Ways(c, data)
                   /\ c = "migration_admin" => data.old = "ticket"
  <2>1. owner = c => state = "DATE"
    BY <1>2, StateIs
  <2> QED BY <1>2, <2>1, OwnAt, OldIsTicket DEF Reached
<1>4. PICK s, b : /\ s = (IF command = "list" THEN "LIST" ELSE "TIME")
                  /\ b = Each(s, Events) \cup {Back("DATE"), Cancel}
  OBVIOUS
<1>5. \/ Fault(c, "choice_time") /\ (data.alive => state \notin data.lists)
      \/ data.alive /\ Show(c, s, data, b)
  BY <1>4 DEF choice_time, Needs
<1>6. /\ s \in {"LIST", "TIME"} /\ s \in Early \ {"TICKET", "CHOOSING", "PHONE_FOR_WAITING"}
  BY <1>4 DEF Early
<1>7. \A i \in b : Plain(i)
  <2>1. Plain(Back("DATE")) /\ Plain(Cancel)
    BY PlainButtons DEF Anywhere
  <2>2. \A i \in Each(s, Events) : Plain(i)
    BY <1>6, PlainButtons
  <2> QED BY <1>4, <2>1, <2>2
<1>8. ASSUME owner = c PROVE s \in StatesOf[c]
  <2>1. command = "list" => c = "reserve"
    BY <1>3, <1>8 DEF CommandsOf, Convs
  <2> QED BY <1>2, <1>4, <2>1, StatesAre DEF Convs
<1>9. ASSUME owner = c PROVE \A i \in b : Fits(c, s, i)
  <2>1. s \in Kinds(c, s)
    BY <1>6 DEF Kinds
  <2>2. "DATE" \in BackTargets(c, s)
    BY <1>6 DEF BackTargets, Anywhere
  <2>3. Fits(c, s, Back("DATE")) /\ Fits(c, s, Cancel)
    BY <1>8, <1>9, <2>2, EarlyBackFits, CancelFits DEF Early
  <2>4. \A x : Fits(c, s, <<s, x>>)
    BY <1>6, <1>8, <1>9, <2>1, KeyFits
  <2> QED BY <1>4, <2>3, <2>4 DEF Each
<1>10. CASE data.alive /\ Show(c, s, data, b)
  <2>1. owner = c => /\ data.alive /\ Ways(c, data) /\ s \in StatesOf[c] \cup Deaf[c]
                     /\ s \in {"MONTH", "SHOW", "DATE"} => s \in data.lists
                     /\ s = "LIST_WAIT" => data.theater
                     /\ c = "migration_admin" => s = "0" \/ data.old = "ticket"
                     /\ \A i \in b : Fits(c, s, i)
    BY <1>3, <1>6, <1>8, <1>9, <1>10
  <2>2. DataTyped(data)
    BY DataNow
  <2> QED BY <1>1, <1>2, <1>6, <1>7, <1>10, <2>1, <2>2, ShownEarly
<1>11. CASE Fault(c, "choice_time") /\ (data.alive => state \notin data.lists)
  <2>1. owner = c /\ data.alive => "choice_time" \in KnownFaults
    BY <1>3, <1>11
  <2> QED BY <1>1, <1>2, <1>11, <2>1, Failed
<1> QED BY <1>5, <1>10, <1>11

\* A showing is chosen.
LEMMA EventParts ==
    ASSUME DialogInv, NEW e \in Events, NEW d,
           d = [data EXCEPT !.event = e, !.text = e]
    PROVE  /\ DataTyped(d) /\ d.alive = data.alive /\ d.back = data.back
           /\ Grows(data, d) /\ d.event = e /\ d.text = e /\ d.old = data.old
           /\ e # "none"
           /\ \A c : Ways(c, data) => Ways(c, d)
<1>1. d = [alive |-> data.alive, lists |-> data.lists, back |-> data.back,
           event |-> e, text |-> e, theater |-> data.theater,
           ticket |-> data.ticket, price |-> data.price,
           discount |-> data.discount, carried |-> data.carried,
           shown |-> data.shown, old |-> data.old,
           prompt |-> data.prompt, sold |-> data.sold]
  BY DataNow DEF Shape
<1>2. DataTyped(d)
  BY <1>1, DataNow DEF DataTyped, Shape
<1>3. e # "none"
  BY DialogAssumption
<1>4. Grows(data, d) /\ d.back = data.back /\ d.text = d.event
  BY <1>1, <1>3 DEF Grows
<1>5. \A c : Ways(c, data) => Ways(c, d)
  BY <1>4, WaysGrow
<1> QED BY <1>1, <1>2, <1>3, <1>4, <1>5

LEMMA choice_option_of_reserveKeeps ==
    ASSUME DialogInv, NEW c \in Convs, choice_option_of_reserve(c) PROVE DialogInv'
<1>1. PICK e \in Events :
        /\ Takes(c, <<"TIME", e>>) /\ UNCHANGED <<mode, dbVars>>
        /\ \/ /\ command = "reserve"
              /\ Needs(c, "choice_option_of_reserve", TRUE,
                       Show(c, "CHOOSING", [data EXCEPT !.event = e, !.text = e],
                            {Btn("WAIT"), Btn("OTHER_TIME"), Back("TIME"), Cancel}))
           \/ Needs(c, "choice_option_of_reserve", TRUE,
                    Show(c, "TICKET", [data EXCEPT !.event = e, !.text = e],
                         Each("TICKET", Tickets) \cup
                         {Btn("WAIT"), Back("TIME"), Cancel}))
  BY DEF choice_option_of_reserve
<1>2. SideTyped
  BY <1>1, SideSame DEF dbVars
<1>3. conv[c] \in StatesOf[c] /\ conv[c] = "TIME" /\ conv[c] # "none"
  BY <1>1, Pressed DEF Where
<1>4. c \in {"reserve", "reserve_admin", "migration_admin"} /\ "TICKET" \in StatesOf[c]
  BY <1>3, StatesAre DEF Convs
<1>5. PICK d : d = [data EXCEPT !.event = e, !.text = e]
  OBVIOUS
<1>6. /\ DataTyped(d) /\ d.alive = data.alive /\ d.back = data.back
      /\ d.event # "none" /\ d.old = data.old
      /\ \A k : Ways(k, data) => Ways(k, d)
  BY <1>5, EventParts
<1>7. owner = c => /\ Ways(c, data) /\ command \in CommandsOf(c)
                   /\ "TIME" \in DOMAIN data.back
                   /\ c = "migration_admin" => data.old = "ticket"
  BY <1>3, OwnAt, OldIsTicket
<1>8. PICK s, b :
        /\ \/ /\ s = "CHOOSING" /\ command = "reserve"
              /\ b = {Btn("WAIT"), Btn("OTHER_TIME"), Back("TIME"), Cancel}
           \/ /\ s = "TICKET"
              /\ b = Each("TICKET", Tickets) \cup {Btn("WAIT"), Back("TIME"), Cancel}
        /\ Needs(c, "choice_option_of_reserve", TRUE, Show(c, s, d, b))
  BY <1>1, <1>5
<1>9. \/ Fault(c, "choice_option_of_reserve") /\ ~data.alive
      \/ data.alive /\ Show(c, s, d, b)
  BY <1>8 DEF Needs
<1>10. s \in States
  BY <1>8, EarlyIsState DEF Early
<1>11. ScreenFits(s, b)
  <2>1. \A i \in b : i = Btn("WAIT") \/ Plain(i)
    BY <1>8, PlainButtons DEF Anywhere
  <2>2. Btn("WAIT") \in Buttons /\ Btn("WAIT")[1] = "WAIT"
    BY ButtonsAre, ButtonParts
  <2> QED BY <1>8, <2>1, <2>2 DEF ScreenFits, Plain
<1>12. ASSUME owner = c
       PROVE  /\ d.alive /\ Ways(c, d) /\ Reached(c, d, s) /\ Paid(d, s)
              /\ \A i \in b : Fits(c, s, i)
  <2>1. s = "CHOOSING" => c = "reserve"
    BY <1>7, <1>8, <1>12 DEF CommandsOf, Convs
  <2>2. s \in StatesOf[c]
    BY <1>4, <1>8, <2>1, StatesAre
  <2>3. d.alive /\ Ways(c, d)
    BY <1>3, <1>6, <1>7, <1>12, OwnAt
  <2>4. Reached(c, d, s)
    BY <1>6, <1>7, <1>8, <1>12, <2>2 DEF Reached, Late
  <2>5. Paid(d, s)
    BY <1>8 DEF Paid, Late
  <2>6. "TIME" \in BackTargets(c, s)
    BY <1>8 DEF BackTargets, Anywhere
  <2>7. Fits(c, s, Back("TIME")) /\ Fits(c, s, Cancel)
    BY <2>2, <2>6, EarlyBackFits, CancelFits DEF Early
  <2>8. Fits(c, s, Btn("WAIT"))
    <3>1. CASE s = "TICKET" /\ c # "reserve"
      <4>1. Silent(c, s, Btn("WAIT"))
        BY <3>1 DEF Silent
      <4> QED BY <4>1, ButtonParts DEF Fits
    <3>2. CASE s = "CHOOSING" \/ c = "reserve"
      <4>1. "WAIT" \in Kinds(c, s)
        BY <1>8, <3>2 DEF Kinds
      <4> QED BY <2>2, <4>1, KeyFits
    <3> QED BY <1>8, <3>1, <3>2
  <2>9. s = "CHOOSING" => Fits(c, s, Btn("OTHER_TIME"))
    <3>1. s = "CHOOSING" => "OTHER_TIME" \in Kinds(c, s)
      BY DEF Kinds
    <3> QED BY <2>2, <3>1, KeyFits
  <2>10. s = "TICKET" => \A i \in Each("TICKET", Tickets) : Fits(c, s, i)
    <3>1. s = "TICKET" => "TICKET" \in Kinds(c, s)
      BY DEF Kinds
    <3> QED BY <2>2, <3>1, KeyFits DEF Each
  <2> QED BY <1>8, <2>3, <2>4, <2>5, <2>7, <2>8, <2>9, <2>10
<1>13. CASE data.alive /\ Show(c, s, d, b)
  BY <1>2, <1>3, <1>6, <1>10, <1>11, <1>12, <1>13, Shown
<1>14. CASE Fault(c, "choice_option_of_reserve") /\ ~data.alive
  BY <1>2, <1>3, <1>14, Failed
<1> QED BY <1>9, <1>13, <1>14

LEMMA send_clients_dataKeeps ==
    ASSUME DialogInv, NEW c \in Convs, send_clients_data(c) PROVE DialogInv'
<1>1. PICK e \in Events : Takes(c, <<"LIST", e>>)
  BY DEF send_clients_data
<1>2. owner = c \/ owner \notin Convs
  BY <1>1, Pressed
<1>3. End(c) /\ SideTyped
  BY SideSame DEF send_clients_data, dbVars
<1> QED BY <1>2, <1>3, StepEnd

LEMMA send_clients_wait_dataKeeps ==
    ASSUME DialogInv, NEW c \in Convs, send_clients_wait_data(c) PROVE DialogInv'
<1>1. Takes(c, Btn("LIST_WAIT")) /\ SideTyped
  BY SideSame DEF send_clients_wait_data, dbVars
<1>2. /\ conv[c] = "LIST_WAIT" /\ conv[c] # "none" /\ (owner = c \/ owner \notin Convs)
  BY <1>1, PressedBtn DEF Where
<1>3. owner = c => data.theater
  BY <1>2, OwnAt DEF Reached
<1>4. \/ Fault(c, "send_clients_wait_data") /\ (data.alive => ~data.theater)
      \/ End(c)
  BY DEF send_clients_wait_data, Needs
<1>5. CASE Fault(c, "send_clients_wait_data") /\ (data.alive => ~data.theater)
  <2>1. owner = c /\ data.alive => "send_clients_wait_data" \in KnownFaults
    BY <1>3, <1>5
  <2> QED BY <1>1, <1>2, <1>5, <2>1, Failed
<1>6. CASE End(c)
  BY <1>1, <1>2, <1>6, StepEnd
<1> QED BY <1>4, <1>5, <1>6

-----------------------------------------------------------------------------
(* An admin's number of a showing or of a ticket.                          *)

LEMMA enter_event_idKeeps ==
    ASSUME DialogInv, NEW c \in Convs, enter_event_id(c) PROVE DialogInv'
<1>1. Takes(c, Btn("id")) /\ SideTyped
  BY SideSame DEF enter_event_id, dbVars
<1>2. /\ conv[c] \in StatesOf[c] /\ conv[c] = "1" /\ conv[c] # "none"
      /\ Btn("id") \in screen
  BY <1>1, PressedBtn DEF Where
<1>3. c \in {"reserve_admin", "migration_admin"} /\ "2" \in StatesOf[c]
  BY <1>2, StatesAre DEF Convs
<1>4. data.alive => state = "1"
  <2>1. Btn("id")[1] = "id"
    BY ButtonParts
  <2> QED BY <1>2, <2>1, DataNow DEF ScreenFits
<1>5. PICK s, b, yes : s = "2" /\ b = {Back("1"), Cancel} /\ yes = TRUE
  OBVIOUS
<1>6. PICK d : d = [data EXCEPT !.prompt = yes]
  OBVIOUS
<1>7. \/ Fault(c, "enter_event_id") /\ ~data.alive
      \/ data.alive /\ Show(c, s, d, b)
  <2>1. data.alive => (IF state = "0" THEN "" ELSE state) = "1"
    BY <1>4
  <2> QED BY <1>5, <1>6, <2>1 DEF enter_event_id, Needs
<1>8. d = [alive |-> data.alive, lists |-> data.lists, back |-> data.back,
           event |-> data.event, text |-> data.text, theater |-> data.theater,
           ticket |-> data.ticket, price |-> data.price,
           discount |-> data.discount, carried |-> data.carried,
           shown |-> data.shown, old |-> data.old,
           prompt |-> yes, sold |-> data.sold]
  BY <1>6, DataNow DEF Shape
<1>9. DataTyped(d) /\ Grows(data, d) /\ d.back = data.back /\ d.alive = data.alive
      /\ d.old = data.old
  BY <1>8, DataNow DEF DataTyped, Shape, Grows
<1>10. \A i \in b : Plain(i)
  BY <1>5, PlainButtons DEF Anywhere
<1>11. s \in Early \ {"TICKET", "CHOOSING", "PHONE_FOR_WAITING"} /\ s \in StatesOf[c]
  BY <1>3, <1>5 DEF Early
<1>12. \A i \in b : Fits(c, s, i)
  <2>1. "1" \in BackTargets(c, s)
    BY <1>5 DEF BackTargets, Anywhere
  <2> QED BY <1>5, <1>11, <2>1, EarlyBackFits, CancelFits DEF Early
<1>13. owner = c => /\ d.alive /\ Ways(c, d)
                    /\ c = "migration_admin" => d.old = "ticket"
  BY <1>2, <1>3, <1>9, OwnAt, OldIsTicket, WaysGrow
<1>14. CASE data.alive /\ Show(c, s, d, b)
  <2>1. s \notin {"MONTH", "SHOW", "DATE", "LIST_WAIT"}
    BY <1>5
  <2> QED BY <1>1, <1>2, <1>9, <1>10, <1>11, <1>12, <1>13, <1>14, <2>1, ShownEarly
<1>15. CASE Fault(c, "enter_event_id") /\ ~data.alive
  BY <1>1, <1>2, <1>15, Failed
<1> QED BY <1>7, <1>14, <1>15

\* The conversation ends, and user_data learns nothing of it.
LEMMA StepLeave ==
    ASSUME DialogInv, NEW c \in Convs, SideTyped, owner = c \/ owner \notin Convs,
           conv' = [conv EXCEPT ![c] = "none"], screen' = {},
           UNCHANGED <<state, command, data, owner, faults, starts>>
    PROVE  DialogInv'
<1>1. PICK s, b : s = "none" /\ b = {}
  OBVIOUS
<1>2. /\ DataTyped(data) /\ state \in {"none", "END"} \cup States
      /\ owner = "none" => ~data.alive
  BY DataNow
<1>3. b \subseteq Buttons /\ ScreenFits(state, b)
  BY <1>1 DEF ScreenFits
<1>4. owner = c => data.alive /\ Ways(c, data)
  BY DEF DialogInv, OwnInv, Own
<1>5. /\ conv' = [conv EXCEPT ![c] = s] /\ state' = state /\ screen' = b /\ data' = data
      /\ UNCHANGED <<command, owner, faults>>
  BY <1>1
<1> QED BY <1>1, <1>2, <1>3, <1>4, <1>5, StepAt

LEMMA choice_option_by_idKeeps ==
    ASSUME DialogInv, NEW c \in Convs, choice_option_by_id(c) PROVE DialogInv'
<1>1. Takes(c, Btn("text")) /\ SideTyped /\ conv[c] = "2"
  BY SideSame DEF choice_option_by_id, dbVars
<1>2. /\ conv[c] \in StatesOf[c] /\ conv[c] # "none" /\ (owner = c \/ owner \notin Convs)
  BY <1>1, PressedBtn
<1>3. c \in {"reserve_admin", "migration_admin"} /\ "TICKET" \in StatesOf[c]
  BY <1>1, <1>2, StatesAre DEF Convs
<1>4. CASE Fault(c, "choice_option_by_id")
  BY <1>1, <1>2, <1>4, StepFault DEF KnownFaults
<1>5. CASE /\ conv' = [conv EXCEPT ![c] = "none"] /\ screen' = {}
           /\ UNCHANGED <<state, command, data, owner, faults, starts>>
  BY <1>1, <1>2, <1>5, StepLeave
<1>6. ASSUME data.alive, NEW e \in Events,
             Move(c, "TICKET", [data EXCEPT !.event = e],
                  Each("TICKET", Tickets) \cup {Back("1"), Cancel})
      PROVE  DialogInv'
  <2>1. PICK s, b, d : /\ s = "TICKET" /\ d = [data EXCEPT !.event = e]
                       /\ b = Each("TICKET", Tickets) \cup {Back("1"), Cancel}
    OBVIOUS
  <2>2. Move(c, s, d, b)
    BY <1>6, <2>1
  <2>3. d = [alive |-> data.alive, lists |-> data.lists, back |-> data.back,
             event |-> e, text |-> data.text, theater |-> data.theater,
             ticket |-> data.ticket, price |-> data.price,
             discount |-> data.discount, carried |-> data.carried,
           shown |-> data.shown, old |-> data.old,
             prompt |-> data.prompt, sold |-> data.sold]
    BY <2>1, DataNow DEF Shape
  <2>4. e # "none"
    BY DialogAssumption
  <2>5. /\ DataTyped(d) /\ Grows(data, d) /\ d.back = data.back
        /\ d.alive = data.alive /\ d.old = data.old /\ d.event # "none"
    BY <2>3, <2>4, DataNow DEF DataTyped, Shape, Grows
  <2>6. \A i \in b : Plain(i)
    BY <2>1, PlainButtons DEF Anywhere
  <2>7. s \in States /\ s \in StatesOf[c] /\ ScreenFits(s, b)
    BY <1>3, <2>1, <2>6, PlainScreen, EarlyIsState DEF Early
  <2>8. ASSUME owner = c PROVE d.alive /\ Ways(c, d) /\ Comes(c, s, d, b)
    <3>1. d.alive /\ Ways(c, d) /\ (c = "migration_admin" => d.old = "ticket")
      BY <1>1, <1>2, <1>3, <2>5, <2>8, OwnAt, OldIsTicket, WaysGrow
    <3>2. Reached(c, d, s)
      BY <1>3, <2>1, <2>5, <2>7, <3>1 DEF Reached, Late
    <3>3. Paid(d, s)
      BY <2>1 DEF Paid, Late
    <3>4. "TICKET" \in Kinds(c, s) /\ "1" \in BackTargets(c, s)
      BY <1>3, <2>1 DEF Kinds, BackTargets, Anywhere
    <3>5. \A x : Fits(c, s, <<"TICKET", x>>)
      BY <2>7, <3>4, KeyFits
    <3>6. Fits(c, s, Back("1")) /\ Fits(c, s, Cancel)
      BY <2>7, <3>4, EarlyBackFits, CancelFits DEF Early
    <3>7. \A i \in b : Fits(c, s, i)
      BY <2>1, <3>5, <3>6 DEF Each
    <3> QED BY <2>1, <3>1, <3>2, <3>3, <3>7 DEF Comes
  <2>9. owner # "none"
    BY <1>6, DataNow
  <2> QED BY <1>1, <1>2, <2>2, <2>5, <2>7, <2>8, <2>9, StepMove
<1> QED BY <1>4, <1>5, <1>6 DEF choice_option_by_id

LEMMA get_ticket_by_idKeeps ==
    ASSUME DialogInv, NEW c \in Convs, get_ticket_by_id(c) PROVE DialogInv'
<1>1. Takes(c, Btn("text")) /\ SideTyped /\ conv[c] = "0"
  BY SideSame DEF get_ticket_by_id, dbVars
<1>2. /\ conv[c] \in StatesOf[c] /\ conv[c] \in States
      /\ conv[c] # "none" /\ (owner = c \/ owner \notin Convs)
  BY <1>1, PressedBtn
<1>3. c = "migration_admin" /\ "1" \in StatesOf[c] /\ "1" \in States /\ "0" \in States
  BY <1>1, <1>2, StatesAre, EarlyIsState DEF Convs, Early
<1>4. /\ DataTyped(data) /\ state \in {"none", "END"} \cup States
      /\ data.alive => owner # "none"
      /\ conv \in [Convs -> {"none"} \cup States]
  BY DataNow DEF DialogInv, TypeInv, TypeOK
<1>5. CASE Fault(c, "get_ticket_by_id")
  BY <1>1, <1>5, StepFault DEF KnownFaults
<1>6. CASE /\ Has("0") /\ screen' = data.back["0"]
           /\ UNCHANGED <<conv, state, command, data, owner, faults, starts>>
  <2>1. PICK s, b : s = "0" /\ b = data.back["0"]
    OBVIOUS
  <2>2. /\ data.alive /\ s \in DOMAIN data.back /\ b = data.back[s] /\ ScreenFits(s, b)
    BY <1>4, <1>6, <2>1 DEF Has, DataTyped
  <2>3. ScreenFits(state, b) /\ b \subseteq Buttons
    BY <2>1, <2>2 DEF ScreenFits
  <2>4. conv' = [conv EXCEPT ![c] = s]
    BY <1>1, <1>4, <1>6, <2>1
  <2>5. ASSUME owner = c
        PROVE  /\ Ways(c, data) /\ Reached(c, data, s) /\ Paid(data, s) /\ s = state
               /\ \A i \in b : Fits(c, s, i)
    BY <1>1, <1>2, <2>1, <2>2, <2>5, OwnAt, StateIs DEF Ways
  <2>6. /\ state' = state /\ screen' = b /\ data' = data
        /\ UNCHANGED <<command, owner, faults>> /\ s \in States /\ s # "TIME" /\ s # "none"
    BY <1>3, <1>6, <2>1
  <2> QED BY <1>1, <1>2, <1>4, <2>2, <2>3, <2>4, <2>5, <2>6, StepAt
<1>7. ASSUME data.alive, conv' = [conv EXCEPT ![c] = "1"],
             screen' = {Btn("migration"), Btn("update"), Back(""), Cancel},
             data' = Saved([data EXCEPT !.old = "ticket"], "1",
                           {Btn("migration"), Btn("update"), Back(""), Cancel}),
             UNCHANGED <<state, command, owner, faults, starts>>
      PROVE  DialogInv'
  <2>1. PICK s, b, d, t :
          /\ s = "1" /\ t = "ticket" /\ d = [data EXCEPT !.old = t]
          /\ b = {Btn("migration"), Btn("update"), Back(""), Cancel}
    OBVIOUS
  <2>2. d = [alive |-> data.alive, lists |-> data.lists, back |-> data.back,
             event |-> data.event, text |-> data.text, theater |-> data.theater,
             ticket |-> data.ticket, price |-> data.price,
             discount |-> data.discount, carried |-> data.carried,
           shown |-> data.shown, old |-> t,
             prompt |-> data.prompt, sold |-> data.sold]
    BY <2>1, DataNow DEF Shape
  <2>3. /\ DataTyped(d) /\ Shape(d) /\ Grows(data, d) /\ d.back = data.back
        /\ d.alive = data.alive /\ d.old = "ticket"
    BY <2>1, <2>2, DataNow DEF DataTyped, Shape, Grows
  <2>4. PICK e : e = Saved(d, s, b)
    OBVIOUS
  <2>5. \A i \in b : Plain(i)
    BY <2>1, PlainButtons DEF Anywhere
  <2>6. ScreenFits(s, b) /\ ScreenFits(state, b) /\ b \subseteq Buttons
    BY <2>5, PlainScreen DEF Plain
  <2>7. DataTyped(e) /\ e.alive = data.alive
    <3>1. s \in States
      BY <1>3, <2>1
    <3>2. DataTyped(e)
      BY <2>3, <2>4, <2>6, <3>1, SavedTyped
    <3>3. e.alive = data.alive
      BY <2>3, <2>4, SavedParts
    <3> QED BY <3>2, <3>3
  <2>8. \A i \in b : Fits(c, s, i)
    <3>1. "migration" \in Kinds(c, s) /\ "update" \in Kinds(c, s) /\ "" \in BackTargets(c, s)
      BY <1>3, <2>1 DEF Kinds, BackTargets, Anywhere
    <3>2. s \in StatesOf[c]
      BY <1>3, <2>1
    <3>3. Fits(c, s, Btn("migration")) /\ Fits(c, s, Btn("update"))
      BY <3>1, <3>2, KeyFits
    <3>4. Fits(c, s, Back("")) /\ Fits(c, s, Cancel)
      BY <3>1, <3>2, EarlyBackFits, CancelFits
    <3> QED BY <2>1, <3>3, <3>4
  <2>9. ASSUME owner = c
        PROVE  e.alive /\ Ways(c, e) /\ Reached(c, e, s) /\ Paid(e, s)
    <3>1. Ways(c, d)
      BY <1>2, <1>3, <2>3, <2>9, OwnAt, WaysGrow
    <3>2. s \in Early \ {"TICKET", "CHOOSING", "PHONE_FOR_WAITING"} /\ s \in StatesOf[c]
          /\ s \notin {"MONTH", "SHOW", "DATE", "LIST_WAIT"}
      BY <1>3, <2>1 DEF Early
    <3>3. Reached(c, d, s) /\ Paid(d, s)
      BY <2>3, <3>2, ReachedEarly
    <3> QED BY <1>7, <2>3, <2>4, <2>7, <2>8, <3>1, <3>3, SavedWays, SavedPaid
  <2>10. /\ conv' = [conv EXCEPT ![c] = s] /\ state' = state /\ screen' = b /\ data' = e
         /\ UNCHANGED <<command, owner, faults>> /\ s \in States /\ s = "1"
    BY <1>3, <1>7, <2>1, <2>4
  <2>11. owner # "none" /\ s # "none" /\ s # "TIME"
    BY <1>4, <1>7, <2>1
  <2> QED BY <1>1, <1>2, <1>3, <1>4, <2>6, <2>7, <2>8, <2>9, <2>10, <2>11, StepAt
<1> QED BY <1>5, <1>6, <1>7 DEF get_ticket_by_id

LEMMA migration_ticketKeeps ==
    ASSUME DialogInv, NEW c \in Convs, migration_ticket(c) PROVE DialogInv'
<1>1. Takes(c, Btn("migration")) /\ SideTyped
  BY SideSame DEF migration_ticket, dbVars
<1>2. /\ conv[c] \in StatesOf[c] /\ conv[c] = "1" /\ c = "migration_admin"
      /\ conv[c] # "none"
  BY <1>1, PressedBtn DEF Where
<1>3. PICK s, b : s = "1" /\ b = {Btn("id"), Btn("params"), Cancel}
  OBVIOUS
<1>4. \/ Fault(c, "migration_ticket") /\ ~data.alive
      \/ data.alive /\ Show(c, s, data, b)
  BY <1>3 DEF migration_ticket, Needs
<1>5. DataTyped(data) /\ s \in States
  BY <1>3, DataNow, EarlyIsState DEF Early
<1>6. ScreenFits(s, b)
  <2>1. Btn("id") \in Buttons /\ Btn("id")[1] = "id"
    BY ButtonsAre, ButtonParts
  <2>2. Plain(Btn("params")) /\ Plain(Cancel)
    BY PlainButtons
  <2> QED BY <1>3, <2>1, <2>2 DEF ScreenFits, Plain
<1>7. ASSUME owner = c
      PROVE  /\ data.alive /\ Ways(c, data) /\ Reached(c, data, s) /\ Paid(data, s)
             /\ \A i \in b : Fits(c, s, i)
  <2>1. data.alive /\ Ways(c, data) /\ Reached(c, data, s) /\ Paid(data, s)
    BY <1>2, <1>3, <1>7, OwnAt
  <2>2. "id" \in Kinds(c, s) /\ "params" \in Kinds(c, s) /\ s \in StatesOf[c]
    BY <1>2, <1>3 DEF Kinds
  <2>3. Fits(c, s, Btn("id")) /\ Fits(c, s, Btn("params")) /\ Fits(c, s, Cancel)
    BY <2>2, KeyFits, CancelFits
  <2> QED BY <1>3, <2>1, <2>3
<1>8. CASE data.alive /\ Show(c, s, data, b)
  BY <1>1, <1>2, <1>5, <1>6, <1>7, <1>8, Shown
<1>9. CASE Fault(c, "migration_ticket") /\ ~data.alive
  BY <1>1, <1>2, <1>9, Failed
<1> QED BY <1>4, <1>8, <1>9

LEMMA update_ticketKeeps ==
    ASSUME DialogInv, NEW c \in Convs, update_ticket(c) PROVE DialogInv'
<1>1. UNCHANGED <<conv, state, command, data, screen, owner>> /\ faults' = faults
      /\ SideTyped
  BY SideSame DEF update_ticket, vars
<1> QED BY <1>1, DataNow, StepSame

-----------------------------------------------------------------------------
(* A ticket, and the form.                                                 *)

LEMMA TypedLike ==
    ASSUME NEW d, NEW e, DataTyped(d), Shape(e), e.lists = d.lists, e.back = d.back,
           e.event = d.event, e.text = d.text, e.ticket \in {d.ticket} \cup Tickets,
           e.price \in {d.price} \cup Price, e.discount \in {d.discount, d.price, NoPrice},
           e.carried \in {d.carried} \cup BOOLEAN
    PROVE  DataTyped(e)
<1>1. d.price \in Price /\ d.discount \in Price /\ NoPrice \in Price
  BY DEF DataTyped, Price
<1>2. e.price \in Price /\ e.discount \in Price /\ e.ticket \in {"none"} \cup Tickets
  BY <1>1 DEF DataTyped
<1>3. e.carried \in BOOLEAN
  BY DEF DataTyped
<1> QED BY <1>2, <1>3 DEF DataTyped

\* A ticket and its price, and whether the discount was another one's.
WithTicket(x, t, p, k) == [x EXCEPT !.ticket = t, !.price = p, !.carried = k]
Another(t) == data.discount \notin {NoPrice, <<data.event, t>>}

LEMMA TicketSet ==
    ASSUME NEW x, Shape(x), NEW t, NEW p, NEW k, NEW d, d = WithTicket(x, t, p, k)
    PROVE  /\ Shape(d) /\ d.alive = x.alive /\ d.lists = x.lists /\ d.back = x.back
           /\ d.event = x.event /\ d.text = x.text /\ d.theater = x.theater
           /\ d.ticket = t /\ d.price = p /\ d.discount = x.discount /\ d.carried = k
           /\ d.shown = x.shown /\ d.old = x.old /\ d.sold = x.sold
<1>1. d = [alive |-> x.alive, lists |-> x.lists, back |-> x.back,
           event |-> x.event, text |-> x.text, theater |-> x.theater,
           ticket |-> t, price |-> p,
           discount |-> x.discount, carried |-> k, shown |-> x.shown, old |-> x.old,
           prompt |-> x.prompt, sold |-> x.sold]
  BY DEF Shape, WithTicket
<1> QED BY <1>1 DEF Shape

\* A ticket of the showing is chosen, at its price.
LEMMA TicketParts ==
    ASSUME DialogInv, NEW t \in Tickets, NEW d, data.event # "none",
           d = WithTicket(data, t, <<data.event, t>>, Another(t))
    PROVE  /\ DataTyped(d) /\ d.alive = data.alive /\ d.back = data.back
           /\ Grows(data, d) /\ d.event = data.event /\ d.text = data.text
           /\ d.old = data.old /\ d.ticket = t /\ d.price = <<data.event, t>>
           /\ d.price[2] # "none" /\ t # "none"
           /\ d.discount \in {NoPrice, d.price} \/ d.carried
           /\ \A c : Ways(c, data) => Ways(c, d)
<1>1. PICK p, x, k : p = <<data.event, t>> /\ x = data /\ k = Another(t)
  OBVIOUS
<1>0. k \in BOOLEAN
  BY <1>1 DEF Another
<1>2. Shape(x) /\ DataTyped(x) /\ d = WithTicket(x, t, p, k)
  BY <1>1, DataNow
<1>3. /\ Shape(d) /\ d.alive = x.alive /\ d.lists = x.lists /\ d.back = x.back
      /\ d.event = x.event /\ d.text = x.text /\ d.theater = x.theater
      /\ d.ticket = t /\ d.price = p /\ d.discount = x.discount /\ d.carried = k
      /\ d.shown = x.shown /\ d.old = x.old /\ d.sold = x.sold
  BY <1>2, TicketSet
<1>4. p \in Price
  <2>1. data.event \in Events
    BY DataNow DEF DataTyped
  <2> QED BY <1>1, <2>1 DEF Price
<1>5. t # "none" /\ p[2] = t
  BY <1>1, DialogAssumption
<1>6. DataTyped(d)
  BY <1>0, <1>2, <1>3, <1>4, TypedLike
<1>7. Grows(x, d)
  BY <1>3, <1>5 DEF Grows
<1>8. \A c : Ways(c, x) => Ways(c, d)
  <2>1. \A c : Ways(c, x) => (c = "reserve" => d.text = d.event)
    BY <1>3 DEF Ways
  <2> QED BY <1>3, <1>7, <2>1, WaysGrow
<1>9. d.discount \in {NoPrice, d.price} \/ d.carried
  BY <1>1, <1>3 DEF Another
<1> QED BY <1>1, <1>3, <1>5, <1>6, <1>7, <1>8, <1>9

\* After the ticket, a later screen of the form.
LEMMA LateOn ==
    ASSUME DialogInv, NEW c \in Convs, owner = c, conv[c] \in Late,
           NEW s \in {"OFFER", "EMAIL", "FORMA", "PHONE", "CHILDREN", "WAIT_DOCUMENT"},
           s \in StatesOf[c]
    PROVE  /\ data.alive /\ Ways(c, data) /\ Reached(c, data, s) /\ Paid(data, s)
           /\ data.event # "none" /\ data.ticket # "none" /\ data.price[2] # "none"
           /\ c = "reserve" => data.text # "none"
           /\ data.price = <<data.event, data.ticket>> /\ c # "migration_admin"
<1>1. /\ data.alive /\ Ways(c, data) /\ Reached(c, data, conv[c]) /\ Paid(data, conv[c])
  BY OwnAt DEF Late
<1>2. /\ data.event # "none" /\ data.ticket # "none" /\ data.price[2] # "none"
      /\ data.price = <<data.event, data.ticket>> /\ c # "migration_admin"
      /\ data.discount \in {NoPrice, data.price} \/ data.carried
  BY <1>1 DEF Reached, Paid
<1>3. s \in Late /\ s \notin {"MONTH", "SHOW", "DATE", "TICKET", "LIST_WAIT",
                            "PAID", "WAIT_RECEIPT", "CONFIRM_RESERVATION", "PROMOCODE_INPUT"}
  BY DEF Late
<1>4. Reached(c, data, s)
  BY <1>2, <1>3 DEF Reached
<1>5. Paid(data, s)
  BY <1>2, <1>3 DEF Paid
<1>6. c = "reserve" => data.text # "none"
  BY <1>1, <1>2 DEF Ways
<1> QED BY <1>1, <1>2, <1>4, <1>5, <1>6

\* The form shows its next screen: plain buttons, all of them answered.
LEMMA FormShown ==
    ASSUME DialogInv, NEW c \in Convs, SideTyped, conv[c] \in Late,
           NEW s \in {"OFFER", "EMAIL", "FORMA", "PHONE", "CHILDREN", "WAIT_DOCUMENT"},
           s \in StatesOf[c], NEW b, \A i \in b : Plain(i) /\ Fits(c, s, i),
           data.alive, Show(c, s, data, b)
    PROVE  DialogInv'
<1>1. s \in States /\ conv[c] # "none"
  BY EarlyIsState DEF Late
<1>2. ScreenFits(s, b) /\ DataTyped(data)
  BY PlainScreen, DataNow
<1>3. owner = c => /\ data.alive /\ Ways(c, data) /\ Reached(c, data, s) /\ Paid(data, s)
                   /\ \A i \in b : Fits(c, s, i)
  BY LateOn
<1> QED BY <1>1, <1>2, <1>3, Shown

\* The screens of the form.
LEMMA FormFits ==
    ASSUME NEW c \in Convs
    PROVE  /\ "EMAIL" \in StatesOf[c] => \A e : \A i \in EmailButtons(e) :
                Plain(i) /\ Fits(c, "EMAIL", i)
           /\ "OFFER" \in StatesOf[c] => \A i \in {Back("TICKET"), Cancel} :
                Plain(i) /\ Fits(c, "OFFER", i)
           /\ "FORMA" \in StatesOf[c] =>
                \A i \in {Btn("adult_confirm"), Back("TICKET"), Cancel} :
                  Plain(i) /\ Fits(c, "FORMA", i)
           /\ "PHONE" \in StatesOf[c] =>
                \A i \in {Btn("phone_confirm"), Back("FORMA"), Cancel} :
                  Plain(i) /\ Fits(c, "PHONE", i)
           /\ "CHILDREN" \in StatesOf[c] =>
                \A i \in {Btn("children chosen"), Back("PHONE"), Cancel} :
                  Plain(i) /\ Fits(c, "CHILDREN", i)
<1>1. /\ Plain(Cancel) /\ Plain(Back("TICKET")) /\ Plain(Back("FORMA")) /\ Plain(Back("PHONE"))
      /\ Plain(Btn("email_confirm")) /\ Plain(Btn("adult_confirm"))
      /\ Plain(Btn("phone_confirm")) /\ Plain(Btn("children chosen"))
  BY PlainButtons DEF Anywhere
<1>2. \A s \in StatesOf[c] : Fits(c, s, Cancel)
  BY CancelFits
<1>3. \A s \in StatesOf[c] : "TICKET" \in BackTargets(c, s) => Fits(c, s, Back("TICKET"))
  BY EarlyBackFits DEF Early
<1>4. /\ "TICKET" \in BackTargets(c, "EMAIL") /\ "TICKET" \in BackTargets(c, "OFFER")
      /\ "TICKET" \in BackTargets(c, "FORMA")
  BY DEF BackTargets, Anywhere
<1>5. "EMAIL" \in StatesOf[c] => Fits(c, "EMAIL", Btn("email_confirm"))
  <2>1. "email_confirm" \in Kinds(c, "EMAIL")
    BY DEF Kinds
  <2> QED BY <2>1, KeyFits
<1>6. "FORMA" \in StatesOf[c] => Fits(c, "FORMA", Btn("adult_confirm"))
  <2>1. "adult_confirm" \in Kinds(c, "FORMA")
    BY DEF Kinds
  <2> QED BY <2>1, KeyFits
<1>7. "PHONE" \in StatesOf[c] =>
        Fits(c, "PHONE", Btn("phone_confirm")) /\ Fits(c, "PHONE", Back("FORMA"))
  <2>1. "phone_confirm" \in Kinds(c, "PHONE")
    BY DEF Kinds
  <2>2. "FORMA" \in BackTargets(c, "PHONE")
    BY DEF BackTargets, Anywhere
  <2>3. "PHONE" \notin Early
    BY DEF Early
  <2> QED BY <2>1, <2>2, <2>3, KeyFits, BackFits
<1>8. "CHILDREN" \in StatesOf[c] =>
        Fits(c, "CHILDREN", Btn("children chosen")) /\ Fits(c, "CHILDREN", Back("PHONE"))
  <2>1. "children chosen" \in Kinds(c, "CHILDREN")
    BY DEF Kinds
  <2>2. "PHONE" \in BackTargets(c, "CHILDREN")
    BY DEF BackTargets, Anywhere
  <2>3. "CHILDREN" \notin Early
    BY DEF Early
  <2> QED BY <2>1, <2>2, <2>3, KeyFits, BackFits
<1>9. "EMAIL" \in StatesOf[c] => \A e : \A i \in EmailButtons(e) :
        Plain(i) /\ Fits(c, "EMAIL", i)
  BY <1>1, <1>2, <1>3, <1>4, <1>5 DEF EmailButtons
<1>10. "OFFER" \in StatesOf[c] => \A i \in {Back("TICKET"), Cancel} :
         Plain(i) /\ Fits(c, "OFFER", i)
  BY <1>1, <1>2, <1>3, <1>4
<1>11. "FORMA" \in StatesOf[c] =>
         \A i \in {Btn("adult_confirm"), Back("TICKET"), Cancel} :
           Plain(i) /\ Fits(c, "FORMA", i)
  BY <1>1, <1>2, <1>3, <1>4, <1>6
<1>12. "PHONE" \in StatesOf[c] =>
         \A i \in {Btn("phone_confirm"), Back("FORMA"), Cancel} :
           Plain(i) /\ Fits(c, "PHONE", i)
  BY <1>1, <1>2, <1>7
<1>13. "CHILDREN" \in StatesOf[c] =>
         \A i \in {Btn("children chosen"), Back("PHONE"), Cancel} :
           Plain(i) /\ Fits(c, "CHILDREN", i)
  BY <1>1, <1>2, <1>8
<1> QED BY <1>9, <1>10, <1>11, <1>12, <1>13

\* The first screen after the ticket.
LEMMA TicketShown ==
    ASSUME DialogInv, NEW c \in Convs, NEW t \in Tickets, NEW d, NEW b,
           conv[c] # "none", SideTyped, data.alive, data.event # "none",
           d = WithTicket(data, t, <<data.event, t>>, Another(t)),
           NEW s \in {"OFFER", "EMAIL", "FORMA"}, s \in StatesOf[c],
           owner = c => c # "migration_admin",
           \A i \in b : Plain(i) /\ Fits(c, s, i), Show(c, s, d, b)
    PROVE  DialogInv'
<1>1. /\ DataTyped(d) /\ d.alive = data.alive /\ d.event = data.event
      /\ d.ticket = t /\ d.price = <<data.event, t>>
      /\ d.price[2] # "none" /\ t # "none"
      /\ d.discount \in {NoPrice, d.price} \/ d.carried
      /\ \A k : Ways(k, data) => Ways(k, d)
  BY TicketParts
<1>2. s \in States /\ ScreenFits(s, b) /\ s \in Late
  BY EarlyIsState, PlainScreen DEF Late
<1>3. owner = c => /\ d.alive /\ Ways(c, d) /\ Reached(c, d, s) /\ Paid(d, s)
                   /\ \A i \in b : Fits(c, s, i)
  <2>1. owner = c => d.alive /\ Ways(c, d)
    BY <1>1, OwnAt
  <2>2. owner = c => Reached(c, d, s)
    BY <1>1, <1>2 DEF Reached
  <2>3. Paid(d, s)
    BY <1>1 DEF Paid
  <2> QED BY <2>1, <2>2, <2>3
<1> QED BY <1>1, <1>2, <1>3, Shown

\* The ticket or the showing has gone: the showings are shown once more.
LEMMA TimeAgainKeeps ==
    ASSUME DialogInv, NEW c \in Convs, TimeAgain(c), SideTyped, data.alive,
           conv[c] = "TICKET", c = "reserve"
    PROVE  DialogInv'
<1>1. /\ conv[c] # "none" /\ owner # "none" /\ (owner = c \/ owner \notin Convs)
      /\ DataTyped(data) /\ state \in {"none", "END"} \cup States
  BY WhoseTurn, DataNow
<1>2. owner = c => "TIME" \in DOMAIN data.back
  BY <1>1, OwnAt DEF Reached
<1>3. CASE ~Has("TIME")
  <2>1. Fault(c, "get_ticket") /\ owner # c
    BY <1>2, <1>3 DEF TimeAgain, Has
  <2> QED BY <1>1, <2>1, StepFault
<1>4. CASE Has("TIME")
  <2>1. PICK s, b : s = "TIME" /\ b = data.back["TIME"]
    OBVIOUS
  <2>2. /\ s \in DOMAIN data.back /\ b = data.back[s] /\ ScreenFits(s, b)
    BY <1>1, <1>4, <2>1 DEF Has, DataTyped
  <2>3. ScreenFits(state, b) /\ b \subseteq Buttons
    BY <2>1, <2>2 DEF ScreenFits
  <2>4. ASSUME owner = c
        PROVE  /\ Ways(c, data) /\ Reached(c, data, s) /\ Paid(data, s)
               /\ \A i \in b : Fits(c, s, i)
    <3>1. /\ Ways(c, data) /\ Reached(c, data, s) /\ \A i \in b : Fits(c, s, i)
      BY <1>1, <2>2, <2>4, OwnAt DEF Ways
    <3>2. Paid(data, s)
      BY <2>1 DEF Paid, Late
    <3> QED BY <3>1, <3>2
  <2>5. /\ conv' = [conv EXCEPT ![c] = s] /\ state' = state /\ screen' = b /\ data' = data
        /\ UNCHANGED <<command, owner, faults>> /\ s = "TIME" /\ s \in States /\ s # "none"
    BY <1>4, <2>1, EarlyIsState DEF TimeAgain, Early
  <2> QED BY <1>1, <2>2, <2>3, <2>4, <2>5, StepAt
<1> QED BY <1>3, <1>4

LEMMA get_ticketKeeps ==
    ASSUME DialogInv, NEW c \in Convs, get_ticket(c) PROVE DialogInv'
<1>1. PICK t \in Tickets :
        /\ c = "reserve" /\ Takes(c, <<"TICKET", t>>) /\ UNCHANGED <<mode, dbVars>>
        /\ IF ~ data.alive \/ data.event = "none"
           THEN Fault(c, "get_ticket")
           ELSE \/ TimeAgain(c)
                \/ /\ t \in Individual
                   /\ conv' = [conv EXCEPT ![c] = "none"]
                   /\ state' = "END" /\ data' = Gone /\ owner' = "none"
                   /\ screen' = {}
                   /\ UNCHANGED <<command, faults, starts>>
                \/ /\ t \notin Individual
                   /\ \/ Show(c, "EMAIL", Chosen(t), EmailButtons(email))
                      \/ Show(c, "OFFER", Chosen(t), {Back("TICKET"), Cancel})
  BY DEF get_ticket
<1>2. SideTyped
  BY <1>1, SideSame DEF dbVars
<1>3. conv[c] \in StatesOf[c] /\ conv[c] = "TICKET" /\ conv[c] # "none"
  BY <1>1, Pressed DEF Where
<1>4. PICK d : d = WithTicket(data, t, <<data.event, t>>, Another(t))
               /\ d = Chosen(t)
  BY DEF WithTicket, Another, Chosen
<1>5. "EMAIL" \in StatesOf[c] /\ "OFFER" \in StatesOf[c]
  BY <1>1, StatesAre
<1>6. CASE ~ data.alive \/ data.event = "none"
  <2>1. Fault(c, "get_ticket")
    BY <1>1, <1>6
  <2>2. owner = c => data.alive /\ data.event # "none"
    BY <1>3, OwnAt DEF Reached
  <2> QED BY <1>2, <1>3, <1>6, <2>1, <2>2, Failed
<1>7. ASSUME data.alive, data.event # "none", TimeAgain(c) PROVE DialogInv'
  BY <1>1, <1>2, <1>3, <1>7, TimeAgainKeeps
<1>8. ASSUME conv' = [conv EXCEPT ![c] = "none"],
             state' = "END", data' = Gone, owner' = "none", screen' = {},
             UNCHANGED <<command, faults, starts>>
      PROVE  DialogInv'
  <2>1. /\ conv \in [Convs -> {"none"} \cup States] /\ command \in {"none", "list"} \cup Convs
        /\ faults \subseteq KnownFaults
    BY DEF DialogInv, TypeInv, TypeOK, OwnInv, OwnDialogNeverFails
  <2> QED BY <1>2, <1>8, <2>1, StepGone
<1>9. ASSUME data.alive, data.event # "none", Show(c, "EMAIL", d, EmailButtons(email))
      PROVE  DialogInv'
  <2>1. PICK s, b : s = "EMAIL" /\ b = EmailButtons(email)
    OBVIOUS
  <2>2. \A i \in b : Plain(i) /\ Fits(c, s, i)
    BY <1>5, <2>1, FormFits
  <2>3. s \in {"OFFER", "EMAIL", "FORMA"} /\ s \in StatesOf[c] /\ Show(c, s, d, b)
        /\ c # "migration_admin"
    BY <1>1, <1>5, <1>9, <2>1
  <2> QED BY <1>2, <1>3, <1>4, <1>9, <2>2, <2>3, TicketShown
<1>10. ASSUME data.alive, data.event # "none", Show(c, "OFFER", d, {Back("TICKET"), Cancel})
       PROVE  DialogInv'
  <2>1. PICK s, b : s = "OFFER" /\ b = {Back("TICKET"), Cancel}
    OBVIOUS
  <2>2. \A i \in b : Plain(i) /\ Fits(c, s, i)
    BY <1>5, <2>1, FormFits
  <2>3. s \in {"OFFER", "EMAIL", "FORMA"} /\ s \in StatesOf[c] /\ Show(c, s, d, b)
        /\ c # "migration_admin"
    BY <1>1, <1>5, <1>10, <2>1
  <2> QED BY <1>2, <1>3, <1>4, <1>10, <2>2, <2>3, TicketShown
<1> QED BY <1>1, <1>4, <1>6, <1>7, <1>8, <1>9, <1>10

LEMMA get_agreementKeeps ==
    ASSUME DialogInv, NEW c \in Convs, get_agreement(c) PROVE DialogInv'
<1>1. Takes(c, Btn("accept")) /\ SideTyped /\ conv[c] = "OFFER"
  BY SideSame DEF get_agreement, dbVars
<1>2. conv[c] \in StatesOf[c] /\ conv[c] # "none"
  BY <1>1, PressedBtn
<1>3. "EMAIL" \in StatesOf[c] /\ conv[c] \in Late
  BY <1>1, <1>2, StatesAre DEF Convs, Late
<1>4. PICK s, b : s = "EMAIL" /\ b = EmailButtons(email)
  OBVIOUS
<1>5. \/ Fault(c, "get_agreement") /\ ~data.alive
      \/ data.alive /\ Show(c, s, data, b)
  BY <1>4 DEF get_agreement, Needs
<1>6. s \in {"OFFER", "EMAIL", "FORMA", "PHONE", "CHILDREN", "WAIT_DOCUMENT"} /\ s \in StatesOf[c]
      /\ \A i \in b : Plain(i) /\ Fits(c, s, i)
  BY <1>3, <1>4, FormFits
<1>7. CASE data.alive /\ Show(c, s, data, b)
  BY <1>1, <1>3, <1>6, <1>7, FormShown
<1>8. CASE Fault(c, "get_agreement") /\ ~data.alive
  BY <1>1, <1>2, <1>8, Failed
<1> QED BY <1>5, <1>7, <1>8

LEMMA get_emailKeeps ==
    ASSUME DialogInv, NEW c \in Convs, get_email(c) PROVE DialogInv'
<1>1. SideTyped /\ conv[c] = "EMAIL"
  BY DataNow DEF get_email, SideTyped
<1>2. conv[c] \in StatesOf[c] /\ conv[c] # "none" /\ (owner = c \/ owner \notin Convs)
  <2>1. CASE Takes(c, Btn("email_confirm"))
    BY <2>1, PressedBtn
  <2>2. CASE Takes(c, Btn("text"))
    BY <2>2, PressedBtn
  <2> QED BY <2>1, <2>2 DEF get_email
<1>3. "FORMA" \in StatesOf[c] /\ conv[c] \in Late /\ c = "reserve"
  BY <1>1, <1>2, StatesAre DEF Convs, Late
<1>4. CASE ~ data.alive \/ "none" \in {data.ticket, data.price[2], data.text}
  <2>1. Fault(c, "get_email")
    BY <1>4 DEF get_email
  <2>2. owner = c => "none" \notin {data.ticket, data.price[2], data.text}
    <3>1. PICK s : s = "FORMA"
      OBVIOUS
    <3>2. s \in {"OFFER", "EMAIL", "FORMA", "PHONE", "CHILDREN", "WAIT_DOCUMENT"} /\ s \in StatesOf[c]
      BY <1>3, <3>1
    <3> QED BY <1>3, <3>2, LateOn
  <2> QED BY <1>1, <1>2, <1>4, <2>1, <2>2, Failed
<1>5. CASE UNCHANGED <<conv, state, command, data, screen, owner, faults, starts>>
  BY <1>1, <1>5, DataNow, StepSame
<1>6. CASE data.alive /\ Show(c, "FORMA", data, {Btn("adult_confirm"), Back("TICKET"), Cancel})
  <2>1. PICK s, b : s = "FORMA" /\ b = {Btn("adult_confirm"), Back("TICKET"), Cancel}
    OBVIOUS
  <2>2. /\ s \in {"OFFER", "EMAIL", "FORMA", "PHONE", "CHILDREN", "WAIT_DOCUMENT"}
        /\ s \in StatesOf[c] /\ Show(c, s, data, b)
        /\ \A i \in b : Plain(i) /\ Fits(c, s, i)
    BY <1>3, <1>6, <2>1, FormFits
  <2> QED BY <1>1, <1>3, <1>6, <2>2, FormShown
<1> QED BY <1>4, <1>5, <1>6 DEF get_email

LEMMA start_forma_infoKeeps ==
    ASSUME DialogInv, NEW c \in Convs, start_forma_info(c) PROVE DialogInv'
<1>1. PICK t \in Tickets :
        /\ c # "reserve" /\ Takes(c, <<"TICKET", t>>) /\ UNCHANGED <<mode, dbVars>>
        /\ IF \/ ~ data.alive \/ data.event = "none"
              \/ command = "migration_admin" /\ data.old # "ticket"
           THEN Fault(c, "start_forma_info")
           ELSE IF command = "migration_admin" THEN End(c) \/ EndClean(c)
           ELSE Show(c, "FORMA", Chosen(t), {Btn("adult_confirm"), Cancel})
  BY DEF start_forma_info
<1>2. SideTyped
  BY <1>1, SideSame DEF dbVars
<1>3. /\ conv[c] \in StatesOf[c] /\ conv[c] = "TICKET" /\ conv[c] # "none"
      /\ owner = c \/ owner \notin Convs
  BY <1>1, Pressed DEF Where
<1>4. "FORMA" \in StatesOf[c]
  BY <1>3, StatesAre DEF Convs
<1>5. owner = c => /\ data.alive /\ data.event # "none" /\ command = c
                   /\ c = "migration_admin" => data.old = "ticket"
  BY <1>1, <1>3, OwnAt DEF Reached, CommandsOf
<1>6. CASE Fault(c, "start_forma_info") /\
           (\/ ~ data.alive \/ data.event = "none"
            \/ command = "migration_admin" /\ data.old # "ticket")
  BY <1>2, <1>3, <1>5, <1>6, Failed
<1>7. CASE End(c) \/ EndClean(c)
  BY <1>2, <1>3, <1>7, StepEnd, StepEndClean
<1>8. ASSUME data.alive, data.event # "none", command # "migration_admin",
             Show(c, "FORMA", Chosen(t), {Btn("adult_confirm"), Cancel})
      PROVE  DialogInv'
  <2>1. PICK s, b, d : /\ s = "FORMA" /\ b = {Btn("adult_confirm"), Cancel}
                       /\ d = WithTicket(data, t, <<data.event, t>>, Another(t))
                       /\ d = Chosen(t)
    BY DEF WithTicket, Another, Chosen
  <2>2. \A i \in b : Plain(i) /\ Fits(c, s, i)
    BY <1>4, <2>1, FormFits
  <2>3. s \in {"OFFER", "EMAIL", "FORMA"} /\ s \in StatesOf[c] /\ Show(c, s, d, b)
    BY <1>4, <1>8, <2>1
  <2>4. owner = c => c # "migration_admin"
    BY <1>5, <1>8
  <2> QED BY <1>2, <1>3, <1>8, <2>1, <2>2, <2>3, <2>4, TicketShown
<1> QED BY <1>1, <1>6, <1>7, <1>8

LEMMA get_adultKeeps ==
    ASSUME DialogInv, NEW c \in Convs, get_adult(c) PROVE DialogInv'
<1>1. SideTyped /\ conv[c] = "FORMA"
  BY SideSame DEF get_adult, dbVars
<1>2. conv[c] \in StatesOf[c] /\ conv[c] # "none"
  <2>1. CASE Takes(c, Btn("adult_confirm"))
    BY <2>1, PressedBtn
  <2>2. CASE Takes(c, Btn("text"))
    BY <2>2, PressedBtn
  <2> QED BY <2>1, <2>2 DEF get_adult
<1>3. "PHONE" \in StatesOf[c] /\ conv[c] \in Late
  BY <1>1, <1>2, StatesAre DEF Convs, Late
<1>4. PICK s, b : s = "PHONE" /\ b = {Btn("phone_confirm"), Back("FORMA"), Cancel}
  OBVIOUS
<1>5. \/ Fault(c, "get_adult") /\ ~data.alive
      \/ data.alive /\ Show(c, s, data, b)
  BY <1>4 DEF get_adult, Needs
<1>6. s \in {"OFFER", "EMAIL", "FORMA", "PHONE", "CHILDREN", "WAIT_DOCUMENT"} /\ s \in StatesOf[c]
      /\ \A i \in b : Plain(i) /\ Fits(c, s, i)
  BY <1>3, <1>4, FormFits
<1>7. CASE data.alive /\ Show(c, s, data, b)
  BY <1>1, <1>3, <1>6, <1>7, FormShown
<1>8. CASE Fault(c, "get_adult") /\ ~data.alive
  BY <1>1, <1>2, <1>8, Failed
<1> QED BY <1>5, <1>7, <1>8

LEMMA ChildrenFormKeeps ==
    ASSUME DialogInv, NEW c \in Convs, NEW h, SideTyped,
           conv[c] \in StatesOf[c], conv[c] \in {"PHONE", "PHONE_FOR_WAITING", "CHILDREN"},
           owner = c => conv[c] # "PHONE_FOR_WAITING",
           Needs(c, h, data.ticket # "none", ChildrenForm(c))
    PROVE  DialogInv'
<1>1. conv[c] # "none" /\ "CHILDREN" \in StatesOf[c]
  BY StatesAre DEF Convs
<1>2. PICK s, b : s = "CHILDREN" /\ b = {Btn("children chosen"), Back("PHONE"), Cancel}
  OBVIOUS
<1>3. \/ Fault(c, h) /\ (data.alive => data.ticket = "none")
      \/ Fault(c, "get_child_text_and_reply")
      \/ data.alive /\ Show(c, s, data, b)
  BY <1>2 DEF Needs, ChildrenForm
<1>4. s \in {"OFFER", "EMAIL", "FORMA", "PHONE", "CHILDREN", "WAIT_DOCUMENT"} /\ s \in StatesOf[c]
      /\ \A i \in b : Plain(i) /\ Fits(c, s, i)
  BY <1>1, <1>2, FormFits
<1>5. owner = c => /\ data.ticket # "none" /\ data.alive /\ Ways(c, data)
                   /\ Reached(c, data, s) /\ Paid(data, s)
  <2>1. owner = c => conv[c] \in Late
    BY DEF Late
  <2> QED BY <1>4, <2>1, LateOn
<1>6. CASE data.alive /\ Show(c, s, data, b)
  <2>1. s \in States /\ ScreenFits(s, b) /\ DataTyped(data)
    BY <1>2, <1>4, EarlyIsState, PlainScreen, DataNow DEF Late
  <2>2. owner = c => /\ data.alive /\ Ways(c, data) /\ Reached(c, data, s)
                     /\ Paid(data, s) /\ \A i \in b : Fits(c, s, i)
    BY <1>4, <1>5
  <2> QED BY <1>1, <1>6, <2>1, <2>2, Shown
<1>7. CASE Fault(c, h) /\ (data.alive => data.ticket = "none")
  <2>1. owner = c /\ data.alive => h \in KnownFaults
    BY <1>5, <1>7
  <2> QED BY <1>1, <1>7, <2>1, Failed
<1>8. CASE Fault(c, "get_child_text_and_reply")
  BY <1>1, <1>8, Failed DEF KnownFaults
<1> QED BY <1>3, <1>6, <1>7, <1>8

\* The conversation takes the state in user_data.
LEMMA StepTo ==
    ASSUME DialogInv, NEW c \in Convs, NEW b, conv' = To(c), screen' = b,
           UNCHANGED <<state, command, data, owner, faults, starts>>, SideTyped,
           data.alive, conv[c] # "none", b \subseteq Buttons, ScreenFits(state, b),
           owner = c => /\ state = conv[c] /\ conv[c] \in StatesOf[c]
                        /\ \A i \in b : Fits(c, conv[c], i)
    PROVE  DialogInv'
<1>1. /\ DataTyped(data) /\ state \in {"none", "END"} \cup States
      /\ owner # "none" /\ (owner = c \/ owner \notin Convs)
  BY DataNow, WhoseTurn
<1>2. PICK s : s = (IF state = "END" THEN "none" ELSE state)
  OBVIOUS
<1>3. s \in {"none"} \cup States
  BY <1>1, <1>2
<1>4. ASSUME owner = c
      PROVE  /\ Ways(c, data) /\ Reached(c, data, s) /\ Paid(data, s) /\ s = state
             /\ s # "none"
             /\ s = "TIME" => "TIME" \in DOMAIN data.back
             /\ \A i \in b : Fits(c, s, i)
  <2>1. state # "END" /\ s = conv[c]
    BY <1>2, <1>4, StatesOpen
  <2> QED BY <1>4, <2>1, OwnAt
<1>5. /\ conv' = [conv EXCEPT ![c] = s] /\ state' = state /\ screen' = b /\ data' = data
      /\ UNCHANGED <<command, owner, faults>>
  BY <1>2 DEF To
<1>6. owner = c =>
        /\ data.alive /\ Ways(c, data)
        /\ s = "none" => b = {}
        /\ s # "none" => /\ Reached(c, data, s) /\ Paid(data, s)
                         /\ s = state
                         /\ s = "TIME" => "TIME" \in DOMAIN data.back
                         /\ \A i \in b : Fits(c, s, i)
  BY <1>4
<1> QED BY <1>1, <1>3, <1>5, <1>6, StepAt

LEMMA AskAgainKeeps ==
    ASSUME DialogInv, NEW c \in Convs, NEW h, SideTyped, conv[c] \in StatesOf[c],
           conv[c] \in {"PHONE", "PHONE_FOR_WAITING"}, Needs(c, h, TRUE, AskAgain(c))
    PROVE  DialogInv'
<1>1. conv[c] # "none" /\ (owner = c => state = conv[c])
  BY StateIs
<1>2. PICK b : b = {Cancel}
  OBVIOUS
<1>3. \A i \in b : Plain(i) /\ Fits(c, conv[c], i)
  BY <1>2, PlainButtons, CancelFits
<1>4. b \subseteq Buttons /\ ScreenFits(state, b)
  BY <1>3, PlainScreen DEF Plain
<1>5. CASE data.alive /\ AskAgain(c)
  <2>1. /\ conv' = To(c) /\ screen' = b
        /\ UNCHANGED <<state, command, data, owner, faults, starts>>
    BY <1>2, <1>5 DEF AskAgain
  <2> QED BY <1>1, <1>3, <1>4, <1>5, <2>1, StepTo
<1>6. CASE ~data.alive /\ Fault(c, h)
  BY <1>1, <1>6, Failed
<1> QED BY <1>5, <1>6 DEF Needs

LEMMA get_phoneKeeps ==
    ASSUME DialogInv, NEW c \in Convs, get_phone(c) PROVE DialogInv'
<1>1. Takes(c, Btn("text")) /\ SideTyped /\ conv[c] = "PHONE"
  BY SideSame DEF get_phone, dbVars
<1>2. conv[c] \in StatesOf[c]
  BY <1>1, PressedBtn
<1>3. PICK h : h = "get_phone"
  OBVIOUS
<1>4. \/ Needs(c, h, TRUE, AskAgain(c))
      \/ Needs(c, h, data.ticket # "none", ChildrenForm(c))
  BY <1>3 DEF get_phone
<1>5. CASE Needs(c, h, TRUE, AskAgain(c))
  BY <1>1, <1>2, <1>5, AskAgainKeeps
<1>6. CASE Needs(c, h, data.ticket # "none", ChildrenForm(c))
  BY <1>1, <1>2, <1>6, ChildrenFormKeeps
<1> QED BY <1>4, <1>5, <1>6

LEMMA AddToWaitingKeeps ==
    ASSUME DialogInv, NEW c \in Convs, SideTyped, AddToWaiting(c),
           conv[c] \in StatesOf[c], conv[c] # "none",
           owner = c => conv[c] = "PHONE_FOR_WAITING"
    PROVE  DialogInv'
<1>1. owner = c \/ owner \notin Convs
  BY WhoseTurn
<1>2. owner = c => data.alive /\ data.event # "none" /\ data.text # "none"
  <2>1. ASSUME owner = c PROVE data.alive /\ data.event # "none" /\ data.text # "none"
    <3>1. c = "reserve"
      BY <2>1, StatesAre DEF Convs
    <3>2. data.alive /\ Ways(c, data) /\ Reached(c, data, "PHONE_FOR_WAITING")
      BY <2>1, OwnAt
    <3> QED BY <3>1, <3>2 DEF Ways, Reached
  <2> QED BY <2>1
<1>3. CASE ~ data.alive \/ "none" \in {data.event, data.text}
  <2>1. Fault(c, "send_admin_info_add_list_wait") /\ owner # c
    BY <1>2, <1>3 DEF AddToWaiting
  <2> QED BY <2>1, StepFault
<1>4. CASE ~ (~ data.alive \/ "none" \in {data.event, data.text})
  <2>1. End(c)
    BY <1>4 DEF AddToWaiting
  <2> QED BY <1>1, <2>1, StepEnd
<1> QED BY <1>3, <1>4

LEMMA phone_confirmKeeps ==
    ASSUME DialogInv, NEW c \in Convs, phone_confirm(c) PROVE DialogInv'
<1>1. Takes(c, Btn("phone_confirm")) /\ SideTyped
  BY SideSame DEF phone_confirm
<1>2. /\ conv[c] \in StatesOf[c] /\ conv[c] \in {"PHONE", "PHONE_FOR_WAITING"}
      /\ conv[c] # "none"
  BY <1>1, PressedBtn DEF Where
<1>3. owner = c => state = conv[c]
  BY <1>2, StateIs
<1>4. CASE state = "PHONE_FOR_WAITING" /\ AddToWaiting(c)
  <2>1. owner = c => conv[c] = "PHONE_FOR_WAITING"
    BY <1>3, <1>4
  <2> QED BY <1>1, <1>2, <1>4, <2>1, AddToWaitingKeeps
<1>5. CASE /\ state = "PHONE"
           /\ Needs(c, "phone_confirm", data.ticket # "none", ChildrenForm(c))
  <2>1. owner = c => conv[c] # "PHONE_FOR_WAITING"
    BY <1>3, <1>5
  <2> QED BY <1>1, <1>2, <1>5, <2>1, ChildrenFormKeeps
<1>6. CASE /\ state \notin {"PHONE", "PHONE_FOR_WAITING"}
           /\ Needs(c, "phone_confirm", TRUE,
                    /\ conv' = To(c)
                    /\ UNCHANGED <<state, command, data, screen, owner, faults,
                                   starts>>)
  <2>1. owner # c
    BY <1>2, <1>3, <1>6
  <2>2. CASE /\ data.alive /\ conv' = To(c)
             /\ UNCHANGED <<state, command, data, screen, owner, faults, starts>>
    <3>1. screen \subseteq Buttons /\ ScreenFits(state, screen)
      BY <2>2, DataNow
    <3> QED BY <1>1, <1>2, <2>1, <2>2, <3>1, StepTo
  <2>3. CASE ~data.alive /\ Fault(c, "phone_confirm")
    BY <1>1, <1>2, <2>3, Failed
  <2> QED BY <1>6, <2>2, <2>3 DEF Needs
<1> QED BY <1>4, <1>5, <1>6 DEF phone_confirm

LEMMA write_list_of_waitingKeeps ==
    ASSUME DialogInv, NEW c \in Convs, write_list_of_waiting(c) PROVE DialogInv'
<1>1. Takes(c, Btn("WAIT")) /\ SideTyped
  BY SideSame DEF write_list_of_waiting, dbVars
<1>2. /\ conv[c] \in StatesOf[c] /\ conv[c] \in {"TICKET", "CHOOSING"} /\ conv[c] # "none"
      /\ conv[c] = "TICKET" => c = "reserve"
      /\ Btn("WAIT") \in screen /\ (owner = c \/ owner \notin Convs)
  BY <1>1, PressedBtn DEF Where
<1>3. c = "reserve" /\ "PHONE_FOR_WAITING" \in StatesOf[c]
  BY <1>2, StatesAre DEF Convs
<1>4. CASE ~data.alive /\ Fault(c, "write_list_of_waiting")
  BY <1>1, <1>2, <1>4, Failed
<1>5. ASSUME data.alive,
             NEW b, b \in {{Btn("phone_confirm"), Back(state), Cancel}, {}},
             Move(c, "PHONE_FOR_WAITING", data, b)
      PROVE  DialogInv'
  <2>1. state \in {"TICKET", "CHOOSING"}
    <3>1. Btn("WAIT")[1] = "WAIT"
      BY ButtonParts
    <3>2. ScreenFits(state, screen)
      BY <1>5, DataNow
    <3>3. PICK i : i = Btn("WAIT")
      OBVIOUS
    <3>4. i \in screen /\ i[1] = "WAIT"
      BY <1>2, <3>1, <3>3
    <3> QED BY <3>2, <3>4 DEF ScreenFits
  <2>2. PICK s : s = "PHONE_FOR_WAITING"
    OBVIOUS
  <2>3. s \in States /\ s \in StatesOf[c] /\ s \in Early /\ Move(c, s, data, b)
    BY <1>3, <1>5, <2>2, EarlyIsState DEF Early
  <2>4. \A i \in b : Plain(i)
    <3>1. Plain(Back(state)) /\ Plain(Btn("phone_confirm")) /\ Plain(Cancel)
      BY <2>1, PlainButtons DEF Anywhere
    <3> QED BY <1>5, <3>1
  <2>5. ScreenFits(s, b) /\ DataTyped(data) /\ owner # "none"
    BY <1>5, <2>4, PlainScreen, DataNow
  <2>6. \A i \in b : Fits(c, s, i)
    <3>1. "phone_confirm" \in Kinds(c, s) /\ "TICKET" \in BackTargets(c, s)
      BY <2>2 DEF Kinds, BackTargets
    <3>2. Fits(c, s, Btn("phone_confirm")) /\ Fits(c, s, Cancel)
      BY <2>3, <3>1, KeyFits, CancelFits
    <3>3. Fits(c, s, Back("TICKET"))
      BY <2>3, <3>1, EarlyBackFits DEF Early
    <3>4. Fits(c, s, Back("CHOOSING"))
      <4>1. Silent(c, s, Back("CHOOSING"))
        BY <2>2 DEF Silent
      <4>2. Back("CHOOSING")[2] = "CHOOSING"
        BY ButtonParts
      <4> QED BY <4>1, <4>2 DEF Fits, Early
    <3> QED BY <1>5, <2>1, <3>2, <3>3, <3>4
  <2>7. ASSUME owner = c PROVE data.alive /\ Ways(c, data) /\ Comes(c, s, data, b)
    <3>1. data.alive /\ Ways(c, data) /\ Reached(c, data, conv[c])
      BY <1>2, <2>7, OwnAt
    <3>2. data.event # "none"
      BY <1>2, <3>1 DEF Reached
    <3>3. Reached(c, data, s) /\ Paid(data, s)
      BY <1>3, <2>2, <2>3, <3>2 DEF Reached, Paid, Late
    <3> QED BY <2>2, <2>6, <3>1, <3>3 DEF Comes
  <2> QED BY <1>1, <1>2, <2>3, <2>5, <2>7, StepMove
<1>6. \/ ~data.alive /\ Fault(c, "write_list_of_waiting")
      \/ data.alive /\ \E b \in {{Btn("phone_confirm"), Back(state), Cancel}, {}} :
                          Move(c, "PHONE_FOR_WAITING", data, b)
  BY DEF write_list_of_waiting, Needs
<1> QED BY <1>4, <1>5, <1>6

LEMMA get_phone_for_waitingKeeps ==
    ASSUME DialogInv, NEW c \in Convs, get_phone_for_waiting(c) PROVE DialogInv'
<1>1. /\ Takes(c, Btn("text")) /\ SideTyped
      /\ conv[c] = "PHONE_FOR_WAITING"
  BY SideSame DEF get_phone_for_waiting
<1>2. conv[c] \in StatesOf[c] /\ conv[c] # "none"
  BY <1>1, PressedBtn
<1>3. CASE Needs(c, "get_phone_for_waiting", TRUE, AskAgain(c))
  BY <1>1, <1>2, <1>3, AskAgainKeeps
<1>4. CASE AddToWaiting(c)
  BY <1>1, <1>2, <1>4, AddToWaitingKeeps
<1> QED BY <1>3, <1>4 DEF get_phone_for_waiting

-----------------------------------------------------------------------------
(* The summary.                                                            *)

LEMMA ShownParts ==
    ASSUME NEW d, Shape(d), NEW p, NEW e, e = [d EXCEPT !.shown = p]
    PROVE  /\ Shape(e) /\ e.alive = d.alive /\ e.lists = d.lists /\ e.back = d.back
           /\ e.event = d.event /\ e.text = d.text /\ e.theater = d.theater
           /\ e.ticket = d.ticket /\ e.price = d.price /\ e.discount = d.discount
           /\ e.shown = p /\ e.old = d.old /\ e.sold = d.sold /\ e.carried = d.carried
<1>1. e = [alive |-> d.alive, lists |-> d.lists, back |-> d.back,
           event |-> d.event, text |-> d.text, theater |-> d.theater,
           ticket |-> d.ticket, price |-> d.price,
           discount |-> d.discount, carried |-> d.carried,
           shown |-> p, old |-> d.old,
           prompt |-> d.prompt, sold |-> d.sold]
  BY DEF Shape
<1> QED BY <1>1 DEF Shape

\* Each button of the summary is answered.
LEMMA SummaryFits ==
    ASSUME NEW c, NEW b,
           b \subseteq {Btn("PAY"), Btn("PROMO_OPTION"), Btn("PROMO"),
                        Btn("RESET_PROMO"), Btn("CONFIRM_WITHOUT_PAY"),
                        Back("CHILDREN"), Cancel}
    PROVE  /\ \A i \in b : Plain(i)
           /\ "CONFIRM_RESERVATION" \in StatesOf[c] =>
                 \A i \in b : Fits(c, "CONFIRM_RESERVATION", i)
<1>1. PICK s : s = "CONFIRM_RESERVATION"
  OBVIOUS
<1>2. {"PAY", "CONFIRM_WITHOUT_PAY", "RESET_PROMO", "PROMO", "PROMO_OPTION"}
        \subseteq Kinds(c, s) /\ "CHILDREN" \in BackTargets(c, s) /\ s \notin Early
  BY <1>1 DEF Kinds, BackTargets, Early
<1>3. ASSUME s \in StatesOf[c] PROVE \A i \in b : Fits(c, s, i)
  <2>1. /\ Fits(c, s, Btn("PAY")) /\ Fits(c, s, Btn("CONFIRM_WITHOUT_PAY"))
        /\ Fits(c, s, Btn("RESET_PROMO")) /\ Fits(c, s, Btn("PROMO"))
        /\ Fits(c, s, Btn("PROMO_OPTION"))
    BY <1>2, <1>3, KeyFits
  <2>2. Fits(c, s, Back("CHILDREN")) /\ Fits(c, s, Cancel)
    BY <1>2, <1>3, BackFits, CancelFits
  <2> QED BY <2>1, <2>2
<1>4. /\ Plain(Btn("PAY")) /\ Plain(Btn("CONFIRM_WITHOUT_PAY")) /\ Plain(Btn("RESET_PROMO"))
      /\ Plain(Btn("PROMO")) /\ Plain(Btn("PROMO_OPTION")) /\ Plain(Cancel)
      /\ Plain(Back("CHILDREN"))
  BY PlainButtons DEF Anywhere
<1> QED BY <1>1, <1>3, <1>4

LEMMA SummaryKeeps ==
    ASSUME DialogInv, NEW c \in Convs, NEW d, SideTyped,
           conv[c] \in StatesOf[c], DataTyped(d), d.alive = data.alive,
           owner = c => /\ "CONFIRM_RESERVATION" \in StatesOf[c]
                        /\ Ways(c, d) /\ c # "migration_admin"
                        /\ d.event # "none" /\ d.ticket # "none" /\ d.price[2] # "none"
                        /\ d.price = <<d.event, d.ticket>>
                        /\ d.discount \in {NoPrice, d.price} \/ d.carried,
           show_reservation_summary(c, d)
    PROVE  DialogInv'
<1>1. conv[c] # "none"
  BY StatesOpen
<1>2. CASE ~ d.alive \/ "none" \in {d.event, d.text, d.ticket, d.price[2]}
  <2>1. Fault(c, "show_reservation_summary")
    BY <1>2 DEF show_reservation_summary
  <2> QED BY <1>1, <2>1, Failed DEF KnownFaults
<1>3. CASE ~ (~ d.alive \/ "none" \in {d.event, d.text, d.ticket, d.price[2]})
  <2>1. PICK s, b, p, e :
          /\ s = "CONFIRM_RESERVATION" /\ p = ToPay(d) /\ e = [d EXCEPT !.shown = p]
          /\ b = {Btn("PAY"), Back("CHILDREN"), Cancel} \cup
                 {x \in {Btn("PROMO_OPTION")} : d.ticket \in Dear} \cup
                 {IF d.discount = NoPrice THEN Btn("PROMO") ELSE Btn("RESET_PROMO")}
                 \cup {x \in {Btn("CONFIRM_WITHOUT_PAY")} :
                          command \in {"reserve_admin", "migration_admin"}}
    OBVIOUS
  <2>2. Show(c, s, e, b)
    BY <1>3, <2>1 DEF show_reservation_summary
  <2>3. Shape(d)
    BY DEF DataTyped
  <2>4. /\ Shape(e) /\ e.alive = d.alive /\ e.lists = d.lists /\ e.back = d.back
        /\ e.event = d.event /\ e.text = d.text /\ e.theater = d.theater
        /\ e.ticket = d.ticket /\ e.price = d.price /\ e.discount = d.discount
        /\ e.shown = p /\ e.old = d.old /\ e.sold = d.sold /\ e.carried = d.carried
    BY <2>1, <2>3, ShownParts
  <2>5. DataTyped(e)
    BY <2>4, TypedLike
  <2>6. s \in States /\ s \in Late /\ (owner = c => s \in StatesOf[c])
    BY <2>1, EarlyIsState DEF Late
  <2>7. b \subseteq {Btn("PAY"), Btn("PROMO_OPTION"), Btn("PROMO"),
                     Btn("RESET_PROMO"), Btn("CONFIRM_WITHOUT_PAY"),
                     Back("CHILDREN"), Cancel}
    BY <2>1
  <2>8. /\ \A i \in b : Plain(i)
        /\ owner = c => \A i \in b : Fits(c, s, i)
    BY <2>1, <2>7, SummaryFits
  <2>9. ScreenFits(s, b)
    BY <2>8, PlainScreen
  <2>10. ASSUME owner = c PROVE Ways(c, e) /\ Reached(c, e, s) /\ Paid(e, s)
    <3>1. Grows(d, e)
      BY <2>4 DEF Grows
    <3>2. c = "reserve" => e.text = e.event
      BY <2>4, <2>10 DEF Ways
    <3>3. Ways(c, e)
      BY <2>4, <2>10, <3>1, <3>2, WaysGrow
    <3>4. Reached(c, e, s)
      BY <2>1, <2>4, <2>6, <2>10 DEF Reached
    <3>5. e.shown = ToPay(e)
      BY <2>1, <2>4 DEF ToPay
    <3>6. Paid(e, s)
      BY <2>1, <2>4, <2>10, <3>5 DEF Paid
    <3> QED BY <3>3, <3>4, <3>6
  <2>11. data.alive /\ e.alive
    BY <1>3, <2>4
  <2>12. owner = c => /\ e.alive /\ Ways(c, e) /\ Reached(c, e, s) /\ Paid(e, s)
                      /\ \A i \in b : Fits(c, s, i)
    BY <2>8, <2>10, <2>11
  <2> QED BY <1>1, <2>2, <2>5, <2>6, <2>9, <2>11, <2>12, Shown
<1> QED BY <1>2, <1>3

\* A dialog with its own data after the choice of a ticket.
LEMMA LateNow ==
    ASSUME DialogInv, NEW c \in Convs, owner = c, conv[c] \in Late
    PROVE  /\ data.alive /\ Ways(c, data) /\ Paid(data, conv[c])
           /\ command \in CommandsOf(c) /\ Reached(c, data, conv[c])
           /\ data.event # "none" /\ data.ticket # "none" /\ data.price[2] # "none"
           /\ data.price = <<data.event, data.ticket>> /\ c # "migration_admin"
           /\ data.discount \in {NoPrice, data.price} \/ data.carried
<1>1. conv[c] # "none"
  BY DEF Late
<1>2. /\ data.alive /\ Ways(c, data) /\ Reached(c, data, conv[c]) /\ Paid(data, conv[c])
      /\ command \in CommandsOf(c)
  BY <1>1, OwnAt
<1> QED BY <1>2 DEF Reached, Paid

\* Where the summary belongs.
LEMMA SummaryIsState ==
    ASSUME NEW c \in Convs, NEW s \in StatesOf[c],
           s \in {"CHILDREN", "CONFIRM_RESERVATION", "PROMOCODE_INPUT"},
           c # "migration_admin"
    PROVE  {"CONFIRM_RESERVATION", "PROMOCODE_INPUT"} \subseteq StatesOf[c]
BY StatesAre DEF Convs

\* The reduction is taken away, kept, or made from the price.
LEMMA SummaryAgain ==
    ASSUME DialogInv, NEW c \in Convs, SideTyped, conv[c] \in StatesOf[c],
           conv[c] \in {"CHILDREN", "CONFIRM_RESERVATION", "PROMOCODE_INPUT"},
           NEW p \in {data.price, NoPrice},
           show_reservation_summary(c, Discounted(p))
    PROVE  DialogInv'
<1>1. PICK d, k : d = [data EXCEPT !.discount = p, !.carried = k] /\ k = FALSE
  OBVIOUS
<1>2. show_reservation_summary(c, d)
  BY <1>1 DEF Discounted
<1>3. d = [alive |-> data.alive, lists |-> data.lists, back |-> data.back,
           event |-> data.event, text |-> data.text, theater |-> data.theater,
           ticket |-> data.ticket, price |-> data.price,
           discount |-> p, carried |-> k, shown |-> data.shown, old |-> data.old,
           prompt |-> data.prompt, sold |-> data.sold]
  BY <1>1, DataNow DEF Shape
<1>4. /\ Shape(d) /\ d.alive = data.alive /\ d.lists = data.lists /\ d.back = data.back
      /\ d.event = data.event /\ d.text = data.text /\ d.theater = data.theater
      /\ d.ticket = data.ticket /\ d.price = data.price /\ d.discount = p
      /\ d.shown = data.shown /\ d.old = data.old /\ d.sold = data.sold
      /\ d.carried = k
  BY <1>3 DEF Shape
<1>5. DataTyped(data) /\ Grows(data, d)
  BY <1>4, DataNow DEF Grows
<1>6. DataTyped(d)
  <2>1. k \in BOOLEAN
    BY <1>1
  <2>2. d.carried \in {data.carried} \cup BOOLEAN /\ d.discount \in {data.discount, data.price, NoPrice}
    BY <1>4, <2>1
  <2> QED BY <1>4, <1>5, <2>2, TypedLike
<1>7. ASSUME owner = c
      PROVE  /\ "CONFIRM_RESERVATION" \in StatesOf[c]
             /\ Ways(c, d) /\ c # "migration_admin"
             /\ d.event # "none" /\ d.ticket # "none" /\ d.price[2] # "none"
             /\ d.price = <<d.event, d.ticket>>
             /\ d.discount \in {NoPrice, d.price} \/ d.carried
  <2>1. conv[c] \in Late
    BY DEF Late
  <2>2. /\ Ways(c, data) /\ c # "migration_admin"
        /\ data.event # "none" /\ data.ticket # "none" /\ data.price[2] # "none"
        /\ data.price = <<data.event, data.ticket>>
    BY <1>7, <2>1, LateNow
  <2>3. c = "reserve" => d.text = d.event
    BY <1>4, <2>2 DEF Ways
  <2>4. Ways(c, d)
    BY <1>4, <1>5, <2>2, <2>3, WaysGrow
  <2>5. "CONFIRM_RESERVATION" \in StatesOf[c]
    BY <2>2, SummaryIsState
  <2> QED BY <1>4, <2>2, <2>4, <2>5
<1> QED BY <1>2, <1>4, <1>6, <1>7, SummaryKeeps

LEMMA SummarySame ==
    ASSUME DialogInv, NEW c \in Convs, SideTyped, conv[c] \in StatesOf[c],
           conv[c] \in {"CHILDREN", "CONFIRM_RESERVATION", "PROMOCODE_INPUT"},
           show_reservation_summary(c, data)
    PROVE  DialogInv'
<1>1. DataTyped(data)
  BY DataNow
<1>2. owner = c => /\ "CONFIRM_RESERVATION" \in StatesOf[c]
                   /\ Ways(c, data) /\ c # "migration_admin"
                   /\ data.event # "none" /\ data.ticket # "none" /\ data.price[2] # "none"
                   /\ data.price = <<data.event, data.ticket>>
                   /\ data.discount \in {NoPrice, data.price} \/ data.carried
  <2>1. conv[c] \in Late
    BY DEF Late
  <2> QED BY <2>1, LateNow, SummaryIsState
<1> QED BY <1>1, <1>2, SummaryKeeps

LEMMA get_childrenKeeps ==
    ASSUME DialogInv, NEW c \in Convs, get_children(c) PROVE DialogInv'
<1>1. SideTyped /\ conv[c] = "CHILDREN"
  BY SideSame DEF get_children, dbVars
<1>2. conv[c] \in StatesOf[c]
  <2>1. CASE Takes(c, Btn("children chosen"))
    BY <2>1, PressedBtn
  <2>2. CASE Takes(c, Btn("text"))
    BY <2>2, PressedBtn
  <2> QED BY <2>1, <2>2 DEF get_children
<1>3. CASE show_reservation_summary(c, data)
  BY <1>1, <1>2, <1>3, SummarySame
<1>4. CASE Needs(c, "get_children", data.ticket # "none", ChildrenForm(c))
  BY <1>1, <1>2, <1>4, ChildrenFormKeeps
<1> QED BY <1>3, <1>4 DEF get_children

LEMMA reset_promoKeeps ==
    ASSUME DialogInv, NEW c \in Convs, reset_promo(c) PROVE DialogInv'
<1>1. Takes(c, Btn("RESET_PROMO")) /\ SideTyped
  BY SideSame DEF reset_promo, dbVars
<1>2. conv[c] \in StatesOf[c] /\ conv[c] = "CONFIRM_RESERVATION"
  BY <1>1, PressedBtn DEF Where
<1>3. show_reservation_summary(c, Discounted(NoPrice))
  BY DEF reset_promo
<1> QED BY <1>1, <1>2, <1>3, SummaryAgain

LEMMA ask_promo_codeKeeps ==
    ASSUME DialogInv, NEW c \in Convs, ask_promo_code(c) PROVE DialogInv'
<1>1. Takes(c, Btn("PROMO")) /\ SideTyped
  BY SideSame DEF ask_promo_code, dbVars
<1>2. /\ conv[c] \in StatesOf[c] /\ conv[c] = "CONFIRM_RESERVATION" /\ conv[c] # "none"
  BY <1>1, PressedBtn DEF Where
<1>3. PICK s, b : s = "PROMOCODE_INPUT" /\ b = {Back("CONFIRM_RESERVATION")}
  OBVIOUS
<1>4. \/ Fault(c, "ask_promo_code") /\ ~data.alive
      \/ data.alive /\ Show(c, s, data, b)
  BY <1>3 DEF ask_promo_code, Needs
<1>5. s \in States /\ s \in Late /\ DataTyped(data)
  BY <1>3, EarlyIsState, DataNow DEF Late
<1>6. ScreenFits(s, b)
  BY <1>3, PlainButtons, PlainScreen DEF Anywhere
<1>7. ASSUME owner = c
      PROVE  /\ data.alive /\ Ways(c, data) /\ Reached(c, data, s) /\ Paid(data, s)
             /\ \A i \in b : Fits(c, s, i)
  <2>1. conv[c] \in Late
    BY <1>2 DEF Late
  <2>2. /\ data.alive /\ Ways(c, data) /\ Paid(data, conv[c])
        /\ data.event # "none" /\ data.ticket # "none" /\ data.price[2] # "none"
        /\ data.price = <<data.event, data.ticket>> /\ c # "migration_admin"
        /\ data.discount \in {NoPrice, data.price} \/ data.carried
    BY <1>7, <2>1, LateNow
  <2>3. s \in StatesOf[c]
    BY <1>2, <1>3, <2>2, SummaryIsState
  <2>4. Reached(c, data, s)
    BY <1>3, <1>5, <2>2, <2>3 DEF Reached
  <2>5. Paid(data, s)
    BY <1>2, <1>3, <2>2 DEF Paid
  <2>6. "CONFIRM_RESERVATION" \in BackTargets(c, s) /\ s \notin Early
    BY <1>3 DEF BackTargets, Early
  <2>7. Fits(c, s, Back("CONFIRM_RESERVATION"))
    BY <1>3, <2>3, <2>6, BackFits
  <2> QED BY <1>3, <2>2, <2>4, <2>5, <2>7
<1>8. CASE data.alive /\ Show(c, s, data, b)
  BY <1>1, <1>2, <1>5, <1>6, <1>7, <1>8, Shown
<1>9. CASE Fault(c, "ask_promo_code") /\ ~data.alive
  BY <1>1, <1>2, <1>9, Failed
<1> QED BY <1>4, <1>8, <1>9

LEMMA handle_promo_code_inputKeeps ==
    ASSUME DialogInv, NEW c \in Convs, handle_promo_code_input(c) PROVE DialogInv'
<1>1. Takes(c, Btn("text")) /\ SideTyped /\ conv[c] = "PROMOCODE_INPUT"
  BY SideSame DEF handle_promo_code_input, dbVars
<1>2. conv[c] \in StatesOf[c]
  BY <1>1, PressedBtn
<1>3. CASE show_reservation_summary(c, data)
  BY <1>1, <1>2, <1>3, SummarySame
<1>4. CASE show_reservation_summary(c, Discounted(data.price))
  BY <1>1, <1>2, <1>4, SummaryAgain
<1> QED BY <1>3, <1>4 DEF handle_promo_code_input

LEMMA apply_option_promoKeeps ==
    ASSUME DialogInv, NEW c \in Convs, apply_option_promo(c) PROVE DialogInv'
<1>1. Takes(c, Btn("PROMO_OPTION")) /\ SideTyped
  BY SideSame DEF apply_option_promo, dbVars
<1>2. conv[c] \in StatesOf[c] /\ conv[c] = "CONFIRM_RESERVATION"
  BY <1>1, PressedBtn DEF Where
<1>3. CASE show_reservation_summary(c, data)
  BY <1>1, <1>2, <1>3, SummarySame
<1>4. CASE show_reservation_summary(c, Discounted(data.price))
  BY <1>1, <1>2, <1>4, SummaryAgain
<1> QED BY <1>3, <1>4 DEF apply_option_promo

-----------------------------------------------------------------------------
(* The payment.                                                            *)

\* The payment asks for the price of the summary.
LEMMA PaymentShown ==
    ASSUME DialogInv, NEW c \in Convs, SideTyped, conv[c] \in StatesOf[c],
           conv[c] = "CONFIRM_RESERVATION", data.alive,
           Move(c, "PAID", [data EXCEPT !.sold = ToPay(data)],
                {Btn("confirm_payment"), Cancel})
    PROVE  DialogInv'
<1>1. PICK s, b, p, d : /\ s = "PAID" /\ b = {Btn("confirm_payment"), Cancel}
                        /\ p = ToPay(data) /\ d = [data EXCEPT !.sold = p]
  OBVIOUS
<1>2. Move(c, s, d, b)
  BY <1>1
<1>3. d = [alive |-> data.alive, lists |-> data.lists, back |-> data.back,
           event |-> data.event, text |-> data.text, theater |-> data.theater,
           ticket |-> data.ticket, price |-> data.price,
           discount |-> data.discount, carried |-> data.carried,
           shown |-> data.shown, old |-> data.old,
           prompt |-> data.prompt, sold |-> p]
  BY <1>1, DataNow DEF Shape
<1>4. /\ Shape(d) /\ d.alive = data.alive /\ d.lists = data.lists /\ d.back = data.back
      /\ d.event = data.event /\ d.text = data.text /\ d.theater = data.theater
      /\ d.ticket = data.ticket /\ d.price = data.price /\ d.discount = data.discount
      /\ d.shown = data.shown /\ d.old = data.old /\ d.sold = p
      /\ d.carried = data.carried
  BY <1>3 DEF Shape
<1>5. DataTyped(data) /\ owner # "none" /\ (owner = c \/ owner \notin Convs)
      /\ conv[c] # "none"
  BY DataNow, WhoseTurn
<1>6. DataTyped(d)
  BY <1>4, <1>5, TypedLike
<1>7. s \in States /\ s \in Late /\ ScreenFits(s, b)
  <2>1. \A i \in b : Plain(i)
    BY <1>1, PlainButtons
  <2> QED BY <1>1, <2>1, EarlyIsState, PlainScreen DEF Late
<1>8. ASSUME owner = c PROVE d.alive /\ Ways(c, d) /\ Comes(c, s, d, b)
  <2>1. conv[c] \in Late
    BY DEF Late
  <2>2. /\ Ways(c, data) /\ Paid(data, conv[c])
        /\ data.event # "none" /\ data.ticket # "none" /\ data.price[2] # "none"
        /\ data.price = <<data.event, data.ticket>> /\ c # "migration_admin"
        /\ data.discount \in {NoPrice, data.price} \/ data.carried
    BY <1>8, <2>1, LateNow
  <2>3. data.price # NoPrice
    BY <2>2 DEF NoPrice
  <2>4. p[2] # NoPrice
    BY <1>1, <2>3 DEF ToPay
  <2>5. Grows(data, d)
    BY <1>4, <2>4 DEF Grows
  <2>6. c = "reserve" => d.text = d.event
    BY <1>4, <2>2 DEF Ways
  <2>7. Ways(c, d)
    BY <1>4, <2>2, <2>5, <2>6, WaysGrow
  <2>8. /\ s \in StatesOf[c] \cup Deaf[c]
        /\ s \in StatesOf[c] \/ s \in Deaf[c]
    BY <1>1, <2>2, StatesAre, DeafAre DEF Convs
  <2>9. Reached(c, d, s)
    BY <1>1, <1>4, <1>7, <2>2, <2>4, <2>8 DEF Reached
  <2>10. data.shown = p
    BY <1>1, <2>2 DEF Paid
  <2>11. Paid(d, s)
    BY <1>1, <1>4, <2>2, <2>10 DEF Paid
  <2>12. \A i \in b : Fits(c, s, i)
    <3>1. CASE s \in StatesOf[c]
      <4>1. "confirm_payment" \in Kinds(c, s)
        BY <1>1 DEF Kinds
      <4> QED BY <1>1, <3>1, <4>1, KeyFits, CancelFits
    <3>2. CASE s \in Deaf[c]
      <4>1. Btn("confirm_payment")[1] # "back" /\ Cancel[1] # "back"
        BY ButtonParts
      <4> QED BY <1>1, <3>2, <4>1, DeafFits
    <3> QED BY <2>8, <3>1, <3>2
  <2> QED BY <1>1, <1>4, <2>7, <2>9, <2>11, <2>12 DEF Comes
<1> QED BY <1>2, <1>5, <1>6, <1>7, <1>8, StepMove

LEMMA confirm_go_payKeeps ==
    ASSUME DialogInv, NEW c \in Convs, confirm_go_pay(c) PROVE DialogInv'
<1>1. Takes(c, Btn("PAY")) /\ SideTyped
  BY SideSame DEF confirm_go_pay, dbVars
<1>2. /\ conv[c] \in StatesOf[c] /\ conv[c] = "CONFIRM_RESERVATION" /\ conv[c] # "none"
      /\ (owner = c \/ owner \notin Convs)
  BY <1>1, PressedBtn DEF Where
<1>3. CASE create_and_send_payment(c)
  <2>1. CASE Fault(c, "create_and_send_payment")
    BY <1>1, <2>1, StepFault DEF KnownFaults
  <2>2. CASE NoPayment(c)
    BY <1>1, <2>2, StepNoPayment
  <2>3. CASE /\ data.alive
             /\ Move(c, "PAID", [data EXCEPT !.sold = ToPay(data)],
                     {Btn("confirm_payment"), Cancel})
    BY <1>1, <1>2, <2>3, PaymentShown
  <2> QED BY <1>3, <2>1, <2>2, <2>3 DEF create_and_send_payment
<1>4. CASE Fault(c, "confirm_go_pay")
  BY <1>1, <1>4, StepFault DEF KnownFaults
<1>5. CASE Has("TIME") /\ Move(c, "TIME", data, data.back["TIME"])
  <2>1. PICK s, b : s = "TIME" /\ b = data.back["TIME"]
    OBVIOUS
  <2>2. /\ data.alive /\ s \in DOMAIN data.back /\ b = data.back[s] /\ Move(c, s, data, b)
    BY <1>5, <2>1 DEF Has
  <2>3. DataTyped(data) /\ owner # "none" /\ s \in States
    BY <2>1, <2>2, DataNow, EarlyIsState DEF Early
  <2>4. ScreenFits(s, b)
    BY <2>2, <2>3 DEF DataTyped
  <2>5. ASSUME owner = c PROVE Ways(c, data) /\ Comes(c, s, data, b)
    <3>1. Ways(c, data) /\ Reached(c, data, s) /\ \A i \in b : Fits(c, s, i)
      BY <1>2, <2>2, <2>5, OwnAt DEF Ways
    <3>2. Paid(data, s)
      BY <2>1 DEF Paid, Late
    <3> QED BY <2>2, <3>1, <3>2 DEF Comes
  <2> QED BY <1>1, <1>2, <2>2, <2>3, <2>4, <2>5, StepMove
<1> QED BY <1>3, <1>4, <1>5 DEF confirm_go_pay

LEMMA confirm_admin_without_paymentKeeps ==
    ASSUME DialogInv, NEW c \in Convs, confirm_admin_without_payment(c)
    PROVE  DialogInv'
<1>1. Takes(c, Btn("CONFIRM_WITHOUT_PAY")) /\ SideTyped
  BY SideSame DEF confirm_admin_without_payment, dbVars
<1>2. /\ conv[c] \in StatesOf[c] /\ conv[c] = "CONFIRM_RESERVATION" /\ conv[c] # "none"
      /\ (owner = c \/ owner \notin Convs)
  BY <1>1, PressedBtn DEF Where
<1>3. CASE /\ Fault(c, "confirm_admin_without_payment")
           /\ ~ data.alive \/ "none" \in {data.event, data.ticket, data.price[2]}
  <2>1. owner # c
    <3>1. conv[c] \in Late
      BY <1>2 DEF Late
    <3> QED BY <1>3, <3>1, LateNow
  <2> QED BY <1>1, <1>3, <2>1, StepFault
<1>4. CASE End(c)
  BY <1>1, <1>2, <1>4, StepEnd
<1>5. CASE EndClean(c)
  BY <1>1, <1>5, StepEndClean
<1> QED BY <1>3, <1>4, <1>5 DEF confirm_admin_without_payment

LEMMA confirm_paymentKeeps ==
    ASSUME DialogInv, NEW c \in Convs, confirm_payment(c) PROVE DialogInv'
<1>1. Takes(c, Btn("confirm_payment")) /\ SideTyped
  BY SideSame DEF confirm_payment, dbVars
<1>2. /\ conv[c] \in StatesOf[c] /\ conv[c] = "PAID" /\ conv[c] # "none"
      /\ (owner = c \/ owner \notin Convs)
  BY <1>1, PressedBtn DEF Where
<1>3. PICK s, b : s = "WAIT_RECEIPT" /\ b = {}
  OBVIOUS
<1>4. Move(c, s, data, b)
  BY <1>3 DEF confirm_payment
<1>5. /\ s \in States /\ s \in Late /\ DataTyped(data) /\ ScreenFits(s, b)
      /\ owner = "none" => ~data.alive
  BY <1>3, EarlyIsState, DataNow DEF Late, ScreenFits
<1>6. ASSUME owner = c PROVE data.alive /\ Ways(c, data) /\ Comes(c, s, data, b)
  <2>1. conv[c] \in Late /\ s \in StatesOf[c]
    BY <1>2, <1>3, StatesAre DEF Late, Convs
  <2>2. /\ data.alive /\ Ways(c, data) /\ Reached(c, data, conv[c])
        /\ data.event # "none" /\ data.ticket # "none" /\ data.price[2] # "none"
        /\ data.price = <<data.event, data.ticket>> /\ c # "migration_admin"
        /\ data.discount \in {NoPrice, data.price} \/ data.carried
    BY <1>6, <2>1, LateNow
  <2>3. data.sold[2] # NoPrice
    BY <1>2, <2>2 DEF Reached
  <2>4. Reached(c, data, s)
    BY <1>3, <1>5, <2>1, <2>2, <2>3 DEF Reached
  <2>5. Paid(data, s)
    BY <1>3, <2>2 DEF Paid
  <2> QED BY <1>3, <2>2, <2>4, <2>5 DEF Comes
<1>7. owner = "none" => ~data.alive /\ (command = "none" \/ b = {})
  BY <1>3, <1>5
<1> QED BY <1>1, <1>2, <1>4, <1>5, <1>6, <1>7, StepMove

LEMMA process_successful_payment_with_verificationKeeps ==
    ASSUME DialogInv, NEW c \in Convs,
           process_successful_payment_with_verification(c)
    PROVE  DialogInv'
<1>1. Takes(c, Btn("photo")) /\ SideTyped /\ conv[c] \in {"PAID", "WAIT_RECEIPT"}
  BY SideSame DEF process_successful_payment_with_verification, dbVars
<1>2. /\ conv[c] \in StatesOf[c] /\ conv[c] # "none"
      /\ (owner = c \/ owner \notin Convs)
  BY <1>1, PressedBtn
<1>3. "WAIT_DOCUMENT" \in StatesOf[c] /\ conv[c] \in Late
  BY <1>1, <1>2, StatesAre DEF Convs, Late
<1>4. CASE /\ Fault(c, "processing_successful_payment")
           /\ data.alive => data.sold[2] = NoPrice \/ command = "none"
  <2>1. owner # c
    <3>1. owner = c => data.alive /\ command # "none" /\ data.sold[2] # NoPrice
      BY <1>1, <1>3, LateNow DEF Reached, CommandsOf, Convs
    <3> QED BY <1>4, <3>1
  <2> QED BY <1>1, <1>4, <2>1, StepFault
<1>5. CASE data.alive /\ Move(c, "WAIT_DOCUMENT", data, {})
  <2>1. PICK s, b : s = "WAIT_DOCUMENT" /\ b = {}
    OBVIOUS
  <2>2. /\ s \in States /\ DataTyped(data) /\ ScreenFits(s, b) /\ owner # "none"
        /\ Move(c, s, data, b)
    BY <1>5, <2>1, EarlyIsState, DataNow DEF Late, ScreenFits
  <2>3. s \in {"OFFER", "EMAIL", "FORMA", "PHONE", "CHILDREN", "WAIT_DOCUMENT"}
        /\ s \in StatesOf[c] /\ s # "TIME"
    BY <1>3, <2>1
  <2>4. owner = c => data.alive /\ Ways(c, data) /\ Comes(c, s, data, b)
    BY <1>3, <2>1, <2>3, LateOn DEF Comes
  <2> QED BY <1>1, <1>2, <2>2, <2>4, StepMove
<1>6. CASE End(c)
  BY <1>1, <1>2, <1>6, StepEnd
<1>7. CASE /\ data.alive /\ conv[c] = "PAID" /\ state \notin {"PAID", "END"}
           /\ Move(c, state, data, screen)
  <2>1. owner # c
    BY <1>7, StateIs
  <2>2. /\ DataTyped(data) /\ screen \subseteq Buttons /\ ScreenFits(state, screen)
        /\ owner # "none" /\ state \in {"none", "END"} \cup States
    BY <1>7, DataNow
  <2>3. PICK s : s = state
    OBVIOUS
  <2>4. /\ s \in {"none"} \cup States /\ s \in {"none", "END"} \cup States
        /\ ScreenFits(s, screen)
    BY <1>7, <2>2, <2>3
  <2>5. /\ conv' = [conv EXCEPT ![c] = s] /\ state' = s /\ screen' = screen /\ data' = data
        /\ UNCHANGED <<command, owner, faults>>
    BY <1>7, <2>3 DEF Move
  <2> QED BY <1>1, <1>2, <2>1, <2>2, <2>4, <2>5, StepAt
<1>8. \/ /\ Fault(c, "processing_successful_payment")
         /\ data.alive => data.sold[2] = NoPrice \/ command = "none"
      \/ /\ data.alive
         /\ \/ Move(c, "WAIT_DOCUMENT", data, {})
            \/ End(c)
            \/ /\ conv[c] = "PAID" /\ state \notin {"PAID", "END"}
               /\ Move(c, state, data, screen)
  BY DEF process_successful_payment_with_verification, Needs
<1> QED BY <1>4, <1>5, <1>6, <1>7, <1>8

LEMMA handle_certificate_fileKeeps ==
    ASSUME DialogInv, NEW c \in Convs, handle_certificate_file(c) PROVE DialogInv'
<1>1. Takes(c, Btn("photo")) /\ SideTyped /\ conv[c] = "WAIT_DOCUMENT"
  BY SideSame DEF handle_certificate_file, dbVars
<1>2. conv[c] # "none" /\ (owner = c \/ owner \notin Convs)
  BY <1>1, PressedBtn
<1>3. CASE Fault(c, "handle_certificate_file") /\ ~data.alive
  BY <1>1, <1>2, <1>3, Failed
<1>4. CASE End(c)
  BY <1>1, <1>2, <1>4, StepEnd
<1> QED BY <1>3, <1>4 DEF handle_certificate_file, Needs

-----------------------------------------------------------------------------
(* Commands, and the check before a press.                                 *)

LEMMA BeginKeeps ==
    ASSUME DialogInv, NEW c \in Convs, NEW cmd \in CommandsOf(c), NEW s \in States,
           NEW d, NEW b, Begin(c, cmd, s, d, b), s # "TIME",
           DataTyped(d), ScreenFits(s, b), d.alive, Ways(c, d),
           Reached(c, d, s), Paid(d, s), \A i \in b : Fits(c, s, i)
    PROVE  DialogInv'
<1>1. PICK e : e = Saved(d, s, b)
  OBVIOUS
<1>2. /\ conv' = [conv EXCEPT ![c] = s] /\ state' = s /\ command' = cmd
      /\ data' = e /\ screen' = b /\ faults' = faults
      /\ mode' = mode /\ email' = email
      /\ owner' = IF \A k \in Convs : conv[k] = "none" THEN c ELSE "several"
  BY <1>1 DEF Begin, dbVars
<1>3. conv \in [Convs -> {"none"} \cup States]
  BY DEF DialogInv, TypeInv, TypeOK
<1>4. SideTyped
  BY <1>2, SideSame
<1>5. Shape(d)
  BY DEF DataTyped
<1>6. /\ DataTyped(e) /\ e.alive
      /\ Ways(c, e) /\ Reached(c, e, s) /\ Paid(e, s)
  BY <1>1, <1>5, SavedTyped, SavedParts, SavedWays, SavedPaid
<1>7. s # "none" /\ cmd \in {"none", "list"} \cup Convs
  BY AllStates DEF Early, Late, CommandsOf, Convs
<1>8. owner' # "none" /\ owner' \in {"none", "several"} \cup Convs
  BY <1>2 DEF Convs
<1>9. TypeInv'
  BY <1>2, <1>3, <1>4, <1>6, <1>7, <1>8
  DEF TypeInv, TypeOK, DataTyped, ScreenFits, SideTyped
<1>10. Nobodys'
  BY <1>8 DEF Nobodys
<1>11. ASSUME NEW k \in Convs, owner' = k PROVE Own(k)'
  <2>1. k = c /\ \A j \in Convs : conv[j] = "none"
    BY <1>2, <1>11 DEF Convs
  <2>2. /\ conv'[c] = s /\ \A j \in Convs : j # c => conv'[j] = "none"
    BY <1>2, <1>3, <2>1
  <2>3. InStep(c)'
    BY <1>2, <2>2 DEF InStep
  <2> QED BY <1>2, <1>6, <1>7, <2>1, <2>2, <2>3 DEF Own
<1>12. OwnInv'
  <2>1. OwnDialogNeverFails'
    BY <1>2, DataNow DEF OwnDialogNeverFails
  <2> QED BY <1>11, <2>1 DEF OwnInv
<1> QED BY <1>9, <1>10, <1>12 DEF DialogInv

\* Data that are new belong to nobody's way yet.
LEMMA FreshLike ==
    ASSUME NEW d, NEW c \in Convs, Shape(d), d.alive, d.lists \subseteq States,
           d.back = Fresh.back, d.event = "none", d.text = "none",
           d.ticket = "none", d.price = NoPrice, d.discount = NoPrice,
           d.carried \in BOOLEAN
    PROVE  DataTyped(d) /\ Ways(c, d)
<1>1. DOMAIN d.back = {}
  BY FreshParts
<1> QED BY <1>1 DEF DataTyped, Ways, Price

LEMMA reserveKeeps ==
    ASSUME DialogInv, reserve PROVE DialogInv'
<1>1. PICK c, s, f : c = "reserve" /\ s = "MODE" /\ f = Fresh
  OBVIOUS
<1>2. PICK cmd \in {"reserve", "list"} : Begin(c, cmd, s, f, ModeButtons)
  BY <1>1 DEF reserve
<1>3. c \in Convs /\ cmd \in CommandsOf(c) /\ s \in States /\ s # "TIME"
  BY <1>1, ModeScreen DEF Convs, CommandsOf
<1>4. /\ DataTyped(f) /\ f.alive /\ Ways(c, f) /\ ScreenFits(s, ModeButtons)
      /\ \A i \in ModeButtons : Fits(c, s, i)
  BY <1>1, <1>3, FreshParts, FreshLike, ModeScreen
<1>5. Reached(c, f, s) /\ Paid(f, s)
  <2>1. s \in Early \ {"TICKET", "CHOOSING", "PHONE_FOR_WAITING"} /\ s \in StatesOf[c]
        /\ s \notin {"MONTH", "SHOW", "DATE", "LIST_WAIT"} /\ c # "migration_admin"
    BY <1>1, ModeScreen DEF Early
  <2> QED BY <1>3, <2>1, ReachedEarly
<1> QED BY <1>2, <1>3, <1>4, <1>5, BeginKeeps

LEMMA reserve_adminKeeps ==
    ASSUME DialogInv, reserve_admin PROVE DialogInv'
<1>1. PICK c, s, f, b : /\ c = "reserve_admin" /\ s = "1" /\ f = Fresh
                        /\ b = {Btn("id"), Btn("params"), Cancel}
  OBVIOUS
<1>2. Begin(c, c, s, f, b)
  BY <1>1 DEF reserve_admin
<1>3. c \in Convs /\ c \in CommandsOf(c) /\ s \in States /\ s # "TIME" /\ s \in StatesOf[c]
  BY <1>1, StatesAre, EarlyIsState DEF Convs, CommandsOf, Early
<1>4. DataTyped(f) /\ f.alive /\ Ways(c, f)
  BY <1>1, <1>3, FreshParts, FreshLike
<1>5. ScreenFits(s, b)
  <2>1. Btn("id") \in Buttons /\ Btn("id")[1] = "id"
    BY ButtonsAre, ButtonParts
  <2>2. Plain(Btn("params")) /\ Plain(Cancel)
    BY PlainButtons
  <2> QED BY <1>1, <2>1, <2>2 DEF ScreenFits, Plain
<1>6. \A i \in b : Fits(c, s, i)
  <2>1. "id" \in Kinds(c, s) /\ "params" \in Kinds(c, s)
    BY <1>1 DEF Kinds
  <2> QED BY <1>1, <1>3, <2>1, KeyFits, CancelFits
<1>7. Reached(c, f, s) /\ Paid(f, s)
  <2>1. s \in Early \ {"TICKET", "CHOOSING", "PHONE_FOR_WAITING"}
        /\ s \notin {"MONTH", "SHOW", "DATE", "LIST_WAIT"} /\ c # "migration_admin"
    BY <1>1 DEF Early
  <2> QED BY <1>3, <2>1, ReachedEarly
<1> QED BY <1>2, <1>3, <1>4, <1>5, <1>6, <1>7, BeginKeeps

LEMMA migration_adminKeeps ==
    ASSUME DialogInv, migration_admin PROVE DialogInv'
<1>1. PICK c, s, f, b, m :
        /\ c = "migration_admin" /\ s = "0" /\ m = "message"
        /\ f = [Fresh EXCEPT !.old = m] /\ b = {Cancel}
  OBVIOUS
<1>2. Begin(c, c, s, f, b)
  BY <1>1 DEF migration_admin
<1>3. c \in Convs /\ c \in CommandsOf(c) /\ s \in States /\ s # "TIME" /\ s \in StatesOf[c]
  BY <1>1, StatesAre, EarlyIsState DEF Convs, CommandsOf, Early
<1>4. DataTyped(f) /\ f.alive /\ Ways(c, f)
  <2>1. PICK g : g = Fresh
    OBVIOUS
  <2>2. /\ Shape(g) /\ g.alive /\ g.lists = {}
        /\ g.event = "none" /\ g.text = "none" /\ g.ticket = "none"
        /\ g.price = NoPrice /\ g.discount = NoPrice /\ g.carried \in BOOLEAN
    BY <2>1, FreshParts
  <2>3. f = [g EXCEPT !.old = m]
    BY <1>1, <2>1
  <2>4. /\ Shape(f) /\ f.alive = g.alive /\ f.lists = {} /\ f.back = g.back
        /\ f.event = "none" /\ f.text = "none" /\ f.ticket = "none"
        /\ f.price = NoPrice /\ f.discount = NoPrice /\ f.carried \in BOOLEAN
    BY <2>2, <2>3 DEF Shape
  <2> QED BY <1>3, <2>1, <2>2, <2>4, FreshLike
<1>5. ScreenFits(s, b) /\ \A i \in b : Fits(c, s, i)
  <2>1. \A i \in b : Plain(i)
    BY <1>1, PlainButtons
  <2> QED BY <1>1, <1>3, <2>1, PlainScreen, CancelFits
<1>6. Reached(c, f, s) /\ Paid(f, s)
  <2>1. s \in Early \ {"TICKET", "CHOOSING", "PHONE_FOR_WAITING"}
        /\ s \notin {"MONTH", "SHOW", "DATE", "LIST_WAIT"} /\ s = "0"
    BY <1>1 DEF Early
  <2> QED BY <1>3, <2>1, ReachedEarly
<1> QED BY <1>2, <1>3, <1>4, <1>5, <1>6, BeginKeeps

LEMMA list_waitKeeps ==
    ASSUME DialogInv, list_wait PROVE DialogInv'
<1>1. PICK c, s, f, b, l :
        /\ c = "list_wait" /\ s = "MONTH" /\ l = {"MONTH"}
        /\ f = [Fresh EXCEPT !.lists = l] /\ b = {Btn("MONTH"), Cancel}
  OBVIOUS
<1>2. Begin(c, c, s, f, b)
  BY <1>1 DEF list_wait
<1>3. c \in Convs /\ c \in CommandsOf(c) /\ s \in States /\ s # "TIME" /\ s \in StatesOf[c]
      /\ l \subseteq States /\ s \in l
  BY <1>1, StatesAre, EarlyIsState DEF Convs, CommandsOf, Early
<1>4. DataTyped(f) /\ f.alive /\ Ways(c, f) /\ f.lists = l
  <2>1. PICK g : g = Fresh
    OBVIOUS
  <2>2. /\ Shape(g) /\ g.alive
        /\ g.event = "none" /\ g.text = "none" /\ g.ticket = "none"
        /\ g.price = NoPrice /\ g.discount = NoPrice /\ g.carried \in BOOLEAN
    BY <2>1, FreshParts
  <2>3. f = [g EXCEPT !.lists = l]
    BY <1>1, <2>1
  <2>4. /\ Shape(f) /\ f.alive = g.alive /\ f.lists = l /\ f.back = g.back
        /\ f.event = "none" /\ f.text = "none" /\ f.ticket = "none"
        /\ f.price = NoPrice /\ f.discount = NoPrice /\ f.carried \in BOOLEAN
    BY <2>2, <2>3 DEF Shape
  <2> QED BY <1>3, <2>1, <2>2, <2>4, FreshLike
<1>5. ScreenFits(s, b) /\ \A i \in b : Fits(c, s, i)
  <2>1. \A i \in b : Plain(i)
    BY <1>1, PlainButtons
  <2>2. "MONTH" \in Kinds(c, s)
    BY <1>1 DEF Kinds
  <2> QED BY <1>1, <1>3, <2>1, <2>2, PlainScreen, KeyFits, CancelFits
<1>6. Reached(c, f, s) /\ Paid(f, s)
  <2>1. s \in Early \ {"TICKET", "CHOOSING", "PHONE_FOR_WAITING"}
        /\ s # "LIST_WAIT" /\ c # "migration_admin" /\ s \in f.lists
    BY <1>1, <1>3, <1>4 DEF Early
  <2> QED BY <1>3, <2>1, ReachedEarly
<1> QED BY <1>2, <1>3, <1>4, <1>5, <1>6, BeginKeeps

LEMMA startKeeps ==
    ASSUME DialogInv, start PROVE DialogInv'
<1>1. PICK n \in DOMAIN Order : EndClean(Order[n])
  BY DEF start
<1>2. Order[n] \in Convs
  BY DEF Order, Convs
<1>3. SideTyped
  BY SideSame DEF start, dbVars
<1> QED BY <1>1, <1>2, <1>3, StepEndClean

\* The check is made in /reserve only, and where there is a screen.
LEMMA CheckedIn ==
    ASSUME DialogInv, Checked
    PROVE  /\ "reserve" \in Convs /\ owner # "none"
           /\ owner = "reserve" \/ owner \notin Convs
<1>1. command = "reserve" /\ screen # {}
  BY DEF Checked
<1>2. owner # "none"
  BY <1>1, DataNow
<1>3. \A k \in Convs : owner = k => k = "reserve"
  BY <1>1 DEF DialogInv, OwnInv, Own, CommandsOf, Convs
<1> QED BY <1>2, <1>3 DEF Convs

LEMMA TimedOutKeeps ==
    ASSUME DialogInv, TimedOut PROVE DialogInv'
<1>1. PICK c, s, b : c = "reserve" /\ s = "MODE" /\ b = {}
  OBVIOUS
<1>2. /\ conv' = [conv EXCEPT ![c] = s] /\ state' = state /\ screen' = b /\ data' = data
      /\ UNCHANGED <<command, owner, faults>> /\ Checked
  BY <1>1 DEF TimedOut
<1>3. SideTyped
  BY SideSame DEF TimedOut, dbVars
<1>4. c \in Convs /\ owner # "none" /\ (owner = c \/ owner \notin Convs)
  BY <1>1, <1>2, CheckedIn
<1>5. /\ s \in States /\ b \subseteq Buttons /\ ScreenFits(state, b) /\ DataTyped(data)
      /\ state \in {"none", "END"} \cup States /\ s = "MODE" /\ s # "none"
  BY <1>1, ModeScreen, DataNow DEF ScreenFits
<1>6. ASSUME owner = c
      PROVE  data.alive /\ Ways(c, data) /\ Reached(c, data, s) /\ Paid(data, s)
  <2>1. data.alive /\ Ways(c, data)
    BY <1>4, <1>6 DEF DialogInv, OwnInv, Own
  <2>2. s \in Early \ {"TICKET", "CHOOSING", "PHONE_FOR_WAITING"} /\ s \in StatesOf[c]
        /\ s \notin {"MONTH", "SHOW", "DATE", "LIST_WAIT"} /\ c # "migration_admin"
    BY <1>1, ModeScreen DEF Early
  <2> QED BY <1>4, <2>1, <2>2, ReachedEarly
<1>7. owner = c =>
        /\ data.alive /\ Ways(c, data)
        /\ s = "none" => b = {}
        /\ s # "none" => /\ Reached(c, data, s) /\ Paid(data, s)
                         /\ s = "MODE" /\ b = {}
                         /\ s = "TIME" => "TIME" \in DOMAIN data.back
                         /\ \A i \in b : Fits(c, s, i)
  BY <1>1, <1>5, <1>6
<1> QED BY <1>2, <1>3, <1>4, <1>5, <1>7, StepAt

LEMMA OutdatedKeeps ==
    ASSUME DialogInv, Outdated PROVE DialogInv'
<1>1. /\ "reserve" \in Convs /\ owner # "none"
      /\ owner = "reserve" \/ owner \notin Convs
  BY CheckedIn DEF Outdated
<1>2. SideTyped
  BY SideSame DEF Outdated, dbVars
<1>3. CASE Fault("reserve", "choice_mode")
  BY <1>1, <1>2, <1>3, StepFault DEF KnownFaults
<1>4. CASE Show("reserve", "MODE", Fresh, ModeButtons)
  BY <1>1, <1>2, <1>4, FreshMode
<1> QED BY <1>3, <1>4 DEF Outdated, Show

-----------------------------------------------------------------------------
(* Every step.                                                             *)

LEMMA DialogStart == Init => DialogInv
<1> SUFFICES ASSUME Init PROVE DialogInv
  OBVIOUS
<1>1. /\ conv = [c \in Convs |-> "none"] /\ state = "none" /\ command = "none"
      /\ mode = "none" /\ data = Gone /\ screen = {} /\ email = "none"
      /\ owner = "none" /\ faults = {}
  BY DEF Init
<1>2. DataTyped(data) /\ ~data.alive
  BY <1>1, GoneTyped
<1>3. TypeInv
  BY <1>1, <1>2 DEF TypeInv, TypeOK, DataTyped, ScreenFits
<1>4. OwnInv
  BY <1>1 DEF OwnInv, OwnDialogNeverFails, Convs
<1>5. Nobodys
  BY <1>1, <1>2 DEF Nobodys
<1> QED BY <1>3, <1>4, <1>5 DEF DialogInv

LEMMA ChoosingKeeps ==
    ASSUME DialogInv, NEW c \in Convs, Choosing(c) PROVE DialogInv'
BY cancelKeeps, backKeeps, choice_modeKeeps, choice_show_by_repertoireKeeps,
   choice_monthKeeps, choice_showKeeps, choice_dateKeeps, choice_timeKeeps,
   choice_option_of_reserveKeeps, send_clients_dataKeeps,
   send_clients_wait_dataKeeps, enter_event_idKeeps, choice_option_by_idKeeps,
   get_ticket_by_idKeeps, migration_ticketKeeps, update_ticketKeeps DEF Choosing

LEMMA BookingKeeps ==
    ASSUME DialogInv, NEW c \in Convs, Booking(c) PROVE DialogInv'
BY get_ticketKeeps, get_agreementKeeps, get_emailKeeps, start_forma_infoKeeps,
   get_adultKeeps, get_phoneKeeps, phone_confirmKeeps, write_list_of_waitingKeeps,
   get_phone_for_waitingKeeps, get_childrenKeeps DEF Booking

LEMMA PayingKeeps ==
    ASSUME DialogInv, NEW c \in Convs, Paying(c) PROVE DialogInv'
BY reset_promoKeeps, ask_promo_codeKeeps, handle_promo_code_inputKeeps,
   apply_option_promoKeeps, confirm_go_payKeeps,
   confirm_admin_without_paymentKeeps, confirm_paymentKeeps,
   process_successful_payment_with_verificationKeeps,
   handle_certificate_fileKeeps DEF Paying

LEMMA DialogStep == DialogInv /\ [Next]_vars => DialogInv'
<1> SUFFICES ASSUME DialogInv, [Next]_vars PROVE DialogInv'
  OBVIOUS
<1>1. CASE reserve \/ reserve_admin \/ list_wait \/ migration_admin \/ start
  BY <1>1, reserveKeeps, reserve_adminKeeps, list_waitKeeps, migration_adminKeeps,
     startKeeps
<1>2. CASE TimedOut \/ Outdated
  BY <1>2, TimedOutKeeps, OutdatedKeeps
<1>3. CASE \E c \in Convs : Choosing(c) \/ Booking(c) \/ Paying(c)
  BY <1>3, ChoosingKeeps, BookingKeeps, PayingKeeps
<1>4. CASE UNCHANGED vars
  <2>1. UNCHANGED <<conv, state, command, data, screen, owner>> /\ faults' = faults
        /\ SideTyped
    BY <1>4, SideSame DEF vars
  <2> QED BY <2>1, DataNow, StepSame
<1> QED BY <1>1, <1>2, <1>3, <1>4 DEF Next

LEMMA DialogAlways == Spec => []DialogInv
BY DialogStart, DialogStep, PTL DEF Spec

-----------------------------------------------------------------------------
(* The waiting list.                                                       *)

LEMMA ChoosingLeavesIt ==
    ASSUME NEW c \in Convs, Choosing(c) PROVE waiting' = waiting
<1>1. cancel(c) => waiting' = waiting
  BY DEF cancel, dbVars
<1>2. back(c) => waiting' = waiting
  BY DEF back, dbVars
<1>3. choice_mode(c) => waiting' = waiting
  BY DEF choice_mode, dbVars
<1>4. choice_show_by_repertoire(c) => waiting' = waiting
  BY DEF choice_show_by_repertoire, dbVars
<1>5. choice_month(c) => waiting' = waiting
  BY DEF choice_month, dbVars
<1>6. choice_show(c) => waiting' = waiting
  BY DEF choice_show, dbVars
<1>7. choice_date(c) => waiting' = waiting
  BY DEF choice_date, dbVars
<1>8. choice_time(c) => waiting' = waiting
  BY DEF choice_time, dbVars
<1>9. choice_option_of_reserve(c) => waiting' = waiting
  BY DEF choice_option_of_reserve, dbVars
<1>10. send_clients_data(c) \/ send_clients_wait_data(c) => waiting' = waiting
  BY DEF send_clients_data, send_clients_wait_data, dbVars
<1>11. enter_event_id(c) => waiting' = waiting
  BY DEF enter_event_id, dbVars
<1>12. choice_option_by_id(c) => waiting' = waiting
  BY DEF choice_option_by_id, dbVars
<1>13. get_ticket_by_id(c) => waiting' = waiting
  BY DEF get_ticket_by_id, dbVars
<1>14. migration_ticket(c) \/ update_ticket(c) => waiting' = waiting
  BY DEF migration_ticket, update_ticket, dbVars, vars
<1> QED BY <1>1, <1>2, <1>3, <1>4, <1>5, <1>6, <1>7, <1>8, <1>9, <1>10, <1>11,
           <1>12, <1>13, <1>14 DEF Choosing

LEMMA PayingLeavesIt ==
    ASSUME NEW c \in Convs, Paying(c) PROVE waiting' = waiting
<1>1. reset_promo(c) \/ ask_promo_code(c) => waiting' = waiting
  BY DEF reset_promo, ask_promo_code, dbVars
<1>2. handle_promo_code_input(c) \/ apply_option_promo(c) => waiting' = waiting
  BY DEF handle_promo_code_input, apply_option_promo, dbVars
<1>3. confirm_go_pay(c) => waiting' = waiting
  BY DEF confirm_go_pay, dbVars
<1>4. confirm_admin_without_payment(c) \/ confirm_payment(c) => waiting' = waiting
  BY DEF confirm_admin_without_payment, confirm_payment, dbVars
<1>5. process_successful_payment_with_verification(c) => waiting' = waiting
  BY DEF process_successful_payment_with_verification, dbVars
<1>6. handle_certificate_file(c) => waiting' = waiting
  BY DEF handle_certificate_file, dbVars
<1> QED BY <1>1, <1>2, <1>3, <1>4, <1>5, <1>6 DEF Paying

\* A dialog that has been alone adds the showing it has described.
LEMMA AddedAsShown ==
    ASSUME DialogInv, WaitingIsShown, NEW c \in Convs, AddToWaiting(c),
           owner # "several", conv[c] \in StatesOf[c], conv[c] # "none",
           owner = c => conv[c] = "PHONE_FOR_WAITING"
    PROVE  WaitingIsShown'
<1>1. owner = c \/ owner = "none"
  <2>1. owner \in {"none", "several"} \cup Convs
    BY DEF DialogInv, TypeInv, TypeOK
  <2> QED BY <2>1, WhoseTurn
<1>2. CASE ~ data.alive \/ "none" \in {data.event, data.text}
  BY <1>2 DEF AddToWaiting, WaitingIsShown
<1>3. CASE ~ (~ data.alive \/ "none" \in {data.event, data.text})
  <2>1. owner = c
    BY <1>1, <1>3 DEF DialogInv, Nobodys
  <2>2. c = "reserve"
    BY <2>1, StatesAre DEF Convs
  <2>3. data.text = data.event
    BY <2>1, <2>2, OwnAt DEF Ways
  <2>4. waiting' = waiting \cup {<<data.event, data.text>>}
    BY <1>3 DEF AddToWaiting
  <2> QED BY <2>3, <2>4 DEF WaitingIsShown
<1> QED BY <1>2, <1>3

LEMMA WaitingKept ==
    DialogInv /\ WaitingIsShown /\ owner # "several" /\ [Next]_vars
        => WaitingIsShown'
<1> SUFFICES ASSUME DialogInv, WaitingIsShown, owner # "several", [Next]_vars
             PROVE  WaitingIsShown'
  OBVIOUS
<1>1. ASSUME waiting' = waiting PROVE WaitingIsShown'
  BY <1>1 DEF WaitingIsShown
<1>2. CASE reserve \/ reserve_admin \/ list_wait \/ migration_admin \/ start
  <2>1. waiting' = waiting
    BY <1>2 DEF reserve, reserve_admin, list_wait, migration_admin, start, Begin,
                dbVars
  <2> QED BY <1>1, <2>1
<1>3. CASE TimedOut \/ Outdated
  <2>1. waiting' = waiting
    BY <1>3 DEF TimedOut, Outdated, dbVars
  <2> QED BY <1>1, <2>1
<1>4. ASSUME NEW c \in Convs, Choosing(c) \/ Paying(c) PROVE WaitingIsShown'
  BY <1>1, <1>4, ChoosingLeavesIt, PayingLeavesIt
<1>5. ASSUME NEW c \in Convs, Booking(c) PROVE WaitingIsShown'
  <2>1. CASE get_ticket(c) \/ get_agreement(c)
    <3>1. waiting' = waiting
      BY <2>1 DEF get_ticket, get_agreement, dbVars
    <3> QED BY <1>1, <3>1
  <2>2. CASE get_email(c) \/ start_forma_info(c)
    <3>1. waiting' = waiting
      BY <2>2 DEF get_email, start_forma_info, dbVars
    <3> QED BY <1>1, <3>1
  <2>3. CASE get_adult(c) \/ get_phone(c) \/ write_list_of_waiting(c) \/ get_children(c)
    <3>1. waiting' = waiting
      BY <2>3 DEF get_adult, get_phone, write_list_of_waiting, get_children, dbVars
    <3> QED BY <1>1, <3>1
  <2>4. CASE phone_confirm(c)
    <3>1. Takes(c, Btn("phone_confirm"))
      BY <2>4 DEF phone_confirm
    <3>2. /\ conv[c] \in StatesOf[c] /\ conv[c] \in {"PHONE", "PHONE_FOR_WAITING"}
          /\ conv[c] # "none"
      BY <3>1, PressedBtn DEF Where
    <3>3. CASE state = "PHONE_FOR_WAITING" /\ AddToWaiting(c)
      <4>1. owner = c => conv[c] = "PHONE_FOR_WAITING"
        BY <3>2, <3>3, StateIs
      <4> QED BY <3>2, <3>3, <4>1, AddedAsShown
    <3>4. CASE waiting' = waiting
      BY <1>1, <3>4
    <3> QED BY <2>4, <3>3, <3>4 DEF phone_confirm
  <2>5. CASE get_phone_for_waiting(c)
    <3>1. conv[c] = "PHONE_FOR_WAITING" /\ Takes(c, Btn("text"))
      BY <2>5 DEF get_phone_for_waiting
    <3>2. conv[c] \in StatesOf[c]
      BY <3>1, PressedBtn
    <3>3. CASE AddToWaiting(c)
      BY <3>1, <3>2, <3>3, AddedAsShown
    <3>4. CASE waiting' = waiting
      BY <1>1, <3>4
    <3> QED BY <2>5, <3>3, <3>4 DEF get_phone_for_waiting
  <2> QED BY <1>5, <2>1, <2>2, <2>3, <2>4, <2>5 DEF Booking
<1>6. CASE UNCHANGED vars
  BY <1>1, <1>6 DEF vars
<1> QED BY <1>2, <1>3, <1>4, <1>5, <1>6 DEF Next

-----------------------------------------------------------------------------
(* The theorems.                                                           *)

\* Whatever is pressed or typed, in however many dialogs, the data keep their
\* types: set_back_context and the handlers of handlers/reserve save a screen
\* under a state, choose_schedule_event_id is a showing, and chose_price
\* belongs to a showing and a ticket.
THEOREM DataKeepTypes == Spec => []TypeOK
<1>1. DialogInv => TypeOK
  BY DEF DialogInv, TypeInv
<1> QED BY <1>1, DialogAlways, PTL

\* In a dialog that was started with no other open, every handler finds the
\* keys it reads in user_data, whatever the user goes back to and presses
\* again: those that can fail are the ones KnownFaults lists.
THEOREM KeysAreThere == Spec => []OwnDialogNeverFails
<1>1. DialogInv => OwnDialogNeverFails
  BY DEF DialogInv, OwnInv
<1> QED BY <1>1, DialogAlways, PTL

\* Every button that such a dialog shows, a screen brought back by main_hl.back
\* included, has a handler in the state the conversation is in, or is one of
\* the four kinds that NoAnswer lists.
THEOREM ButtonsAreAnswered == Spec => []EveryButtonAnswered
<1>1. DialogInv => EveryButtonAnswered
  <2> SUFFICES ASSUME DialogInv, NEW c \in Convs, NEW i \in screen, Sole(c),
                      conv[c] # "none"
               PROVE  Answers(c, i) \/ NoAnswer(c, i)
    BY DEF EveryButtonAnswered
  <2>1. Fits(c, conv[c], i)
    BY OwnAt DEF Sole
  <2>2. CASE Answered(c, conv[c], i)
    BY <2>2 DEF Answered, Answers
  <2>3. CASE Silent(c, conv[c], i)
    <3>1. conv[c] \in Deaf[c] => \/ c = "list_wait" /\ conv[c] = "DATE"
                                 \/ c = "reserve_admin" /\ conv[c] = "PAID"
      BY DEF Deaf, Convs
    <3> QED BY <2>3, <3>1 DEF Silent, NoAnswer
  <2> QED BY <2>1, <2>2, <2>3 DEF Fits
<1> QED BY <1>1, DialogAlways, PTL

\* The summary shows the price of the showing and the ticket the data name, or
\* one reduced from it, and create_and_send_payment asks for what the summary
\* has shown, however often the user has gone back, chosen anew, or set and
\* reset a code.  The one price of another ticket that can be shown and asked
\* is a discount that was there when get_ticket or start_forma_info chose this
\* ticket, and that no code was used or dropped after (carried).
THEOREM SummaryTellsTruth == Spec => []SummaryIsTrue
<1>1. DialogInv => SummaryIsTrue
  <2> SUFFICES ASSUME DialogInv, NEW c \in Convs, Sole(c)
               PROVE  /\ conv[c] = "CONFIRM_RESERVATION" =>
                             /\ data.price = <<data.event, data.ticket>>
                             /\ data.shown[2] = data.price \/ data.carried
                      /\ conv[c] = "PAID" => data.sold = data.shown
    BY DEF SummaryIsTrue
  <2>1. conv[c] # "none" => Paid(data, conv[c])
    BY OwnAt DEF Sole
  <2>2. ToPay(data)[2] = IF data.discount = NoPrice THEN data.price ELSE data.discount
    BY DEF ToPay
  <2> QED BY <2>1, <2>2 DEF Paid, Late
<1> QED BY <1>1, DialogAlways, PTL

\* While no dialog is opened on top of another (the run's constraint Followed
\* asks the same), write_list_of_waiting records the showing whose text the
\* admins are sent.  Without the condition it is false: /reserve_admin chooses
\* a showing for both and leaves the text of the other.
THEOREM WaitingTellsTruth ==
    Spec /\ [](owner # "several") => []WaitingIsShown
<1>1. Init => WaitingIsShown
  BY DEF Init, WaitingIsShown
<1> QED BY <1>1, WaitingKept, DialogAlways, PTL DEF Spec
=============================================================================
