--------------------------- MODULE PromotionForm ---------------------------
(***************************************************************************)
(* The form in which an admin creates, edits and deletes a promo code:     *)
(* handlers/promotion_hl.py behind the list of /settings.  A new code is   *)
(* asked for field by field; of a code that exists the summary is shown,   *)
(* each field can be asked for again, and an answer leads back to the      *)
(* summary.  "Back" shows a saved screen as it was, an old summary too.    *)
(*                                                                         *)
(* An answer is told apart from the one before it, not from others; of the *)
(* value only whether it may be a percentage.  Others who change the table *)
(* are in PromotionUse.tla.                                                *)
(***************************************************************************)
EXTENDS SettingsMenu

CONSTANTS
    Ids,        \* bound: rows the table may get
    Codes,      \* codes an admin types
    MaxMoves    \* bound: forms opened, fields asked for again, marks, steps back

VARIABLES
    data,       \* new_promotion['data']
    update,     \* new_promotion['service']['is_update']: the id, 0 for a new one
    form,       \* which form of the dialog it is
    rows,       \* the table promotions
    moves

own == <<data, update, form, rows>>
vars == <<menu, own, moves>>

\* Fields that are answered by a text or a press.  0: not set.
Answered == {"PROM_NAME", "PROM_MIN_SUM", "PROM_VISIBLE", "PROM_VERIFY",
             "PROM_VTEXT", "PROM_START", "PROM_EXPIRE", "PROM_MAX_USAGE",
             "PROM_MAX_USAGE_USER", "PROM_DESC"}
Optional == {"PROM_VTEXT", "PROM_START", "PROM_EXPIRE", "PROM_DESC"}
NoData == [f |-> [s \in Answered |-> 0], code |-> "none", type |-> "none",
           value |-> "none", weekdays |-> "any", only |-> {}]
Stored == [NoData EXCEPT !.f = [s \in Answered |-> IF s \in Optional THEN 0 ELSE 1],
                         !.code = "old", !.type = "fixed", !.value = "large"]

Init ==
    /\ MenuInit /\ data = NoData /\ update = 0 /\ form = 0
    /\ rows = [id \in {1} |-> Stored] /\ moves = 0

Move == moves < MaxMoves /\ moves' = moves + 1
Keep == UNCHANGED <<data, update, form, rows>>
Put(d) == data' = d /\ UNCHANGED <<update, form, rows>>

----------------------------------------------------------------------------
(* Questions.  The order of a new code's questions, backwards.             *)

Before(s) ==
    CASE s = "PROM_NAME" -> "3"                [] s = "PROM_CODE" -> "PROM_NAME"
      [] s = "PROM_DTYPE" -> "PROM_CODE"       [] s = "PROM_VALUE" -> "PROM_DTYPE"
      [] s = "PROM_MIN_SUM" -> "PROM_VALUE"    [] s = "PROM_VISIBLE" -> "PROM_MIN_SUM"
      [] s = "PROM_VERIFY" -> "PROM_VISIBLE"   [] s = "PROM_VTEXT" -> "PROM_VERIFY"
      [] s = "PROM_START" -> "PROM_VTEXT"      [] s = "PROM_EXPIRE" -> "PROM_START"
      [] s = "PROM_MAX_USAGE" -> "PROM_EXPIRE"
      [] s = "PROM_MAX_USAGE_USER" -> "PROM_MAX_USAGE"
      [] s = "PROM_WEEKDAYS" -> "PROM_MAX_USAGE_USER"
      [] s = "PROM_DESC" -> "PROM_MAX_USAGE"
Given(s, d) ==
    CASE s = "PROM_CODE" -> d.code # "none"
      [] s = "PROM_DTYPE" -> d.type # "none"
      [] s \in {"PROM_VALUE", "PROM_WEEKDAYS"} -> FALSE
      [] OTHER -> d.f[s] # 0

Scr(kind, target) == [Shown(kind, target) EXCEPT !.form = form']
\* A question of its own handler (..._start): a field that is set can be left.
AskScreen(s, d) ==
    [Scr(s, IF update' # 0 /\ s \notin {"PROM_VALUE", "PROM_WEEKDAYS"}
            THEN "PROM_CONFIRM" ELSE Before(s))
        EXCEPT !.skip = Given(s, d)]
Ask(s, d) == Put(d) /\ Enter(s, AskScreen(s, d))
\* A question put by the handler of the answer before it, of a new code only.
AskNext(s, d) == Put(d) /\ Enter(s, Scr(s, Before(s)))
\* An answer that is refused leaves the state; the screen is not saved.
Refused(s) == Keep /\ Show(s, Scr("refused", Before(s)))

\* SavedAsShown: the summary is shown again as it was saved.
Bug_old_summary(d) ==
    /\ data' = d /\ UNCHANGED rows
    /\ Enter("PROM_CONFIRM",
        IF form' = form /\ "PROM_CONFIRM" \in DOMAIN saved THEN saved["PROM_CONFIRM"]
        ELSE [Scr("PROM_CONFIRM", "3") EXCEPT !.shows = {d}])

ask_promotion_summary(d) ==
    /\ data' = d /\ UNCHANGED rows
    /\ Enter("PROM_CONFIRM", [Scr("PROM_CONFIRM", "3") EXCEPT !.shows = {d}])
Summary(d) == UNCHANGED <<update, form>> /\ ask_promotion_summary(d)

\* The handler of each question.
handle_prom_name_start(d) == Ask("PROM_NAME", d)
handle_prom_code_start(d) == Ask("PROM_CODE", d)
ask_prom_type(d) == Ask("PROM_DTYPE", d)
handle_prom_min_sum_start(d) == Ask("PROM_MIN_SUM", d)
handle_prom_visible_start(d) == Ask("PROM_VISIBLE", d)
handle_prom_verify_start(d) == Ask("PROM_VERIFY", d)
handle_prom_vtext_start(d) == Ask("PROM_VTEXT", d)
handle_prom_start_start(d) == Ask("PROM_START", d)
handle_prom_expire_start(d) == Ask("PROM_EXPIRE", d)
handle_prom_max_usage_start(d) == Ask("PROM_MAX_USAGE", d)
handle_prom_max_usage_user_start(d) == Ask("PROM_MAX_USAGE_USER", d)
handle_prom_weekdays_start(d) == Ask("PROM_WEEKDAYS", d)
handle_prom_desc_start(d) == Ask("PROM_DESC", d)

----------------------------------------------------------------------------
(* Opening the form.                                                       *)

\* The list of the codes, and what it leads to.
promotion_select ==
    /\ get_settings("promotion", DOMAIN rows) \/ select_again("promotion", DOMAIN rows)
    /\ Keep /\ UNCHANGED moves

promotion_create_start ==
    /\ conv = "3" /\ screen.kind = "promotion" /\ Move
    /\ data' = NoData /\ update' = 0 /\ form' = form + 1 /\ UNCHANGED rows
    /\ Enter("PROM_NAME", AskScreen("PROM_NAME", NoData))   \* handle_prom_name_start

\* A list that was saved may name a code that is deleted.
handle_promotion_to_update ==
    /\ conv = "3" /\ screen.kind = "promotion" /\ Move
    /\ \E id \in screen.shows :
         IF id \in DOMAIN rows
         THEN /\ update' = id /\ form' = form + 1
              /\ ask_promotion_summary(rows[id])
         ELSE Show("3", Blank) /\ Keep

\* From the summary; the question is not saved.
handle_promotion_delete ==
    /\ conv = "PROM_CONFIRM" /\ screen.kind = "PROM_CONFIRM" /\ update # 0
    /\ Move /\ Keep
    /\ Show("3", IF update \in DOMAIN rows
                 THEN [Scr("delete", NoBack) EXCEPT !.shows = {update}] ELSE Blank)

promotion_delete_start == Show("3", Shown("deletable", "3"))
refuse_delete ==
    /\ conv = "3" /\ screen.kind = "delete"
    /\ promotion_delete_start /\ Keep /\ UNCHANGED moves
confirm_promotion_delete ==
    /\ conv = "3" /\ screen.kind = "delete"
    /\ rows' = [id \in DOMAIN rows \ screen.shows |-> rows[id]]
    /\ promotion_delete_start
    /\ UNCHANGED <<data, update, form, moves>>

----------------------------------------------------------------------------
(* Answers.                                                                *)

Set(s, v) == [data EXCEPT !.f[s] = v]
Other(s) == IF data.f[s] = 1 THEN 2 ELSE 1
\* What comes after an answer: the summary, or the next question.
Then(d, next) == IF update # 0 THEN Summary(d) ELSE next
Free == UNCHANGED moves

\* BackIsKnown: the question after the name is not saved.
Bug_not_saved ==
    /\ conv = "PROM_NAME" /\ Free
    /\ LET d == Set("PROM_NAME", Other("PROM_NAME")) IN
       IF update # 0 THEN Summary(d)
       ELSE /\ Put(d) /\ conv' = "PROM_CODE"
            /\ screen' = Scr("PROM_CODE", "PROM_NAME") /\ UNCHANGED saved

handle_prom_name ==
    /\ conv = "PROM_NAME" /\ Free
    /\ LET d == Set("PROM_NAME", Other("PROM_NAME")) IN
       Then(d, AskNext("PROM_CODE", d))

\* Compared with the codes of the table, the edited one's own excepted.
Taken(c) == \E id \in DOMAIN rows \ {update} : rows[id].code = c
handle_prom_code ==
    /\ conv = "PROM_CODE" /\ Free
    /\ \E c \in Codes :
         LET d == [data EXCEPT !.code = c] IN
         IF Taken(c) THEN Refused("PROM_CODE") ELSE Then(d, ask_prom_type(d))
\* The type is asked for next, of a code that is edited too.
generate_prom_code ==
    /\ conv = "PROM_CODE" /\ screen.kind = "PROM_CODE" /\ Free
    /\ ask_prom_type([data EXCEPT !.code = "generated"])

\* The type is changed at once; the value is asked for, and is saved without
\* its buttons.
handle_prom_type ==
    /\ conv = "PROM_DTYPE" /\ screen.kind = "PROM_DTYPE" /\ Free
    /\ \E t \in {"percentage", "fixed"} : Put([data EXCEPT !.type = t])
    /\ conv' = "PROM_VALUE" /\ screen' = Scr("PROM_VALUE", "PROM_DTYPE")
    /\ saved' = With(saved, "PROM_VALUE", [screen' EXCEPT !.back = NoBack])

\* A percentage is from 1 to 100.
handle_prom_value ==
    /\ conv = "PROM_VALUE" /\ Free
    /\ \/ Refused("PROM_VALUE")
       \/ \E v \in {"small", "large"} :
            LET d == [data EXCEPT !.value = v] IN
            /\ data.type = "percentage" => v = "small"
            /\ Then(d, AskNext("PROM_MIN_SUM", d))

Number(s, next(_)) ==
    /\ conv = s /\ Free
    /\ \/ Refused(s)
       \/ LET d == Set(s, Other(s)) IN Then(d, next(d))
YesNo(s, next(_)) ==
    /\ conv = s /\ screen.kind = s /\ Free
    /\ LET d == Set(s, Other(s)) IN Then(d, next(d))
\* "Skip" empties the field.
OrSkipped(s, next(_)) ==
    /\ conv = s /\ Free
    /\ \/ LET d == Set(s, Other(s)) IN Then(d, next(d))
       \/ screen.kind = s /\ LET d == Set(s, 0) IN Then(d, next(d))
WrongDate(s) == conv = s /\ Refused(s) /\ Free

handle_prom_min_sum == Number("PROM_MIN_SUM", LAMBDA d : AskNext("PROM_VISIBLE", d))
handle_prom_visible == YesNo("PROM_VISIBLE", LAMBDA d : AskNext("PROM_VERIFY", d))
handle_prom_verify == YesNo("PROM_VERIFY", handle_prom_vtext_start)
handle_prom_vtext == OrSkipped("PROM_VTEXT", handle_prom_start_start)
handle_prom_start ==
    \/ OrSkipped("PROM_START", LAMBDA d : AskNext("PROM_EXPIRE", d))
    \/ WrongDate("PROM_START")
\* The question after it is not saved.
handle_prom_expire ==
    \/ OrSkipped("PROM_EXPIRE", LAMBDA d : Put(d) /\ Show("PROM_MAX_USAGE",
           Scr("PROM_MAX_USAGE", "PROM_EXPIRE")))
    \/ WrongDate("PROM_EXPIRE")
handle_prom_max_usage ==
    Number("PROM_MAX_USAGE", handle_prom_max_usage_user_start)
handle_prom_max_usage_user ==
    Number("PROM_MAX_USAGE_USER", handle_prom_weekdays_start)

\* A mask of days; one without any day is kept: the code never applies.
handle_prom_weekdays ==
    /\ conv = "PROM_WEEKDAYS" /\ screen.kind = "PROM_WEEKDAYS"
    /\ \/ Move /\ \E w \in {"any", "some", "never"} :
            /\ w = "never" => data.weekdays = "some"
            /\ handle_prom_weekdays_start([data EXCEPT !.weekdays = w])
       \/ Free /\ Then(data, handle_prom_desc_start(data))

\* Skipped: the name is the description.
handle_prom_desc ==
    /\ conv = "PROM_DESC" /\ Free
    /\ \/ Summary(Set("PROM_DESC", Other("PROM_DESC")))
       \/ screen.kind = "PROM_DESC"
          /\ Summary(Set("PROM_DESC", data.f["PROM_NAME"]))

skip_to_confirm == screen.skip /\ Free /\ Summary(data)

----------------------------------------------------------------------------
(* The summary.                                                            *)

edit_field ==
    /\ conv = "PROM_CONFIRM" /\ screen.kind = "PROM_CONFIRM" /\ Move
    /\ \/ handle_prom_name_start(data) \/ handle_prom_code_start(data)
       \/ ask_prom_type(data) \/ handle_prom_min_sum_start(data)
       \/ handle_prom_visible_start(data) \/ handle_prom_verify_start(data)
       \/ handle_prom_vtext_start(data) \/ handle_prom_start_start(data)
       \/ handle_prom_expire_start(data) \/ handle_prom_max_usage_start(data)
       \/ handle_prom_max_usage_user_start(data) \/ handle_prom_desc_start(data)
       \/ handle_prom_weekdays_start(data)

\* The lists of the restrictions: they are saved without their buttons, and
\* a mark changes the data at once.
_render_multi_select(s) == Scr(s, "PROM_CONFIRM")
open_restrict(s) ==
    /\ conv = "PROM_CONFIRM" /\ screen.kind = "PROM_CONFIRM" /\ Move /\ Keep
    /\ conv' = s /\ screen' = _render_multi_select(s)
    /\ saved' = With(saved, s, Blank)
handle_restrict_cb(s) ==
    /\ conv = s /\ screen.kind = s
    /\ \/ /\ Move
          /\ Put([data EXCEPT !.only = IF s \in @ THEN @ \ {s} ELSE @ \cup {s}])
          /\ Show(s, _render_multi_select(s))
       \/ Free /\ Summary(data)
restrict_type ==
    open_restrict("PROM_RESTRICT_TYPE") \/ handle_restrict_cb("PROM_RESTRICT_TYPE")
restrict_theater ==
    open_restrict("PROM_RESTRICT_THEATER") \/ handle_restrict_cb("PROM_RESTRICT_THEATER")
restrict_ticket ==
    open_restrict("PROM_RESTRICT_TICKET") \/ handle_restrict_cb("PROM_RESTRICT_TICKET")
restrict_schedule ==
    open_restrict("PROM_RESTRICT_SCHEDULE") \/ handle_restrict_cb("PROM_RESTRICT_SCHEDULE")

update_promotion == rows' = [rows EXCEPT ![update] = data]
create_promotion == \E id \in Ids \ DOMAIN rows : rows' = With(rows, id, data)

\* Whatever becomes of it, the menu is shown.  A row that was deleted is not
\* written, a new one without a value is refused by the table.
promotion_confirm_save ==
    /\ conv = "PROM_CONFIRM" /\ screen.kind = "PROM_CONFIRM" /\ Free
    /\ \/ update \in DOMAIN rows /\ update_promotion
       \/ update # 0 /\ update \notin DOMAIN rows /\ UNCHANGED rows
       \/ update = 0 /\ data.value # "none" /\ create_promotion
       \/ update = 0 /\ data.value = "none" /\ UNCHANGED rows
    /\ db /\ UNCHANGED <<data, update, form>>

----------------------------------------------------------------------------

Back == back /\ Move /\ Keep
Menu ==
    \/ start_settings /\ Keep /\ Free
    \/ choice_db_settings /\ Keep /\ Free
    \/ cancel /\ Keep /\ Free

Next ==
    \/ Menu \/ Back \/ promotion_select \/ promotion_create_start
    \/ handle_promotion_to_update \/ handle_promotion_delete \/ refuse_delete
    \/ confirm_promotion_delete \/ handle_prom_name \/ handle_prom_code
    \/ generate_prom_code \/ handle_prom_type \/ handle_prom_value
    \/ handle_prom_min_sum \/ handle_prom_visible \/ handle_prom_verify
    \/ handle_prom_vtext \/ handle_prom_start \/ handle_prom_expire
    \/ handle_prom_max_usage \/ handle_prom_max_usage_user
    \/ handle_prom_weekdays \/ handle_prom_desc \/ skip_to_confirm
    \/ edit_field \/ restrict_type \/ restrict_theater \/ restrict_ticket
    \/ restrict_schedule
    \/ promotion_confirm_save

Spec == Init /\ [][Next]_vars

----------------------------------------------------------------------------
(* Properties.                                                             *)

\* What an edited code becomes is what its summary showed when it was
\* confirmed, even when "back" has shown an old summary again.  Not so a code
\* that was generated, a type that was pressed, days and restrictions that
\* were marked: they are changed before the summary is shown again.
AsShown ==
    \A id \in DOMAIN rows \cap DOMAIN rows' :
        rows'[id] # rows[id] /\ screen.form = form =>
            \A d \in screen.shows :
                /\ rows'[id].f = d.f
                /\ rows'[id].type = d.type => rows'[id].value = d.value
SavedAsShown == [][AsShown]_vars

\* The target of "back" was saved.  Exceptions: of a new code, the question of
\* its limit, which is not saved, and whatever is asked again once a summary
\* was shown, which "to the confirmation" may do half way; of an edited code, a
\* refusal and the days, which go to the question before; and the screens of
\* an earlier form, which an unlucky "back" may come to.
Straight == update = 0 /\ ~("PROM_CONFIRM" \in DOMAIN saved /\ saved["PROM_CONFIRM"].form = form)
BackIsKnown ==
    screen.back # NoBack /\ screen.form \in {0, form} =>
        \/ CanGoBack
        \/ update = 0 /\ (~Straight \/ screen.back = "PROM_MAX_USAGE")
        \/ update # 0 /\ screen.kind \in {"refused", "PROM_WEEKDAYS"}
=============================================================================
