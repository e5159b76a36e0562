------------------------------ MODULE MCBooking ------------------------------
(* Booking with values for its constants.  Base ticket "pair" takes one    *)
(* seat of each kind, "child" takes one child seat.                        *)
EXTENDS BookingLedger, TLC

MCQuality ==
    [b \in Bases |->
        [k \in Kinds |-> CASE b = "pair" -> 1
                           [] b = "child" -> IF k = "child" THEN 1 ELSE 0
                           [] OTHER -> 2]]
MCCapacity == [e \in Events |-> [k \in Kinds |-> IF k = "child" THEN 2 ELSE 1]]
\* One seat left for children: the website asks for it, and so does the bot.
MCLastSeats == [e \in Events |-> [k \in Kinds |-> 1]]
MCTickets == Permutations(Tickets)

\* The runs about the books go no further once every event is off the book.
SomeEventKept == drift # Events

\* The run about migrations has the tickets that need no payment: those an
\* admin sells, and those a failed booking left CREATED.
MigrationsOnly ==
    /\ SomeEventKept
    /\ \A t \in Tickets : /\ age[t] = 0
                          /\ origin[t] \in {"none", "reserve_admin"}
                          /\ payment[t] = "none"
=============================================================================
