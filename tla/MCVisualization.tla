--------------------------- MODULE MCVisualization --------------------------
(***************************************************************************)
(* Visualization on a small instance: replies whose transactions sit at    *)
(* the edges of months and years, in every direction wording and sign, and *)
(* requests for every kind of window.                                      *)
(***************************************************************************)
EXTENDS Visualization

Nov == Month(2023, 11)
Dec == Month(2023, 12)
Jan == Month(2024, 1)
Feb == Month(2024, 2)

Txn(day, direction, negative, amount, category, essential) ==
    [date |-> {day}, direction |-> direction, negative |-> negative,
     amount |-> {amount}, category |-> category, essential |-> essential,
     recurring |-> essential, balance |-> IF essential THEN {} ELSE {- amount},
     badBalance |-> FALSE]

\* Salary and rent around a new year, with and without a category.
AcrossYears ==
    <<Txn(Day(Dec, 31), "income", FALSE, 5, "", FALSE),
      Txn(Day(Jan, 1), "payment", TRUE, 3, "rent", TRUE),
      Txn(Day(Jan, 1), "debit", FALSE, 1, "", FALSE)>>

\* The last day of a leap February, after months without data.
LeapDay ==
    <<Txn(Day(Feb, 29), "out", FALSE, 2, "Uncategorised", FALSE),
      Txn(Day(Feb, 29), "transfer", TRUE, 2, "", TRUE),
      Txn(Day(Nov, 30), "credit", TRUE, 4, "rent", FALSE)>>

\* A wording nobody knows, on an amount without a sign.
Unknown == <<Txn(Day(Jan, 2), "transfer", FALSE, 7, "rent", FALSE)>>

Reply(transactions, periodEnd) ==
    [truncated |-> FALSE, keys |-> RequiredKeys, currency |-> "EUR",
     ownCurrency |-> "", periodEnd |-> periodEnd,
     transactions |-> transactions]

MCReplies ==
    {Reply(AcrossYears, {Day(Feb, 29)}),
     Reply(LeapDay, {}),
     Reply(<<>>, {Day(Nov, 30)}),
     Reply(<<>>, {}),
     Reply(Unknown, {}),
     Reply(<<[LeapDay[1] EXCEPT !.badBalance = TRUE]>>, {}),
     [Reply(LeapDay, {}) EXCEPT !.truncated = TRUE],
     [Reply(LeapDay, {}) EXCEPT !.keys = {"analysis"}],
     [Reply(LeapDay, {}) EXCEPT !.currency = ""]}

Params(months, from, to) ==
    [months |-> months, from |-> from, to |-> to, malformed |-> FALSE]

MCQueries ==
    {Params({}, {}, {}), Params({1}, {}, {}), Params({12}, {}, {}),
     Params({0}, {}, {}), Params({13}, {}, {}),
     Params({}, {}, {Jan}), Params({2}, {}, {Jan}),
     Params({2}, {Nov}, {}), Params({}, {Feb}, {}),
     Params({1}, {Dec}, {Jan}), Params({}, {Feb}, {Feb}),
     Params({}, {Feb}, {Jan}),
     [Params({}, {}, {}) EXCEPT !.malformed = TRUE]}

MCToday == Day(Month(2024, 3), 15)
=============================================================================
