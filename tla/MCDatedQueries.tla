--------------------------- MODULE MCDatedQueries ---------------------------
(***************************************************************************)
(* One client for each query.                                              *)
(***************************************************************************)
EXTENDS DatedQueries

MCAmount == [s \in Stages |-> IF s = "average_per_pay_format_joiner" THEN 1 ELSE 2]

MCFormats == {"Cash", "Wire"}

Dollars(id, day, format, amount) ==
    [id |-> id, day |-> day, payment_format |-> format, amount_received |-> amount,
     payment_currency |-> "US Dollar", receiving_currency |-> "US Dollar"]

\* Cash has an average of 300, Wire of 1000: half of it is not below.
Query3Rows ==
    {Dollars(1, 1, "Cash", 100), Dollars(2, 5, "Cash", 500), Dollars(3, 2, "Wire", 1000),
     [Dollars(4, 3, "Cash", 900) EXCEPT !.receiving_currency = "Euro"],
     Dollars(5, 6, "Cash", 2), Dollars(6, 15, "Wire", 10), Dollars(7, 0, "Cash", 1)}

Edge(id, day, o, d) ==
    [id |-> id, day |-> day, account_origin |-> o, account_destination |-> d,
     payment_currency |-> "US Dollar", receiving_currency |-> "US Dollar"]

\* 1 scatters to 2 and 3, which 4 gathers; 5 sends to 3, but a day too late.
Query4Rows ==
    {Edge(1, 1, 1, 2), Edge(2, 2, 1, 3), Edge(3, 3, 2, 4), Edge(4, 5, 3, 4), Edge(5, 6, 5, 3)}

Paid(id, day, format, currency, amount) ==
    [id |-> id, day |-> day, payment_format |-> format, payment_currency |-> currency,
     amount_paid |-> amount]

\* A euro is 1.10 dollars on day 1; the bitcoin has its static rate.
Query5Rows ==
    {Paid(1, 1, "ACH", "US Dollar", 99), Paid(2, 1, "Wire", "Euro", 90),
     Paid(3, 1, "ACH", "EUR", 95), Paid(4, 2, "ACH", "Bitcoin", 1),
     Paid(5, 3, "Wire", "Klingon", 5), Paid(6, 4, "ACH", "none", 5),
     Paid(7, 5, "Cash", "Euro", 5)}

MCClients ==
    {[query |-> 3, rows |-> Query3Rows], [query |-> 4, rows |-> Query4Rows],
     [query |-> 5, rows |-> Query5Rows]}

MCCodeOf == [c \in {"US Dollar", "Euro"} |-> IF c = "Euro" THEN "EUR" ELSE "USD"]

MCRates ==
    [key \in {<<"EUR", 1>>, <<"Bitcoin", 2>>} |->
        IF key[1] = "EUR" THEN 110 ELSE 1999900]

\* Accounts by their number, pairs by the sum, currencies by the day.
MCHash(stage, key) ==
    CASE stage = "scather_gather_joiner" -> key[1] + key[2]
      [] stage = "currency_converter" -> IF key[1] = "Euro" THEN 0 ELSE key[2]
      [] OTHER -> key
=============================================================================
