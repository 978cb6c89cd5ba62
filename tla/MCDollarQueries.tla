--------------------------- MODULE MCDollarQueries ---------------------------
(* Bank 1 is written in two ways and has two names; bank 3 has no name.  The
   largest transaction of bank 1 is not in dollars. *)
EXTENDS DollarQueries, TLC

MCRawIds == {"1", "01", "2", "3"}
MCNumber == "1" :> 1 @@ "01" :> 1 @@ "2" :> 2 @@ "3" :> 3
MCHash == 1 :> 11 @@ 2 :> 6 @@ 3 :> 4

Account(id, name) == [bank_id |-> id, bank_name |-> name]
MCAccounts == <<Account("01", "First"), Account("2", "Second"), Account("1", "Other")>>

Tx(n, bank, origin, amount, receiving) ==
    [message_id |-> n, from_bank |-> bank, account_origin |-> origin, amount_received |-> amount,
     payment_currency |-> "US Dollar", receiving_currency |-> receiving]
MCTransactions ==
    {Tx(1, "1", "a", 50, "US Dollar"), Tx(2, "01", "b", 70, "US Dollar"),
     Tx(3, "1", "c", 90, "Euro"), Tx(4, "2", "d", 0, "US Dollar"),
     Tx(5, "3", "e", 49, "US Dollar")}
=============================================================================
