---------------------------- MODULE MCQuotePage ----------------------------
(* Constants for the model checking of QuotePage. *)
EXTENDS QuotePage

CONSTANTS t1, t2, nasd, nyse

TwoTickers == {t1, t2}
OneExchange == {nasd}
TwoExchanges == {nasd, nyse}

=============================================================================
