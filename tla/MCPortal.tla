-------------------------------- MODULE MCPortal -------------------------------
(***************************************************************************)
(* Two customers with an account each, one employee, four requests of which *)
(* two overlap.  The capabilities need an account, an account and a text,   *)
(* or two accounts and a text; the last two write.                          *)
(***************************************************************************)
EXTENDS CustomerPortal, TLC

CONSTANTS lee, okafor, savings, checking, balance, hold, transfer

MCOwned == lee :> {savings} @@ okafor :> {checking}
MCNeeds == balance :> {"account_no"} @@ hold :> {"account_no", "detail"}
             @@ transfer :> {"from_account", "to_account", "detail"}

\* The hosted demo, with and without writes and a key; a private deployment; and
\* a public one on a real bank.
MCConfigs ==
  {[synthetic |-> TRUE,  readOnly |-> TRUE,  writes |-> TRUE,  key |-> FALSE],
   [synthetic |-> TRUE,  readOnly |-> TRUE,  writes |-> FALSE, key |-> TRUE],
   [synthetic |-> FALSE, readOnly |-> FALSE, writes |-> TRUE,  key |-> TRUE],
   [synthetic |-> FALSE, readOnly |-> TRUE,  writes |-> TRUE,  key |-> TRUE]}
================================================================================
